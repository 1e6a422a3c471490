------------------------ MODULE DuolingoEscrowProofs ------------------------
(***************************************************************************)
(* What is proved of LockInDuolingoEscrow.sol, for any number of wallets,  *)
(* Locks, pauses and signing keys.                                         *)
(***************************************************************************)
EXTENDS DuolingoEscrowProperties, CompletionPausesProofs, SumProofs, FiniteSetTheorems

(* Division as claim() uses it.                                            *)
LEMMA DivBounds ==
  ASSUME NEW n \in Nat, NEW d \in Nat, d >= 1
  PROVE  n \div d \in Nat /\ n \div d <= n
OBVIOUS

LEMMA ProductIsNat ==
  ASSUME NEW m \in Nat, NEW n \in Nat PROVE m * n \in Nat
OBVIOUS

(* The terms of every Lock, created or not, are numbers.                   *)
LEMMA TermsAreNumbers ==
  ASSUME NEW c \in Configurations \cup {ZeroTerms}
  PROVE  /\ c.stake \in Nat /\ c.startsAt \in Nat /\ c.durationSeconds \in Nat
         /\ c.minParticipants \in Nat /\ c.targetXp \in Nat
<1>1. CASE c = ZeroTerms
  BY <1>1 DEF ZeroTerms
<1>2. CASE c \in Configurations
  <2>1. /\ c.stake \in Stakes /\ c.startsAt \in Times /\ c.targetXp \in Targets
        /\ c.durationSeconds \in MinDuration .. MaxDuration
        /\ c.minParticipants \in MinParticipants .. MaxParticipants
    BY <1>2 DEF Configurations
  <2>2. c.stake \in Nat /\ c.targetXp \in Nat
    BY <2>1, EscrowConstants
  <2>3. c.startsAt \in Nat
    BY <2>1, PauseBounds DEF Times
  <2>4. c.durationSeconds \in Nat /\ c.minParticipants \in Nat
    <3>1. MinDuration \in Nat /\ MinParticipants \in Nat
      BY EscrowConstants
    <3> QED BY <2>1, <3>1
  <2> QED BY <2>2, <2>3, <2>4
<1> QED BY <1>1, <1>2

(* The sets of a Lock are finite, so their cardinalities are numbers.      *)
LEMMA WalletSetsFinite ==
  ASSUME NEW S \in SUBSET Wallets
  PROVE  IsFiniteSet(S) /\ Cardinality(S) \in Nat
<1>1. IsFiniteSet(Wallets)
  BY EscrowConstants
<1>2. IsFiniteSet(S)
  BY <1>1, FS_Subset
<1> QED BY <1>2, FS_CardinalityType

-----------------------------------------------------------------------------
(* The inductive invariant: the types, the accounts of every Lock, and the *)
(* identities bound in it.                                                 *)

AccountsOf(p) ==
    /\ pacts[p].participantCount = Cardinality(joined[p])
    /\ pacts[p].finisherCount = Cardinality(completed[p])
    /\ completed[p] \subseteq joined[p]
    /\ pacts[p].claimsRemaining =
          IF pacts[p].finalized THEN Cardinality(unpaid(p)) ELSE 0
    /\ ~pacts[p].finalized => claimed[p] = {}

Untouched(p) ==
    pacts[p] = ZeroPact /\ joined[p] = {} /\ completed[p] = {} /\ claimed[p] = {}

Accounts ==
    \A p \in PactIds : AccountsOf(p) /\ (p >= nextPactId => Untouched(p))

AccountInv == TypeOK /\ Accounts /\ OneIdentityOnePlayer

accountOf(p) == <<pacts[p], joined[p], completed[p], claimed[p]>>
identitiesOf(p) == <<joined[p], participantIdentity[p], identityOwner[p]>>

(* A Lock whose account an action leaves alone keeps its account in order. *)
LEMMA OtherLocksKeepAccounts ==
  ASSUME NEW p \in PactIds, AccountsOf(p), accountOf(p)' = accountOf(p)
  PROVE  AccountsOf(p)'
<1>1. /\ pacts'[p] = pacts[p] /\ joined'[p] = joined[p]
      /\ completed'[p] = completed[p] /\ claimed'[p] = claimed[p]
  BY DEF accountOf
<1>2. \A w : Eligible(p, w)' <=> Eligible(p, w)
  BY <1>1 DEF Eligible, Refunded
<1>3. unpaid(p)' = unpaid(p)
  BY <1>1, <1>2 DEF unpaid, winners
<1> QED BY <1>1, <1>3 DEF AccountsOf

LEMMA IdentityFrame ==
  ASSUME OneIdentityOnePlayer, \A p \in PactIds : identitiesOf(p)' = identitiesOf(p)
  PROVE  OneIdentityOnePlayer'
BY DEF OneIdentityOnePlayer, identitiesOf

(* The new account after a step on one Lock.                               *)
LEMMA OneLockStep ==
  ASSUME TypeOK, Accounts, NEW p \in PactIds, nextPactId' = nextPactId, p < nextPactId,
         \A q \in PactIds : q # p => accountOf(q)' = accountOf(q),
         AccountsOf(p)'
  PROVE  Accounts'
<1> SUFFICES ASSUME NEW q \in PactIds
             PROVE  AccountsOf(q)' /\ (q >= nextPactId' => Untouched(q)')
  BY DEF Accounts
<1>1. CASE q = p
  <2>1. ~ (q >= nextPactId')
    BY <1>1, EscrowConstants DEF TypeOK
  <2> QED BY <1>1, <2>1
<1>2. CASE q # p
  <2>1. accountOf(q)' = accountOf(q)
    BY <1>2
  <2> QED BY <2>1, OtherLocksKeepAccounts DEF Accounts, Untouched, accountOf
<1> QED BY <1>1, <1>2

(* A Lock that exists has an id below nextPactId.                          *)
LEMMA ExistingIdsAreBelow ==
  ASSUME TypeOK, Accounts, NEW p \in PactIds, Exists(p) PROVE p < nextPactId
<1>1. p \in Nat /\ nextPactId \in Nat
  BY EscrowConstants DEF TypeOK
<1>2. ~ (p >= nextPactId)
  BY DEF Accounts, Untouched, Exists, ZeroPact
<1> QED BY <1>1, <1>2

-----------------------------------------------------------------------------

LEMMA InitAccountInv == Init => AccountInv
<1> SUFFICES ASSUME Init PROVE AccountInv
  OBVIOUS
<1>1. PausesTypeOK
  BY LedgerInit DEF Init, LedgerOK
<1>2. ZeroPact \in DuoPact
  BY DEF ZeroPact, DuoPact
<1>3. TypeOK
  BY <1>1, <1>2 DEF Init, TypeOK
<1>4. Accounts
  BY FS_EmptySet DEF Init, Accounts, AccountsOf, Untouched, ZeroPact
<1>5. OneIdentityOnePlayer
  BY EscrowConstants DEF Init, OneIdentityOnePlayer
<1> QED BY <1>3, <1>4, <1>5 DEF AccountInv

-----------------------------------------------------------------------------
(* Putting a stake down: createPact and joinPact.                          *)

(* Binding a free identity to a wallet that is just joining keeps the two  *)
(* identity maps inverse to one another.                                   *)
LEMMA BindKeepsIdentities ==
  ASSUME TypeOK, OneIdentityOnePlayer, NEW p \in PactIds, NEW w \in Wallets, NEW i \in Identities,
         w \notin joined[p], identityFree(p, w, i), bindIdentity(p, w, i),
         joined' = [joined EXCEPT ![p] = @ \cup {w}]
  PROVE  /\ OneIdentityOnePlayer'
         /\ joined' \in [PactIds -> SUBSET Wallets]
         /\ participantIdentity' \in [PactIds -> [Wallets -> Identities \cup {NoIdentity}]]
         /\ identityOwner' \in [PactIds -> [Identities -> Wallets \cup {NoAddress}]]
<1>1. i # NoIdentity /\ w # NoAddress
  BY EscrowConstants
<1>2. /\ joined \in [PactIds -> SUBSET Wallets]
      /\ participantIdentity \in [PactIds -> [Wallets -> Identities \cup {NoIdentity}]]
      /\ identityOwner \in [PactIds -> [Identities -> Wallets \cup {NoAddress}]]
  BY DEF TypeOK
<1>3. participantIdentity[p][w] = NoIdentity
  BY DEF OneIdentityOnePlayer
<1>4. identityOwner[p][i] = NoAddress
  BY <1>1, <1>3 DEF OneIdentityOnePlayer, identityFree
<1>5. /\ joined' \in [PactIds -> SUBSET Wallets]
      /\ participantIdentity' \in [PactIds -> [Wallets -> Identities \cup {NoIdentity}]]
      /\ identityOwner' \in [PactIds -> [Identities -> Wallets \cup {NoAddress}]]
  BY <1>2 DEF bindIdentity
<1>6. ASSUME NEW q \in PactIds, NEW v \in Wallets
      PROVE  v \in joined'[q] <=> participantIdentity'[q][v] # NoIdentity
  <2>1. CASE q = p /\ v = w
    BY <1>1, <1>2, <2>1 DEF bindIdentity
  <2>2. CASE q # p \/ v # w
    <3>1. /\ v \in joined'[q] <=> v \in joined[q]
          /\ participantIdentity'[q][v] = participantIdentity[q][v]
      BY <1>2, <2>2 DEF bindIdentity
    <3> QED BY <3>1 DEF OneIdentityOnePlayer
  <2> QED BY <2>1, <2>2
<1>7. ASSUME NEW q \in PactIds, NEW v \in Wallets, NEW j \in Identities
      PROVE  identityOwner'[q][j] = v <=> participantIdentity'[q][v] = j
  <2>1. identityOwner[q][j] = v <=> participantIdentity[q][v] = j
    BY DEF OneIdentityOnePlayer
  <2>2. CASE q # p
    <3>1. identityOwner'[q] = identityOwner[q] /\ participantIdentity'[q] = participantIdentity[q]
      BY <1>2, <2>2 DEF bindIdentity
    <3> QED BY <2>1, <3>1
  <2>3. CASE q = p
    <3>1. /\ identityOwner'[q][j] = IF j = i THEN w ELSE identityOwner[q][j]
          /\ participantIdentity'[q][v] = IF v = w THEN i ELSE participantIdentity[q][v]
      BY <1>2, <2>3 DEF bindIdentity
    <3>2. identityOwner[q][i] = v <=> participantIdentity[q][v] = i
      BY DEF OneIdentityOnePlayer
    <3>3. identityOwner[q][j] = w <=> participantIdentity[q][w] = j
      BY DEF OneIdentityOnePlayer
    <3>4. NoAddress \notin Wallets /\ NoIdentity \notin Identities
      BY EscrowConstants
    <3> QED BY <1>3, <1>4, <2>1, <2>3, <3>1, <3>2, <3>3, <3>4
  <2> QED BY <2>2, <2>3
<1> QED BY <1>5, <1>6, <1>7 DEF OneIdentityOnePlayer

LEMMA CreateKeepsInv ==
  ASSUME AccountInv, NEW w \in Wallets, NEW c \in Configurations,
         createPact(w, c, AnyBaseline(w, c))
  PROVE  AccountInv'
<1>0. PICK n \in PactIds : n = nextPactId
  BY DEF createPact
<1> DEFINE record == [ZeroPact EXCEPT !.creator = w, !.terms = c, !.participantCount = 1]
<1>1. TypeOK /\ Accounts /\ OneIdentityOnePlayer /\ n \in Nat
  BY EscrowConstants DEF AccountInv
<1>2. PICK b \in AnyBaseline(w, c) :
         /\ identityFree(n, w, b.identityHash)
         /\ usedNullifiers' = usedNullifiers \cup {b.nullifier}
         /\ bindIdentity(n, w, b.identityHash)
  BY <1>0 DEF createPact
<1>3. b.identityHash \in Identities /\ b.nullifier \in Nullifiers
  BY EscrowConstants DEF AnyBaseline
<1>4. /\ pacts' = [pacts EXCEPT ![n] = record] /\ joined' = [joined EXCEPT ![n] = @ \cup {w}]
      /\ nextPactId' = n + 1 /\ vault' = vault + c.stake
      /\ UNCHANGED <<now, pauseVars, adminVars, completed, claimed, payout>>
  BY <1>0 DEF createPact
<1>5. Untouched(n)
  BY <1>0, <1>1 DEF Accounts
<1>6. record \in DuoPact
  BY DEF ZeroPact, DuoPact
<1>7. /\ OneIdentityOnePlayer'
      /\ joined' \in [PactIds -> SUBSET Wallets]
      /\ participantIdentity' \in [PactIds -> [Wallets -> Identities \cup {NoIdentity}]]
      /\ identityOwner' \in [PactIds -> [Identities -> Wallets \cup {NoAddress}]]
  BY <1>1, <1>2, <1>3, <1>4, <1>5, BindKeepsIdentities DEF Untouched
<1>8. TypeOK'
  <2>1. pacts' \in [PactIds -> DuoPact]
    BY <1>1, <1>4, <1>6 DEF TypeOK
  <2>2. vault' \in Int /\ nextPactId' \in Nat \ {0}
    BY <1>1, <1>4, TermsAreNumbers DEF TypeOK
  <2>3. PausesTypeOK'
    BY <1>1, <1>4 DEF TypeOK, PausesTypeOK, pauseVars, completionPauseGeneration, closedCount
  <2> QED BY <1>1, <1>2, <1>3, <1>4, <1>7, <2>1, <2>2, <2>3 DEF TypeOK, adminVars
<1>9. AccountsOf(n)'
  <2>1. joined'[n] = {w} /\ completed'[n] = {} /\ claimed'[n] = {} /\ pacts'[n] = record
    BY <1>1, <1>4, <1>5 DEF TypeOK, Untouched
  <2>2. /\ record.participantCount = 1 /\ record.finisherCount = 0
        /\ record.claimsRemaining = 0 /\ ~record.finalized
    BY DEF ZeroPact
  <2>3. Cardinality({w}) = 1 /\ Cardinality({}) = 0
    BY FS_EmptySet, FS_Singleton
  <2> QED BY <2>1, <2>2, <2>3 DEF AccountsOf
<1>10. Accounts'
  <2> SUFFICES ASSUME NEW q \in PactIds
               PROVE  AccountsOf(q)' /\ (q >= nextPactId' => Untouched(q)')
    BY DEF Accounts
  <2>1. CASE q = n
    BY <1>1, <1>4, <1>9, <2>1
  <2>2. CASE q # n
    <3>1. accountOf(q)' = accountOf(q)
      BY <1>1, <1>4, <2>2 DEF accountOf, TypeOK
    <3>2. q >= nextPactId' => q >= n
      BY <1>1, <1>4, EscrowConstants
    <3> QED BY <1>0, <1>1, <3>1, <3>2, OtherLocksKeepAccounts DEF Accounts, Untouched, accountOf
  <2> QED BY <2>1, <2>2
<1> QED BY <1>7, <1>8, <1>10 DEF AccountInv

LEMMA JoinKeepsInv ==
  ASSUME AccountInv, NEW p \in PactIds, NEW w \in Wallets,
         joinPact(p, w, AnyBaseline(w, terms(p)))
  PROVE  AccountInv'
<1>1. TypeOK /\ Accounts /\ OneIdentityOnePlayer /\ p < nextPactId
  BY ExistingIdsAreBelow DEF AccountInv, joinPact
<1>2. PICK b \in AnyBaseline(w, terms(p)) :
         /\ identityFree(p, w, b.identityHash)
         /\ usedNullifiers' = usedNullifiers \cup {b.nullifier}
         /\ bindIdentity(p, w, b.identityHash)
  BY DEF joinPact
<1>3. b.identityHash \in Identities /\ b.nullifier \in Nullifiers
  BY EscrowConstants DEF AnyBaseline
<1>4. /\ pacts' = [pacts EXCEPT ![p].participantCount = @ + 1]
      /\ joined' = [joined EXCEPT ![p] = @ \cup {w}] /\ w \notin joined[p]
      /\ vault' = vault + terms(p).stake /\ ~pacts[p].finalized
      /\ UNCHANGED <<now, pauseVars, adminVars, nextPactId, completed, claimed, payout>>
  BY DEF joinPact, joinOpen
<1>5. /\ OneIdentityOnePlayer'
      /\ joined' \in [PactIds -> SUBSET Wallets]
      /\ participantIdentity' \in [PactIds -> [Wallets -> Identities \cup {NoIdentity}]]
      /\ identityOwner' \in [PactIds -> [Identities -> Wallets \cup {NoAddress}]]
  BY <1>1, <1>2, <1>3, <1>4, BindKeepsIdentities
<1>6. /\ pacts[p] \in DuoPact /\ joined[p] \in SUBSET Wallets
      /\ pacts[p].participantCount \in Nat
  BY <1>1 DEF TypeOK, DuoPact
<1>7. TypeOK'
  <2>1. [pacts[p] EXCEPT !.participantCount = @ + 1] \in DuoPact
    BY <1>6 DEF DuoPact
  <2>2. pacts' \in [PactIds -> DuoPact]
    BY <1>1, <1>4, <2>1 DEF TypeOK
  <2>3. terms(p) \in Configurations \cup {ZeroTerms}
    BY <1>6 DEF terms, DuoPact
  <2>4. vault' \in Int
    BY <1>1, <1>4, <2>3, TermsAreNumbers DEF TypeOK
  <2>5. PausesTypeOK'
    BY <1>1, <1>4 DEF TypeOK, PausesTypeOK, pauseVars, completionPauseGeneration, closedCount
  <2> QED BY <1>1, <1>2, <1>3, <1>4, <1>5, <2>2, <2>4, <2>5 DEF TypeOK, adminVars
<1>8. AccountsOf(p)'
  <2>1. /\ joined'[p] = joined[p] \cup {w} /\ completed'[p] = completed[p] /\ claimed'[p] = claimed[p]
        /\ pacts'[p] = [pacts[p] EXCEPT !.participantCount = @ + 1]
    BY <1>1, <1>4 DEF TypeOK
  <2>2. /\ pacts'[p].participantCount = pacts[p].participantCount + 1
        /\ pacts'[p].finisherCount = pacts[p].finisherCount
        /\ pacts'[p].claimsRemaining = pacts[p].claimsRemaining
        /\ pacts'[p].finalized = pacts[p].finalized
    BY <1>6, <2>1 DEF DuoPact
  <2>3. Cardinality(joined[p] \cup {w}) = Cardinality(joined[p]) + 1
    BY <1>4, <1>6, WalletSetsFinite, FS_AddElement
  <2> QED BY <1>1, <1>4, <2>1, <2>2, <2>3 DEF Accounts, AccountsOf
<1>9. \A q \in PactIds : q # p => accountOf(q)' = accountOf(q)
  BY <1>1, <1>4 DEF accountOf, TypeOK
<1>10. Accounts'
  BY <1>1, <1>4, <1>8, <1>9, OneLockStep
<1> QED BY <1>5, <1>7, <1>10 DEF AccountInv

-----------------------------------------------------------------------------
(* Playing and calling off: submitFinal, cancelPact, cancelPactByOwner.    *)

LEMMA FinalKeepsInv ==
  ASSUME AccountInv, NEW p \in PactIds, NEW w \in Wallets,
         submitFinal(p, w, AnyFinal(p, w))
  PROVE  AccountInv'
<1>1. TypeOK /\ Accounts /\ OneIdentityOnePlayer /\ p < nextPactId
  BY ExistingIdsAreBelow DEF AccountInv, submitFinal
<1>2. PICK f \in AnyFinal(p, w) : usedNullifiers' = usedNullifiers \cup {f.nullifier}
  BY DEF submitFinal
<1>3. f.nullifier \in Nullifiers
  BY EscrowConstants DEF AnyFinal
<1>4. /\ pacts' = [pacts EXCEPT ![p].finisherCount = @ + 1]
      /\ completed' = [completed EXCEPT ![p] = @ \cup {w}]
      /\ w \in joined[p] /\ w \notin completed[p] /\ ~pacts[p].finalized
      /\ UNCHANGED <<now, pauseVars, adminVars, nextPactId, joined, participantIdentity,
                     identityOwner, paidVars>>
  BY DEF submitFinal
<1>5. /\ pacts[p] \in DuoPact /\ completed[p] \in SUBSET Wallets
      /\ pacts[p].finisherCount \in Nat
  BY <1>1 DEF TypeOK, DuoPact
<1>6. TypeOK'
  <2>1. [pacts[p] EXCEPT !.finisherCount = @ + 1] \in DuoPact
    BY <1>5 DEF DuoPact
  <2>2. pacts' \in [PactIds -> DuoPact] /\ completed' \in [PactIds -> SUBSET Wallets]
    BY <1>1, <1>4, <2>1 DEF TypeOK
  <2>3. PausesTypeOK'
    BY <1>1, <1>4 DEF TypeOK, PausesTypeOK, pauseVars, completionPauseGeneration, closedCount
  <2> QED BY <1>1, <1>2, <1>3, <1>4, <2>2, <2>3 DEF TypeOK, adminVars, paidVars
<1>7. AccountsOf(p)'
  <2>1. /\ joined'[p] = joined[p] /\ completed'[p] = completed[p] \cup {w} /\ claimed'[p] = claimed[p]
        /\ pacts'[p] = [pacts[p] EXCEPT !.finisherCount = @ + 1]
    BY <1>1, <1>4 DEF TypeOK, paidVars
  <2>2. /\ pacts'[p].participantCount = pacts[p].participantCount
        /\ pacts'[p].finisherCount = pacts[p].finisherCount + 1
        /\ pacts'[p].claimsRemaining = pacts[p].claimsRemaining
        /\ pacts'[p].finalized = pacts[p].finalized
    BY <1>5, <2>1 DEF DuoPact
  <2>3. Cardinality(completed[p] \cup {w}) = Cardinality(completed[p]) + 1
    BY <1>4, <1>5, WalletSetsFinite, FS_AddElement
  <2> QED BY <1>1, <1>4, <2>1, <2>2, <2>3 DEF Accounts, AccountsOf
<1>8. \A q \in PactIds : q # p => accountOf(q)' = accountOf(q)
  BY <1>1, <1>4 DEF accountOf, TypeOK, paidVars
<1>9. Accounts'
  BY <1>1, <1>4, <1>7, <1>8, OneLockStep
<1>10. OneIdentityOnePlayer'
  BY <1>1, <1>4, IdentityFrame DEF identitiesOf
<1> QED BY <1>6, <1>9, <1>10 DEF AccountInv

LEMMA CancelKeepsInv ==
  ASSUME AccountInv, NEW p \in PactIds,
         cancelPactByOwner(p) \/ \E w \in Wallets : cancelPact(p, w)
  PROVE  AccountInv'
<1>1. TypeOK /\ Accounts /\ OneIdentityOnePlayer /\ p < nextPactId
  BY ExistingIdsAreBelow DEF AccountInv, cancelPactByOwner, cancelPact
<1>2. /\ pacts' = [pacts EXCEPT ![p].cancelled = TRUE] /\ ~pacts[p].finalized
      /\ UNCHANGED <<now, pauseVars, adminVars, nextPactId, joined, completed,
                     participantIdentity, identityOwner, usedNullifiers, paidVars>>
  BY DEF cancelPactByOwner, cancelPact
<1>3. pacts[p] \in DuoPact
  BY <1>1 DEF TypeOK
<1>4. TypeOK'
  <2>1. [pacts[p] EXCEPT !.cancelled = TRUE] \in DuoPact
    BY <1>3 DEF DuoPact
  <2>2. pacts' \in [PactIds -> DuoPact]
    BY <1>1, <1>2, <2>1 DEF TypeOK
  <2>3. PausesTypeOK'
    BY <1>1, <1>2 DEF TypeOK, PausesTypeOK, pauseVars, completionPauseGeneration, closedCount
  <2> QED BY <1>1, <1>2, <2>2, <2>3 DEF TypeOK, adminVars, paidVars
<1>5. AccountsOf(p)'
  <2>1. pacts'[p] = [pacts[p] EXCEPT !.cancelled = TRUE]
    BY <1>1, <1>2 DEF TypeOK
  <2>2. /\ pacts'[p].participantCount = pacts[p].participantCount
        /\ pacts'[p].finisherCount = pacts[p].finisherCount
        /\ pacts'[p].claimsRemaining = pacts[p].claimsRemaining
        /\ pacts'[p].finalized = pacts[p].finalized
    BY <1>3, <2>1 DEF DuoPact
  <2> QED BY <1>1, <1>2, <2>2 DEF Accounts, AccountsOf, paidVars
<1>6. \A q \in PactIds : q # p => accountOf(q)' = accountOf(q)
  BY <1>1, <1>2 DEF accountOf, TypeOK, paidVars
<1>7. Accounts'
  BY <1>1, <1>2, <1>5, <1>6, OneLockStep
<1>8. OneIdentityOnePlayer'
  BY <1>1, <1>2, IdentityFrame DEF identitiesOf
<1> QED BY <1>4, <1>7, <1>8 DEF AccountInv

-----------------------------------------------------------------------------
(* Settlement: finalizePact and claim.                                     *)

(* Settling counts exactly the wallets that may claim, all still unpaid.   *)
LEMMA FinalizeKeepsInv ==
  ASSUME AccountInv, NEW p \in PactIds, finalizePact(p)
  PROVE  AccountInv'
<1>1. TypeOK /\ Accounts /\ OneIdentityOnePlayer /\ p < nextPactId
  BY ExistingIdsAreBelow DEF AccountInv, finalizePact
<1>2. PICK c \in BOOLEAN :
        /\ c = (pacts[p].cancelled \/ refundDue(p))
        /\ pacts' = [pacts EXCEPT
              ![p].cancelled = c, ![p].finalized = TRUE,
              ![p].claimsRemaining = eligibleClaimants(p, c),
              ![p].remainingPool = terms(p).stake * pacts[p].participantCount]
  BY DEF finalizePact
<1>3. /\ ~pacts[p].finalized
      /\ UNCHANGED <<now, pauseVars, adminVars, nextPactId, joined, completed,
                     participantIdentity, identityOwner, usedNullifiers, paidVars>>
  BY DEF finalizePact
<1>4. /\ pacts[p] \in DuoPact /\ pacts[p].participantCount \in Nat /\ pacts[p].finisherCount \in Nat
      /\ terms(p).stake \in Nat
  BY <1>1, TermsAreNumbers DEF TypeOK, DuoPact, terms
<1>5. /\ terms(p).stake * pacts[p].participantCount \in Nat
      /\ eligibleClaimants(p, c) \in Nat
  BY <1>4, ProductIsNat DEF eligibleClaimants
<1>6. pacts'[p] = [pacts[p] EXCEPT
         !.cancelled = c, !.finalized = TRUE, !.claimsRemaining = eligibleClaimants(p, c),
         !.remainingPool = terms(p).stake * pacts[p].participantCount]
  BY <1>1, <1>2 DEF TypeOK
<1>7. TypeOK'
  <2>1. pacts'[p] \in DuoPact
    BY <1>4, <1>5, <1>6 DEF DuoPact
  <2>2. pacts' \in [PactIds -> DuoPact]
    BY <1>1, <1>2, <1>6, <2>1 DEF TypeOK
  <2>3. PausesTypeOK'
    BY <1>1, <1>3 DEF TypeOK, PausesTypeOK, pauseVars, completionPauseGeneration, closedCount
  <2> QED BY <1>1, <1>3, <2>2, <2>3 DEF TypeOK, adminVars, paidVars
<1>8. AccountsOf(p)'
  <2>1. /\ pacts'[p].participantCount = pacts[p].participantCount
        /\ pacts'[p].finisherCount = pacts[p].finisherCount
        /\ pacts'[p].claimsRemaining = eligibleClaimants(p, c)
        /\ pacts'[p].cancelled = c /\ pacts'[p].finalized = TRUE
    BY <1>4, <1>6 DEF DuoPact
  <2>2. /\ joined'[p] = joined[p] /\ completed'[p] = completed[p] /\ claimed'[p] = claimed[p]
    BY <1>3 DEF paidVars
  <2>3. /\ AccountsOf(p) /\ claimed[p] = {}
        /\ joined[p] \in SUBSET Wallets /\ completed[p] \subseteq joined[p]
    BY <1>1, <1>3 DEF Accounts, AccountsOf, TypeOK
  <2>4. CASE c \/ pacts[p].finisherCount = 0
    <3>1. \A w \in Wallets : Eligible(p, w)' <=> w \in joined[p]
      BY <2>1, <2>2, <2>4 DEF Eligible, Refunded
    <3>2. unpaid(p)' = joined[p]
      BY <2>2, <2>3, <3>1 DEF unpaid, winners
    <3> QED BY <2>1, <2>2, <2>3, <2>4, <3>2 DEF AccountsOf, eligibleClaimants
  <2>5. CASE ~(c \/ pacts[p].finisherCount = 0)
    <3>1. \A w \in Wallets : Eligible(p, w)' <=> w \in completed[p]
      BY <2>1, <2>2, <2>3, <2>5 DEF Eligible, Refunded
    <3>2. unpaid(p)' = completed[p]
      BY <2>2, <2>3, <3>1 DEF unpaid, winners
    <3> QED BY <2>1, <2>2, <2>3, <2>5, <3>2 DEF AccountsOf, eligibleClaimants
  <2> QED BY <2>4, <2>5
<1>9. \A q \in PactIds : q # p => accountOf(q)' = accountOf(q)
  BY <1>1, <1>2, <1>3 DEF accountOf, TypeOK, paidVars
<1>10. Accounts'
  BY <1>1, <1>3, <1>8, <1>9, OneLockStep
<1>11. OneIdentityOnePlayer'
  BY <1>1, <1>3, IdentityFrame DEF identitiesOf
<1> QED BY <1>7, <1>10, <1>11 DEF AccountInv

(* A claimant is one of the unpaid, so the divisor is never zero, and the  *)
(* claim leaves one fewer.                                                 *)
LEMMA ClaimKeepsInv ==
  ASSUME AccountInv, NEW p \in PactIds, NEW w \in Wallets, claim(p, w)
  PROVE  AccountInv'
<1>1. TypeOK /\ Accounts /\ OneIdentityOnePlayer /\ p < nextPactId
  BY ExistingIdsAreBelow DEF AccountInv, claim
<1>2. /\ pacts' = [pacts EXCEPT ![p].remainingPool = @ - share(p), ![p].claimsRemaining = @ - 1]
      /\ claimed' = [claimed EXCEPT ![p] = @ \cup {w}]
      /\ vault' = vault - share(p)
      /\ payout' = [payout EXCEPT ![p][w] = @ + share(p)]
      /\ pacts[p].finalized /\ w \notin claimed[p] /\ Eligible(p, w)
      /\ UNCHANGED <<now, pauseVars, adminVars, nextPactId, joined, completed,
                     participantIdentity, identityOwner, usedNullifiers>>
  BY DEF claim
<1>3. /\ pacts[p] \in DuoPact /\ pacts[p].remainingPool \in Nat /\ pacts[p].claimsRemaining \in Nat
  BY <1>1 DEF TypeOK, DuoPact
<1>4. /\ pacts[p].claimsRemaining = Cardinality(unpaid(p))
      /\ w \in unpaid(p) /\ unpaid(p) \in SUBSET Wallets
  BY <1>1, <1>2 DEF Accounts, AccountsOf, unpaid, winners
<1>5. pacts[p].claimsRemaining >= 1
  <2>1. Cardinality(unpaid(p)) # 0
    BY <1>4, WalletSetsFinite, FS_EmptySet
  <2> QED BY <1>3, <1>4, <2>1
<1>6. share(p) \in Nat /\ share(p) <= pacts[p].remainingPool
  BY <1>3, <1>5, DivBounds DEF share
<1>7. pacts'[p] = [pacts[p] EXCEPT !.remainingPool = @ - share(p), !.claimsRemaining = @ - 1]
  BY <1>1, <1>2 DEF TypeOK
<1>8. TypeOK'
  <2>1. pacts'[p] \in DuoPact
    <3>1. /\ pacts[p].remainingPool - share(p) \in Nat
          /\ pacts[p].claimsRemaining - 1 \in Nat
      BY <1>3, <1>5, <1>6
    <3> HIDE DEF share
    <3> QED BY <1>3, <1>7, <3>1 DEF DuoPact
  <2>2. pacts' \in [PactIds -> DuoPact]
    BY <1>1, <1>2, <1>7, <2>1 DEF TypeOK
  <2>3. payout' \in [PactIds -> [Wallets -> Nat]]
    <3>1. payout[p][w] + share(p) \in Nat
      BY <1>1, <1>6 DEF TypeOK
    <3> QED BY <1>1, <1>2, <3>1 DEF TypeOK
  <2>4. claimed' \in [PactIds -> SUBSET Wallets] /\ vault' \in Int
    BY <1>1, <1>2, <1>6 DEF TypeOK
  <2>5. PausesTypeOK'
    BY <1>1, <1>2 DEF TypeOK, PausesTypeOK, pauseVars, completionPauseGeneration, closedCount
  <2> QED BY <1>1, <1>2, <2>2, <2>3, <2>4, <2>5 DEF TypeOK, adminVars
<1>9. AccountsOf(p)'
  <2>1. /\ pacts'[p].participantCount = pacts[p].participantCount
        /\ pacts'[p].finisherCount = pacts[p].finisherCount
        /\ pacts'[p].claimsRemaining = pacts[p].claimsRemaining - 1
        /\ pacts'[p].cancelled = pacts[p].cancelled /\ pacts'[p].finalized = pacts[p].finalized
    BY <1>3, <1>7 DEF DuoPact
  <2>2. /\ joined'[p] = joined[p] /\ completed'[p] = completed[p] /\ claimed'[p] = claimed[p] \cup {w}
    BY <1>1, <1>2 DEF TypeOK
  <2>3. \A v \in Wallets : Eligible(p, v)' <=> Eligible(p, v)
    BY <2>1, <2>2 DEF Eligible, Refunded
  <2>4. unpaid(p)' = unpaid(p) \ {w}
    BY <2>2, <2>3 DEF unpaid, winners
  <2>5. Cardinality(unpaid(p) \ {w}) = Cardinality(unpaid(p)) - 1
    BY <1>4, WalletSetsFinite, FS_RemoveElement
  <2> QED BY <1>1, <1>2, <1>4, <2>1, <2>2, <2>4, <2>5 DEF Accounts, AccountsOf
<1>10. \A q \in PactIds : q # p => accountOf(q)' = accountOf(q)
  BY <1>1, <1>2 DEF accountOf, TypeOK
<1>11. Accounts'
  BY <1>1, <1>2, <1>9, <1>10, OneLockStep
<1>12. OneIdentityOnePlayer'
  BY <1>1, <1>2, IdentityFrame DEF identitiesOf
<1> QED BY <1>8, <1>11, <1>12 DEF AccountInv

-----------------------------------------------------------------------------
(* Everything else leaves the Locks alone.                                 *)

LEMMA SettingsKeepInv ==
  ASSUME AccountInv, LedgerOK,
         \/ \E k \in Signers : setEvidenceSigner(k)
         \/ \E paused \in BOOLEAN :
               setCreationPaused(paused) \/ setJoiningPaused(paused) \/ PauseCompletion(paused)
         \/ NextBlock
         \/ UNCHANGED vars
  PROVE  AccountInv' /\ LedgerOK'
<1>1. /\ UNCHANGED <<lockVars, completed, usedNullifiers, paidVars>>
      /\ creationPaused' \in BOOLEAN /\ joiningPaused' \in BOOLEAN /\ evidenceSigner' \in Signers
  BY DEF AccountInv, TypeOK, setEvidenceSigner, setCreationPaused, setJoiningPaused,
         PauseCompletion, NextBlock, vars, adminVars, lockVars, paidVars
<1>2. LedgerOK'
  <2>1. CASE \E paused \in BOOLEAN : PauseCompletion(paused)
    BY <2>1, LedgerSwitch DEF PauseCompletion
  <2>2. CASE NextBlock
    BY <2>2, LedgerTick DEF NextBlock
  <2>3. CASE UNCHANGED <<now, pauseVars>>
    BY <2>3, LedgerStutter
  <2> QED BY <2>1, <2>2, <2>3 DEF setEvidenceSigner, setCreationPaused, setJoiningPaused, vars
<1>3. TypeOK'
  BY <1>1, <1>2 DEF AccountInv, TypeOK, LedgerOK, lockVars, paidVars
<1>4. Accounts'
  <2>1. \A q \in PactIds : accountOf(q)' = accountOf(q)
    BY <1>1 DEF accountOf, lockVars, paidVars
  <2>2. nextPactId' = nextPactId
    BY <1>1 DEF lockVars
  <2> QED BY <2>1, <2>2, OtherLocksKeepAccounts DEF AccountInv, Accounts, Untouched, accountOf
<1>5. OneIdentityOnePlayer'
  BY <1>1, IdentityFrame DEF AccountInv, identitiesOf, lockVars
<1> QED BY <1>2, <1>3, <1>4, <1>5 DEF AccountInv

(* A player's or a settler's step leaves the pause ledger and the clock.   *)
LEMMA LockStepsKeepLedger ==
  ASSUME LedgerOK, PlayerNext \/ (\E p \in PactIds : finalizePact(p) \/ cancelPactByOwner(p))
  PROVE  LedgerOK'
<1>1. UNCHANGED <<now, pauseVars>>
  BY DEF PlayerNext, createPact, joinPact, submitFinal, cancelPact, claim, finalizePact,
         cancelPactByOwner
<1> QED BY <1>1, LedgerStutter

Inv == AccountInv /\ LedgerOK

LEMMA InvIsInductive ==
  ASSUME Inv, [Next]_vars
  PROVE  Inv'
<1>0. AccountInv /\ LedgerOK
  BY DEF Inv
<1>1. CASE PlayerNext
  <2>1. PICK w \in Wallets :
          \/ \E c \in Configurations : createPact(w, c, AnyBaseline(w, c))
          \/ \E p \in PactIds :
                \/ joinPact(p, w, AnyBaseline(w, terms(p)))
                \/ submitFinal(p, w, AnyFinal(p, w))
                \/ cancelPact(p, w)
                \/ claim(p, w)
    BY <1>1 DEF PlayerNext
  <2>2. ASSUME NEW c \in Configurations, createPact(w, c, AnyBaseline(w, c))
        PROVE  AccountInv'
    BY <1>0, <2>2, CreateKeepsInv
  <2>3. ASSUME NEW p \in PactIds, joinPact(p, w, AnyBaseline(w, terms(p)))
        PROVE  AccountInv'
    BY <1>0, <2>3, JoinKeepsInv
  <2>4. ASSUME NEW p \in PactIds, submitFinal(p, w, AnyFinal(p, w))
        PROVE  AccountInv'
    BY <1>0, <2>4, FinalKeepsInv
  <2>5. ASSUME NEW p \in PactIds, cancelPact(p, w)
        PROVE  AccountInv'
    BY <1>0, <2>5, CancelKeepsInv
  <2>6. ASSUME NEW p \in PactIds, claim(p, w)
        PROVE  AccountInv'
    BY <1>0, <2>6, ClaimKeepsInv
  <2>7. LedgerOK'
    BY <1>0, <1>1, LockStepsKeepLedger
  <2> QED BY <2>1, <2>2, <2>3, <2>4, <2>5, <2>6, <2>7 DEF Inv
<1>2. ASSUME NEW p \in PactIds, finalizePact(p)
      PROVE  Inv'
  BY <1>0, <1>2, FinalizeKeepsInv, LockStepsKeepLedger DEF Inv
<1>3. ASSUME NEW p \in PactIds, cancelPactByOwner(p)
      PROVE  Inv'
  BY <1>0, <1>3, CancelKeepsInv, LockStepsKeepLedger DEF Inv
<1>4. CASE \/ \E k \in Signers : setEvidenceSigner(k)
           \/ \E paused \in BOOLEAN :
                 setCreationPaused(paused) \/ setJoiningPaused(paused) \/ PauseCompletion(paused)
           \/ NextBlock
           \/ UNCHANGED vars
  BY <1>0, <1>4, SettingsKeepInv DEF Inv
<1> QED BY <1>1, <1>2, <1>3, <1>4 DEF Next, OwnerNext

LEMMA InvIsInvariant == Spec => []Inv
<1>1. Init => Inv
  BY InitAccountInv, LedgerInit DEF Inv, Init
<1>2. Inv /\ [Next]_vars => Inv'
  BY InvIsInductive
<1> QED BY <1>1, <1>2, PTL DEF Spec

(* Every variable of the contract keeps its type; in particular no pool,   *)
(* counter or payout of it ever becomes negative.                          *)
THEOREM EscrowTypeOK == Spec => []TypeOK
<1>1. Inv => TypeOK
  BY DEF Inv, AccountInv
<1> QED BY <1>1, InvIsInvariant, PTL

(* The counters that claim() divides by are the sizes of the sets they     *)
(* stand for, for any number of wallets and of Locks.                      *)
THEOREM CountersAlwaysMatch == Spec => []CountersMatch
<1>1. Inv => CountersMatch
  BY DEF Inv, AccountInv, Accounts, AccountsOf, CountersMatch
<1> QED BY <1>1, InvIsInvariant, PTL

(* A Duolingo account plays for one wallet of a Lock, and a wallet that    *)
(* has a stake in it plays with exactly one account (_bindIdentity).       *)
THEOREM IdentitiesStayUnique == Spec => []OneIdentityOnePlayer
<1>1. Inv => OneIdentityOnePlayer
  BY DEF Inv, AccountInv
<1> QED BY <1>1, InvIsInvariant, PTL

-----------------------------------------------------------------------------
(* A Lock settled as played was not paused, now or later: by the time it   *)
(* is settled its deadline has passed, and what starts after the deadline  *)
(* cannot overlap the window.                                              *)

Played(p) == pacts[p].finalized /\ ~pacts[p].cancelled

PlayedLate ==
    \A p \in PactIds : Played(p) =>
        /\ now >= submissionDeadline(p)
        /\ ~SomePauseOverlaps(startsAt(p), submissionDeadline(p))

LEMMA WindowsAreNumbers ==
  ASSUME TypeOK, NEW p \in PactIds
  PROVE  startsAt(p) \in Nat /\ submissionDeadline(p) \in Nat
<1>1. terms(p) \in Configurations \cup {ZeroTerms}
  BY DEF TypeOK, DuoPact, terms
<1>2. terms(p).startsAt \in Nat /\ terms(p).durationSeconds \in Nat
  BY <1>1, TermsAreNumbers
<1> QED BY <1>2, EscrowConstants DEF startsAt, endsAt, submissionDeadline

(* No step but finalizePact makes a Lock a played one, and none changes    *)
(* the terms of a played Lock.                                             *)
LEMMA PlayedStaysWithItsTerms ==
  ASSUME TypeOK, Accounts, NEW p \in PactIds,
         PlayerNext \/ (\E q \in PactIds : cancelPactByOwner(q) \/ (q # p /\ finalizePact(q))),
         Played(p)'
  PROVE  Played(p) /\ pacts'[p].terms = pacts[p].terms
<1>0. pacts \in [PactIds -> DuoPact] /\ pacts[p] \in DuoPact
  BY DEF TypeOK
<1>1. ASSUME NEW w \in Wallets, NEW c \in Configurations, createPact(w, c, AnyBaseline(w, c))
      PROVE  Played(p) /\ pacts'[p].terms = pacts[p].terms
  BY <1>0, <1>1 DEF createPact, Played, ZeroPact
<1>2. ASSUME NEW w \in Wallets, NEW q \in PactIds, joinPact(q, w, AnyBaseline(w, terms(q)))
      PROVE  Played(p) /\ pacts'[p].terms = pacts[p].terms
  BY <1>0, <1>2 DEF joinPact, joinOpen, Played, DuoPact
<1>3. ASSUME NEW w \in Wallets, NEW q \in PactIds, submitFinal(q, w, AnyFinal(q, w))
      PROVE  Played(p) /\ pacts'[p].terms = pacts[p].terms
  BY <1>0, <1>3 DEF submitFinal, Played, DuoPact
<1>4. ASSUME NEW w \in Wallets, NEW q \in PactIds, cancelPact(q, w) \/ cancelPactByOwner(q)
      PROVE  Played(p) /\ pacts'[p].terms = pacts[p].terms
  BY <1>0, <1>4 DEF cancelPact, cancelPactByOwner, Played, DuoPact
<1>5. ASSUME NEW w \in Wallets, NEW q \in PactIds, claim(q, w)
      PROVE  Played(p) /\ pacts'[p].terms = pacts[p].terms
  BY <1>0, <1>5 DEF claim, Played, DuoPact
<1>6. ASSUME NEW q \in PactIds, cancelPactByOwner(q)
      PROVE  Played(p) /\ pacts'[p].terms = pacts[p].terms
  BY <1>0, <1>6 DEF cancelPactByOwner, Played, DuoPact
<1>7. ASSUME NEW q \in PactIds, q # p, finalizePact(q)
      PROVE  Played(p) /\ pacts'[p].terms = pacts[p].terms
  BY <1>0, <1>7 DEF finalizePact, Played
<1> QED BY <1>1, <1>2, <1>3, <1>4, <1>5, <1>6, <1>7 DEF PlayerNext

(* With the ledger and the clock as they were, a played Lock stays as good.*)
LEMMA PlayedFrame ==
  ASSUME PlayedLate, NEW p \in PactIds, Played(p), pacts'[p].terms = pacts[p].terms,
         UNCHANGED <<now, pauseVars>>
  PROVE  /\ now' >= submissionDeadline(p)'
         /\ ~SomePauseOverlaps(startsAt(p), submissionDeadline(p))'
<1>1. /\ startsAt(p)' = startsAt(p) /\ submissionDeadline(p)' = submissionDeadline(p)
  BY DEF startsAt, submissionDeadline, endsAt, terms
<1>2. SomePauseOverlaps(startsAt(p), submissionDeadline(p))'
        <=> SomePauseOverlaps(startsAt(p), submissionDeadline(p))
  BY <1>1 DEF SomePauseOverlaps, pauseVars, completionPauseGeneration, closedCount
<1> QED BY <1>1, <1>2 DEF PlayedLate

(* A Lock settled as played at this moment: its deadline is behind it, and *)
(* the search finalizePact makes has missed no pause.                      *)
LEMMA FinalizePlaysLate ==
  ASSUME Inv, NEW p \in PactIds, finalizePact(p), Played(p)'
  PROVE  /\ now' >= submissionDeadline(p)'
         /\ ~SomePauseOverlaps(startsAt(p), submissionDeadline(p))'
<1>1. TypeOK /\ PausesTypeOK /\ PausesInOrder
  BY DEF Inv, AccountInv, LedgerOK
<1>2. PICK c \in BOOLEAN :
        /\ c = (pacts[p].cancelled \/ refundDue(p))
        /\ pacts' = [pacts EXCEPT
              ![p].cancelled = c, ![p].finalized = TRUE,
              ![p].claimsRemaining = eligibleClaimants(p, c),
              ![p].remainingPool = terms(p).stake * pacts[p].participantCount]
  BY DEF finalizePact
<1>3. /\ pacts'[p].cancelled = c /\ pacts'[p].terms = pacts[p].terms
      /\ UNCHANGED <<now, pauseVars>> /\ finalizable(p)
  BY <1>1, <1>2 DEF finalizePact, TypeOK, DuoPact
<1>4. ~pacts[p].cancelled /\ ~refundDue(p)
  BY <1>2, <1>3 DEF Played
<1>5. now >= submissionDeadline(p)
  BY <1>3, <1>4 DEF finalizable, refundDue
<1>6. ~SomePauseOverlaps(startsAt(p), submissionDeadline(p))
  <2>1. ~completionPauseAffected(startsAt(p), submissionDeadline(p))
    BY <1>4 DEF refundDue
  <2>2. PICK s \in Nat, d \in Nat : s = startsAt(p) /\ d = submissionDeadline(p)
    BY <1>1, WindowsAreNumbers
  <2>3. completionPauseAffected(s, d) <=> SomePauseOverlaps(s, d)
    BY <1>1, SearchDecidesOverlap
  <2> QED BY <2>1, <2>2, <2>3
<1>7. startsAt(p)' = startsAt(p) /\ submissionDeadline(p)' = submissionDeadline(p)
  BY <1>3 DEF startsAt, submissionDeadline, endsAt, terms
<1>8. SomePauseOverlaps(startsAt(p), submissionDeadline(p))'
        <=> SomePauseOverlaps(startsAt(p), submissionDeadline(p))
  BY <1>3, <1>7 DEF SomePauseOverlaps, pauseVars, completionPauseGeneration, closedCount
<1> QED BY <1>3, <1>5, <1>6, <1>7, <1>8

LEMMA PlayedLateIsInductive ==
  ASSUME Inv, PlayedLate, [Next]_vars
  PROVE  PlayedLate'
<1>0. TypeOK /\ Accounts /\ LedgerOK
  BY DEF Inv, AccountInv
<1> SUFFICES ASSUME NEW p \in PactIds, Played(p)'
             PROVE  /\ now' >= submissionDeadline(p)'
                    /\ ~SomePauseOverlaps(startsAt(p), submissionDeadline(p))'
  BY DEF PlayedLate
<1>1. CASE PlayerNext \/ \E q \in PactIds : cancelPactByOwner(q) \/ (q # p /\ finalizePact(q))
  <2>1. Played(p) /\ pacts'[p].terms = pacts[p].terms
    BY <1>0, <1>1, PlayedStaysWithItsTerms
  <2>2. UNCHANGED <<now, pauseVars>>
    BY <1>1 DEF PlayerNext, createPact, joinPact, submitFinal, cancelPact, claim, finalizePact,
                cancelPactByOwner
  <2> QED BY <2>1, <2>2, PlayedFrame
<1>2. CASE finalizePact(p)
  BY <1>2, FinalizePlaysLate
<1>3. CASE \/ UNCHANGED vars
           \/ \E k \in Signers : setEvidenceSigner(k)
           \/ \E paused \in BOOLEAN : setCreationPaused(paused) \/ setJoiningPaused(paused)
  <2>1. pacts' = pacts /\ UNCHANGED <<now, pauseVars>>
    BY <1>3 DEF vars, lockVars, setEvidenceSigner, setCreationPaused, setJoiningPaused
  <2> QED BY <2>1, PlayedFrame DEF Played
<1>4. CASE NextBlock \/ \E paused \in BOOLEAN : PauseCompletion(paused)
  <2>1. pacts' = pacts
    BY <1>4 DEF NextBlock, PauseCompletion, lockVars
  <2>2. PICK s \in Nat, d \in Nat : s = startsAt(p) /\ d = submissionDeadline(p)
    BY <1>0, WindowsAreNumbers
  <2>3. s = startsAt(p)' /\ d = submissionDeadline(p)'
    BY <2>1, <2>2 DEF startsAt, submissionDeadline, endsAt, terms
  <2>4. now >= d /\ ~SomePauseOverlaps(s, d)
    BY <2>1, <2>2 DEF PlayedLate, Played
  <2>5. now \in Nat
    BY <1>0, PauseBounds DEF LedgerOK, PausesTypeOK
  <2>6. now' >= d /\ ~SomePauseOverlaps(s, d)'
    <3>1. CASE NextBlock
      <4>1. UNCHANGED pauseVars /\ now' = now + 1
        BY <3>1 DEF NextBlock, Tick
      <4>2. SomePauseOverlaps(s, d)' <=> SomePauseOverlaps(s, d)
        BY <4>1 DEF SomePauseOverlaps, pauseVars, completionPauseGeneration, closedCount
      <4> QED BY <2>4, <2>5, <4>1, <4>2
    <3>2. ASSUME NEW paused \in BOOLEAN, PauseCompletion(paused)
          PROVE  now' >= d /\ ~SomePauseOverlaps(s, d)'
      <4>1. setCompletionPaused(paused) /\ now' = now
        BY <3>2 DEF PauseCompletion, setCompletionPaused
      <4> QED BY <1>0, <2>4, <4>1, SwitchAfterDeadline
    <3> QED BY <1>4, <3>1, <3>2
  <2> QED BY <2>3, <2>6
<1> QED BY <1>1, <1>2, <1>3, <1>4 DEF Next, OwnerNext

(* A Lock that paid its finishers, and not everybody their stake back, had *)
(* a submission window no completion pause touched; a pause that comes     *)
(* later can never contradict a settlement already made.                   *)
THEOREM PlayedLocksWereUnpaused == Spec => []PlayedMeansUnpaused
<1>1. Init => PlayedLate
  BY DEF Init, PlayedLate, Played, ZeroPact
<1>2. Inv /\ PlayedLate /\ [Next]_vars => PlayedLate'
  BY PlayedLateIsInductive
<1>3. PlayedLate => PlayedMeansUnpaused
  BY DEF PlayedLate, Played, PlayedMeansUnpaused
<1> QED BY <1>1, <1>2, <1>3, InvIsInvariant, PTL DEF Spec

-----------------------------------------------------------------------------
(* From its deadline on the outcome of a Lock is decided.                  *)

(* What the verdict on a Lock is made of, but for its cancellation.        *)
judged(p) == <<terms(p), pacts[p].participantCount, joined[p], completed[p]>>

RealTerms == \A p \in PactIds : Exists(p) => terms(p) \in Configurations

LEMMA TermsStayReal ==
  ASSUME Inv, RealTerms, [Next]_vars PROVE RealTerms'
<1>0. pacts \in [PactIds -> DuoPact]
  BY DEF Inv, AccountInv, TypeOK
<1> SUFFICES ASSUME NEW p \in PactIds, pacts'[p].creator # NoAddress
             PROVE  pacts'[p].terms \in Configurations
  BY DEF RealTerms, Exists, terms
<1>1. pacts[p] \in DuoPact /\ (pacts[p].creator # NoAddress => pacts[p].terms \in Configurations)
  BY <1>0 DEF RealTerms, Exists, terms
<1>2. ASSUME NEW w \in Wallets, NEW k \in Configurations, createPact(w, k, AnyBaseline(w, k))
      PROVE  pacts'[p].terms \in Configurations
  BY <1>0, <1>1, <1>2 DEF createPact, ZeroPact
<1>3. ASSUME NEW w \in Wallets, NEW q \in PactIds, joinPact(q, w, AnyBaseline(w, terms(q)))
      PROVE  pacts'[p].terms \in Configurations
  BY <1>0, <1>1, <1>3 DEF joinPact, DuoPact
<1>4. ASSUME NEW w \in Wallets, NEW q \in PactIds, submitFinal(q, w, AnyFinal(q, w))
      PROVE  pacts'[p].terms \in Configurations
  BY <1>0, <1>1, <1>4 DEF submitFinal, DuoPact
<1>5. ASSUME NEW w \in Wallets, NEW q \in PactIds, cancelPact(q, w)
      PROVE  pacts'[p].terms \in Configurations
  BY <1>0, <1>1, <1>5 DEF cancelPact, DuoPact
<1>6. ASSUME NEW w \in Wallets, NEW q \in PactIds, claim(q, w)
      PROVE  pacts'[p].terms \in Configurations
  BY <1>0, <1>1, <1>6 DEF claim, DuoPact
<1>7. ASSUME NEW q \in PactIds, cancelPactByOwner(q)
      PROVE  pacts'[p].terms \in Configurations
  BY <1>0, <1>1, <1>7 DEF cancelPactByOwner, DuoPact
<1>8. ASSUME NEW q \in PactIds, finalizePact(q)
      PROVE  pacts'[p].terms \in Configurations
  <2>1. PICK b, m, n : pacts' = [pacts EXCEPT ![q].cancelled = b, ![q].finalized = TRUE,
                                     ![q].claimsRemaining = m, ![q].remainingPool = n]
    BY <1>8 DEF finalizePact
  <2> QED BY <1>0, <1>1, <2>1 DEF DuoPact
<1>9. CASE pacts' = pacts
  BY <1>1, <1>9
<1> QED BY <1>2, <1>3, <1>4, <1>5, <1>6, <1>7, <1>8, <1>9
        DEF Next, PlayerNext, OwnerNext, NextBlock, setEvidenceSigner, setCreationPaused,
            setJoiningPaused, PauseCompletion, vars, lockVars

LEMMA TermsAreReal == Spec => []RealTerms
<1>1. Init => RealTerms
  BY DEF Init, RealTerms, Exists, ZeroPact
<1>2. Inv /\ RealTerms /\ [Next]_vars => RealTerms'
  BY TermsStayReal
<1> QED BY <1>1, <1>2, InvIsInvariant, PTL DEF Spec

LEMMA WindowsAreProper ==
  ASSUME Inv, RealTerms, NEW p \in PactIds, Exists(p)
  PROVE  /\ startsAt(p) \in Nat /\ submissionDeadline(p) \in Nat
         /\ startsAt(p) < submissionDeadline(p) /\ p < nextPactId
<1>1. TypeOK /\ Accounts /\ p < nextPactId /\ p \in Nat /\ nextPactId \in Nat
  BY ExistingIdsAreBelow, EscrowConstants DEF Inv, AccountInv, TypeOK
<1>2. startsAt(p) \in Nat /\ submissionDeadline(p) \in Nat
  BY <1>1, WindowsAreNumbers
<1>3. terms(p) \in Configurations
  BY DEF RealTerms
<1>4. terms(p).durationSeconds \in Nat /\ terms(p).durationSeconds >= 1
  BY <1>3, EscrowConstants DEF Configurations
<1> QED BY <1>1, <1>2, <1>4, EscrowConstants DEF submissionDeadline, endsAt

(* A step that leaves clock, ledger and what is judged of a Lock alone     *)
(* leaves open whether it is refunded for its players or for a pause.      *)
LEMMA RefundFrame ==
  ASSUME Inv, Inv', RealTerms, NEW p \in PactIds, Exists(p), judged(p)' = judged(p),
         UNCHANGED <<now, pauseVars>>
  PROVE  refundDue(p)' <=> refundDue(p)
<1>1. PICK s \in Nat, d \in Nat : s = startsAt(p) /\ d = submissionDeadline(p)
  BY WindowsAreProper
<1>2. s = startsAt(p)' /\ d = submissionDeadline(p)' /\ underfilled(p)' = underfilled(p)
  BY <1>1 DEF judged, startsAt, submissionDeadline, endsAt, underfilled, terms
<1>3. completionPauseAffected(s, d)' <=> completionPauseAffected(s, d)
  BY AffectedFrame DEF Inv
<1> QED BY <1>1, <1>2, <1>3 DEF refundDue

LEMMA VerdictFrame ==
  ASSUME NEW p \in PactIds, judged(p)' = judged(p), refundDue(p)' <=> refundDue(p),
         pacts'[p].cancelled = pacts[p].cancelled
  PROVE  verdict(p)' = verdict(p)
<1>1. joined'[p] = joined[p] /\ completed'[p] = completed[p]
  BY DEF judged
<1>2. (pacts[p].cancelled \/ refundDue(p))' = (pacts[p].cancelled \/ refundDue(p))
  OBVIOUS
<1> QED BY <1>1, <1>2 DEF verdict

LEMMA OutcomeStaysDecided ==
  ASSUME Inv, RealTerms, [Next]_vars, NEW p \in PactIds,
         Exists(p), now >= submissionDeadline(p), ~ownerCancels(p)
  PROVE  verdict(p)' = verdict(p)
<1>0. /\ Inv' /\ pacts \in [PactIds -> DuoPact] /\ pacts[p] \in DuoPact
      /\ joined \in [PactIds -> SUBSET Wallets] /\ completed \in [PactIds -> SUBSET Wallets]
      /\ p \in Nat /\ nextPactId \in Nat /\ now \in Nat
  <2>1. Inv'
    BY InvIsInductive
  <2>2. TypeOK /\ PausesTypeOK
    BY DEF Inv, AccountInv, TypeOK
  <2>3. now \in Nat
    BY <2>2, PauseBounds DEF PausesTypeOK
  <2>4. p \in Nat
    BY EscrowConstants
  <2>5. /\ pacts \in [PactIds -> DuoPact] /\ nextPactId \in Nat
        /\ joined \in [PactIds -> SUBSET Wallets] /\ completed \in [PactIds -> SUBSET Wallets]
    BY <2>2 DEF TypeOK
  <2>6. pacts[p] \in DuoPact
    BY <2>5
  <2> QED BY <2>1, <2>3, <2>4, <2>5, <2>6
<1>1. PICK s \in Nat, d \in Nat : /\ s = startsAt(p) /\ d = submissionDeadline(p)
                                  /\ s < d /\ now >= d /\ p < nextPactId
  BY WindowsAreProper
(* A step that leaves clock, ledger and what is judged as they are.        *)
<1>2. ASSUME UNCHANGED <<now, pauseVars>>, judged(p)' = judged(p),
             pacts'[p].cancelled = pacts[p].cancelled
      PROVE  verdict(p)' = verdict(p)
  BY <1>0, <1>2, RefundFrame, VerdictFrame
<1>3. ASSUME NEW w \in Wallets, NEW c \in Configurations, createPact(w, c, AnyBaseline(w, c))
      PROVE  verdict(p)' = verdict(p)
  <2>1. UNCHANGED <<now, pauseVars, completed>>
    BY <1>3 DEF createPact
  <2>2. pacts'[p] = pacts[p] /\ joined'[p] = joined[p]
    BY <1>0, <1>1, <1>3 DEF createPact
  <2> QED BY <1>2, <2>1, <2>2 DEF judged, terms
<1>4. ASSUME NEW w \in Wallets, NEW q \in PactIds, joinPact(q, w, AnyBaseline(w, terms(q)))
      PROVE  verdict(p)' = verdict(p)
  <2>1. UNCHANGED <<now, pauseVars, completed>>
    BY <1>4 DEF joinPact
  <2>2. q # p
    BY <1>1, <1>4, <1>0 DEF joinPact, joinOpen
  <2>3. pacts'[p] = pacts[p] /\ joined'[p] = joined[p]
    BY <1>0, <1>4, <2>2 DEF joinPact
  <2> QED BY <1>2, <2>1, <2>3 DEF judged, terms
<1>5. ASSUME NEW w \in Wallets, NEW q \in PactIds, submitFinal(q, w, AnyFinal(q, w))
      PROVE  verdict(p)' = verdict(p)
  <2>1. UNCHANGED <<now, pauseVars, joined>>
    BY <1>5 DEF submitFinal
  <2>2. q # p
    BY <1>0, <1>1, <1>5 DEF submitFinal, submissionOpen
  <2>3. pacts'[p] = pacts[p] /\ completed'[p] = completed[p]
    BY <1>0, <1>5, <2>2 DEF submitFinal
  <2> QED BY <1>2, <2>1, <2>3 DEF judged, terms
<1>6. ASSUME NEW w \in Wallets, NEW q \in PactIds, cancelPact(q, w)
      PROVE  verdict(p)' = verdict(p)
  <2>1. UNCHANGED <<now, pauseVars, joined, completed>>
    BY <1>6 DEF cancelPact
  <2>2. q # p
    BY <1>0, <1>1, <1>6 DEF cancelPact
  <2>3. pacts'[p] = pacts[p]
    BY <1>0, <1>6, <2>2 DEF cancelPact
  <2> QED BY <1>2, <2>1, <2>3 DEF judged, terms
<1>7. ASSUME NEW q \in PactIds, cancelPactByOwner(q) PROVE verdict(p)' = verdict(p)
  <2>1. UNCHANGED <<now, pauseVars, joined, completed>>
    BY <1>7 DEF cancelPactByOwner
  <2>2. q # p
    BY <1>0, <1>7 DEF cancelPactByOwner, ownerCancels, DuoPact
  <2>3. pacts'[p] = pacts[p]
    BY <1>0, <1>7, <2>2 DEF cancelPactByOwner
  <2> QED BY <1>2, <2>1, <2>3 DEF judged, terms
<1>8. ASSUME NEW w \in Wallets, NEW q \in PactIds, claim(q, w)
      PROVE  verdict(p)' = verdict(p)
  <2>1. UNCHANGED <<now, pauseVars, joined, completed>>
    BY <1>8 DEF claim
  <2>2. /\ pacts'[p].cancelled = pacts[p].cancelled /\ pacts'[p].terms = pacts[p].terms
        /\ pacts'[p].participantCount = pacts[p].participantCount
    BY <1>0, <1>8 DEF claim, DuoPact
  <2> QED BY <1>2, <2>1, <2>2 DEF judged, terms
<1>9. ASSUME NEW q \in PactIds, finalizePact(q) PROVE verdict(p)' = verdict(p)
  <2>1. UNCHANGED <<now, pauseVars, joined, completed>>
    BY <1>9 DEF finalizePact, lockVars
  <2>2. PICK b, m, n : /\ b <=> (pacts[q].cancelled \/ refundDue(q))
                       /\ pacts' = [pacts EXCEPT ![q].cancelled = b, ![q].finalized = TRUE,
                                        ![q].claimsRemaining = m, ![q].remainingPool = n]
    BY <1>9 DEF finalizePact
  <2>3. CASE q # p
    <3>1. pacts'[p] = pacts[p]
      BY <1>0, <2>2, <2>3
    <3> QED BY <1>2, <2>1, <3>1 DEF judged, terms
  <2>4. CASE q = p
    <3>1. /\ pacts'[p].cancelled = b /\ pacts'[p].terms = pacts[p].terms
          /\ pacts'[p].participantCount = pacts[p].participantCount
      BY <1>0, <2>2, <2>4 DEF DuoPact
    <3>2. judged(p)' = judged(p)
      BY <2>1, <3>1 DEF judged, terms
    <3>3. refundDue(p)' <=> refundDue(p)
      BY <1>0, <2>1, <3>2, RefundFrame
    <3>4. (pacts[p].cancelled \/ refundDue(p))' = (pacts[p].cancelled \/ refundDue(p))
      BY <2>2, <2>4, <3>1, <3>3
    <3> QED BY <2>1, <3>4 DEF verdict
  <2> QED BY <2>3, <2>4
<1>10. CASE \/ UNCHANGED vars
            \/ \E k \in Signers : setEvidenceSigner(k)
            \/ \E paused \in BOOLEAN : setCreationPaused(paused) \/ setJoiningPaused(paused)
  <2>1. UNCHANGED <<now, pauseVars, pacts, joined, completed>>
    BY <1>10 DEF vars, lockVars, setEvidenceSigner, setCreationPaused, setJoiningPaused
  <2> QED BY <1>2, <2>1 DEF judged, terms
<1>11. CASE NextBlock \/ \E paused \in BOOLEAN : PauseCompletion(paused)
  <2>1. UNCHANGED <<pacts, joined, completed>>
    BY <1>11 DEF NextBlock, PauseCompletion, lockVars
  <2>2. judged(p)' = judged(p) /\ pacts'[p].cancelled = pacts[p].cancelled
    BY <2>1 DEF judged, terms
  <2>3. /\ s = startsAt(p)' /\ d = submissionDeadline(p)' /\ underfilled(p)' = underfilled(p)
    BY <1>1, <2>1 DEF startsAt, submissionDeadline, endsAt, underfilled, terms
  <2>4. now >= s /\ now' >= s
    BY <1>0, <1>1, <1>11 DEF NextBlock, Tick, PauseCompletion, setCompletionPaused
  <2>5. completionPauseAffected(s, d)' <=> completionPauseAffected(s, d)
    <3>1. CASE NextBlock
      BY <1>0, <3>1, AffectedFrame DEF Inv, NextBlock
    <3>2. CASE \E paused \in BOOLEAN : PauseCompletion(paused)
      BY <1>1, <3>2, SwitchCannotReopenWindow DEF Inv, PauseCompletion
    <3> QED BY <1>11, <3>1, <3>2
  <2>6. refundDue(p)' <=> refundDue(p)
    BY <1>1, <2>3, <2>4, <2>5 DEF refundDue
  <2> QED BY <2>2, <2>6, VerdictFrame
<1> QED BY <1>3, <1>4, <1>5, <1>6, <1>7, <1>8, <1>9, <1>10, <1>11 DEF Next, PlayerNext, OwnerNext

(* No final, join, claim, pause or block that comes after the deadline of  *)
(* a Lock changes who gets what of it, however late somebody settles it;   *)
(* only the owner's cancellation does.                                     *)
THEOREM OutcomeIsDecidedAtDeadline == Spec => OutcomeFrozenAtDeadline
<1>1. Inv /\ RealTerms /\ [Next]_vars =>
        [\A p \in PactIds :
            Exists(p) /\ now >= submissionDeadline(p) /\ ~ownerCancels(p)
                => verdict(p)' = verdict(p)]_vars
  BY OutcomeStaysDecided
<1> QED BY <1>1, InvIsInvariant, TermsAreReal, PTL DEF Spec, OutcomeFrozenAtDeadline

-----------------------------------------------------------------------------
(* Money. The inductive invariant of the claims: of a pool of q * n + e    *)
(* units for n winners, with e < n, what is left for the k that have not   *)
(* claimed yet is between q and q + 1 units each, and exactly q if e is 0. *)

quota(p) == pool(p) \div Cardinality(winners(p))
exact(p) == pool(p) = Cardinality(winners(p)) * quota(p)

PoolSplit(p) ==
    /\ winners(p) # {} /\ claimed[p] \subseteq winners(p)
    /\ pacts[p].remainingPool + PaidOut(p) = pool(p)
    /\ pacts[p].claimsRemaining * quota(p) <= pacts[p].remainingPool
    /\ pacts[p].remainingPool <=
          pacts[p].claimsRemaining * quota(p) + pacts[p].claimsRemaining
    /\ exact(p) => pacts[p].remainingPool = pacts[p].claimsRemaining * quota(p)
    /\ \A w \in claimed[p] :
          /\ payout[p][w] \in {quota(p), quota(p) + 1}
          /\ exact(p) => payout[p][w] = quota(p)

MoneyOf(p) ==
    /\ Exists(p) => joined[p] # {}
    /\ \A w \in Wallets \ claimed[p] : payout[p][w] = 0
    /\ pacts[p].finalized => PoolSplit(p)

Money == \A p \in PactIds : MoneyOf(p)

moneyOf(p) == <<pacts[p], joined[p], completed[p], claimed[p], payout[p]>>

LEMMA PaidOutIsSum ==
  ASSUME NEW p \in PactIds PROVE PaidOut(p) = SumOf(payout[p], Wallets)
BY DEF PaidOut, SumOf

LEMMA PaidOutIsSumNext ==
  ASSUME NEW p \in PactIds PROVE PaidOut(p)' = SumOf(payout'[p], Wallets)
BY DEF PaidOut, SumOf, MapThenSumSet, MapThenFoldSet

(* Dividing a pool.                                                        *)
LEMMA QuotientBounds ==
  ASSUME NEW m \in Nat, NEW n \in Nat, n >= 1
  PROVE  m \div n \in Nat /\ n * (m \div n) <= m /\ m <= n * (m \div n) + n
OBVIOUS

(* A Lock that a step does not touch keeps its money in order.             *)
LEMMA OtherLocksKeepMoney ==
  ASSUME NEW p \in PactIds, MoneyOf(p), moneyOf(p)' = moneyOf(p)
  PROVE  MoneyOf(p)'
<1>1. /\ pacts'[p] = pacts[p] /\ joined'[p] = joined[p] /\ completed'[p] = completed[p]
      /\ claimed'[p] = claimed[p] /\ payout'[p] = payout[p]
  BY DEF moneyOf
<1>2. winners(p)' = winners(p) /\ pool(p)' = pool(p) /\ Exists(p)' = Exists(p)
  BY <1>1 DEF winners, Eligible, Refunded, pool, terms, Exists
<1>3. PaidOut(p)' = PaidOut(p)
  BY <1>1, PaidOutIsSum, PaidOutIsSumNext
<1>4. PoolSplit(p)' <=> PoolSplit(p)
  BY <1>1, <1>2, <1>3 DEF PoolSplit, quota, exact
<1> QED BY <1>1, <1>2, <1>4 DEF MoneyOf

(* As long as a Lock is open nothing has been paid.                        *)
LEMMA OpenLockKeepsMoney ==
  ASSUME NEW p \in PactIds, MoneyOf(p), ~pacts'[p].finalized,
         claimed'[p] = claimed[p], payout'[p] = payout[p], joined'[p] # {}
  PROVE  MoneyOf(p)'
BY DEF MoneyOf

LEMMA SomeWallets ==
  ASSUME NEW S \in SUBSET Wallets, S # {}
  PROVE  Cardinality(S) \in Nat /\ Cardinality(S) >= 1
<1>1. IsFiniteSet(S) /\ Cardinality(S) \in Nat
  BY WalletSetsFinite
<1>2. Cardinality(S) # 0
  BY <1>1, FS_EmptySet
<1> QED BY <1>1, <1>2

LEMMA PoolIsNat ==
  ASSUME TypeOK, NEW p \in PactIds
  PROVE  pool(p) \in Nat /\ terms(p).stake \in Nat /\ pacts[p].participantCount \in Nat
<1>1. pacts[p] \in DuoPact
  BY DEF TypeOK
<1>2. pacts[p].participantCount \in Nat /\ terms(p) \in Configurations \cup {ZeroTerms}
  BY <1>1 DEF DuoPact, terms
<1>3. terms(p).stake \in Nat
  BY <1>2, TermsAreNumbers
<1> QED BY <1>2, <1>3, ProductIsNat DEF pool

(* Settlement: the whole pool is there, for winners of whom none is paid.  *)
LEMMA FinalizeKeepsMoney ==
  ASSUME Inv, Inv', NEW p \in PactIds, MoneyOf(p), finalizePact(p)
  PROVE  MoneyOf(p)'
<1>1. TypeOK /\ Accounts /\ TypeOK' /\ AccountsOf(p) /\ AccountsOf(p)'
  BY DEF Inv, AccountInv, Accounts
<1>2. PICK c \in BOOLEAN, m \in Nat :
        /\ c = (pacts[p].cancelled \/ refundDue(p)) /\ m = pool(p)
        /\ pacts' = [pacts EXCEPT
              ![p].cancelled = c, ![p].finalized = TRUE,
              ![p].claimsRemaining = eligibleClaimants(p, c), ![p].remainingPool = m]
  BY <1>1, PoolIsNat DEF finalizePact, pool
<1>3. /\ pacts'[p].finalized = TRUE /\ pacts'[p].remainingPool = m /\ pacts'[p].terms = pacts[p].terms
      /\ pacts'[p].participantCount = pacts[p].participantCount
      /\ pacts'[p].finisherCount = pacts[p].finisherCount
      /\ pacts'[p].creator = pacts[p].creator
  BY <1>1, <1>2 DEF TypeOK, DuoPact
<1>4. /\ joined' = joined /\ completed' = completed /\ claimed' = claimed /\ payout' = payout
      /\ ~pacts[p].finalized /\ Exists(p)
  BY DEF finalizePact, paidVars
<1>5. claimed'[p] = {} /\ joined'[p] # {} /\ \A w \in Wallets : payout'[p][w] = 0
  BY <1>1, <1>4 DEF AccountsOf, MoneyOf
<1>6. winners(p)' # {}
  <2>1. completed[p] \subseteq joined[p] /\ joined[p] \subseteq Wallets
    BY <1>1 DEF AccountsOf, TypeOK
  <2>2. CASE Refunded(p)'
    BY <1>4, <1>5, <2>1, <2>2 DEF winners, Eligible
  <2>3. CASE ~Refunded(p)'
    <3>1. pacts[p].finisherCount # 0
      BY <1>3, <2>3 DEF Refunded
    <3>2. completed[p] # {}
      BY <1>1, <3>1, FS_EmptySet DEF AccountsOf
    <3> QED BY <1>4, <2>1, <2>3, <3>2 DEF winners, Eligible
  <2> QED BY <2>2, <2>3
<1>7. pool(p)' = m /\ m \in Nat
  BY <1>1, <1>2, <1>3, PoolIsNat DEF pool, terms
<1>8. PaidOut(p)' = 0
  <2>1. SumOf(payout'[p], Wallets) = 0
    BY <1>5, EscrowConstants, SumOfZeros
  <2> QED BY <2>1, PaidOutIsSumNext
<1>9. PICK n \in Nat : n = Cardinality(winners(p))' /\ n >= 1 /\ pacts'[p].claimsRemaining = n
  <2>1. winners(p)' \in SUBSET Wallets
    BY DEF winners
  <2>2. PICK W \in SUBSET Wallets : W = winners(p)'
    BY <2>1
  <2>3. Cardinality(W) >= 1 /\ Cardinality(W) \in Nat
    BY <1>6, <2>2, SomeWallets
  <2>4. unpaid(p)' = winners(p)'
    BY <1>5 DEF unpaid
  <2>5. pacts'[p].claimsRemaining = Cardinality(unpaid(p))'
    BY <1>1, <1>3 DEF AccountsOf
  <2> QED BY <2>2, <2>3, <2>4, <2>5
<1>10. quota(p)' = m \div n
  BY <1>7, <1>9 DEF quota
<1>11. /\ m \div n \in Nat /\ n * (m \div n) <= m /\ m <= n * (m \div n) + n
  BY <1>7, <1>9, QuotientBounds
<1>12. exact(p)' <=> m = n * (m \div n)
  BY <1>7, <1>9, <1>10 DEF exact
<1>13. PoolSplit(p)'
  BY <1>3, <1>5, <1>6, <1>7, <1>8, <1>9, <1>10, <1>11, <1>12 DEF PoolSplit
<1> QED BY <1>5, <1>13 DEF MoneyOf

(* A claim: its share is in the promised range and leaves every other      *)
(* winner's share in it.                                                   *)
LEMMA ClaimKeepsMoney ==
  ASSUME Inv, NEW p \in PactIds, NEW w \in Wallets, MoneyOf(p), claim(p, w)
  PROVE  MoneyOf(p)'
<1>1. TypeOK /\ Accounts /\ AccountsOf(p)
  BY DEF Inv, AccountInv, Accounts
<1>2. /\ pacts' = [pacts EXCEPT ![p].remainingPool = @ - share(p), ![p].claimsRemaining = @ - 1]
      /\ claimed' = [claimed EXCEPT ![p] = @ \cup {w}]
      /\ payout' = [payout EXCEPT ![p][w] = @ + share(p)]
      /\ pacts[p].finalized /\ w \notin claimed[p] /\ Eligible(p, w) /\ Exists(p)
      /\ joined' = joined /\ completed' = completed
  BY DEF claim
<1>3. /\ pacts[p] \in DuoPact /\ PoolSplit(p) /\ joined[p] # {} /\ payout[p][w] = 0
      /\ payout[p] \in [Wallets -> Nat] /\ claimed[p] \in SUBSET Wallets
  BY <1>1, <1>2 DEF MoneyOf, TypeOK
<1>4. w \in unpaid(p) /\ pacts[p].claimsRemaining = Cardinality(unpaid(p)) /\ w \in winners(p)
  BY <1>1, <1>2 DEF AccountsOf, unpaid, winners
<1>5. PICK r \in Nat, k \in Nat : /\ r = pacts[p].remainingPool /\ k = pacts[p].claimsRemaining
                                  /\ k >= 1
  <2>1. unpaid(p) \in SUBSET Wallets
    BY DEF unpaid, winners
  <2> QED BY <1>3, <1>4, <2>1, SomeWallets DEF DuoPact
<1>6. PICK n \in Nat, m \in Nat : n = Cardinality(winners(p)) /\ n >= 1 /\ m = pool(p)
  <2>1. winners(p) \in SUBSET Wallets
    BY DEF winners
  <2> QED BY <1>1, <1>4, <2>1, SomeWallets, PoolIsNat
<1>7. PICK q \in Nat : q = m \div n /\ q = quota(p)
  BY <1>6, QuotientBounds DEF quota
<1>8. /\ k * q <= r /\ r <= k * q + k /\ (exact(p) => r = k * q)
  BY <1>3, <1>5, <1>7 DEF PoolSplit
<1>9. PICK s \in Nat : s = share(p) /\ s = r \div k
  BY <1>5, DivBounds DEF share
(* With k claims to come and between q and q + 1 units for each, the next  *)
(* one gets q or q + 1 and leaves between q and q + 1 for each other one.  *)
<1>10. /\ s \in {q, q + 1} /\ (k - 1) * q <= r - s /\ r - s <= (k - 1) * q + (k - 1)
       /\ exact(p) => s = q /\ r - s = (k - 1) * q
  <2>1. /\ s \in {q, q + 1} /\ (k - 1) * q <= r - s /\ r - s <= (k - 1) * q + (k - 1)
        /\ r = k * q => s = q /\ r - s = (k - 1) * q
    <3>1. k * q <= r /\ r <= k * q + k /\ k >= 1 /\ s = r \div k
      BY <1>5, <1>8, <1>9
    <3> QED BY <3>1
  <2> QED BY <1>8, <2>1, Zenon
<1>11. /\ pacts'[p].remainingPool = r - s /\ pacts'[p].claimsRemaining = k - 1
       /\ pacts'[p].finalized = pacts[p].finalized /\ pacts'[p].cancelled = pacts[p].cancelled
       /\ pacts'[p].finisherCount = pacts[p].finisherCount /\ pacts'[p].terms = pacts[p].terms
       /\ pacts'[p].participantCount = pacts[p].participantCount
       /\ claimed'[p] = claimed[p] \cup {w}
       /\ payout'[p] = [payout[p] EXCEPT ![w] = s]
  <2>1. payout[p][w] + s = s
    BY <1>3
  <2> HIDE DEF share
  <2> QED BY <1>1, <1>2, <1>3, <1>5, <1>9, <2>1 DEF TypeOK, DuoPact
<1>12. winners(p)' = winners(p) /\ pool(p)' = m
  BY <1>2, <1>6, <1>11 DEF winners, Eligible, Refunded, pool, terms
<1>13. quota(p)' = q /\ (exact(p)' <=> exact(p))
  BY <1>6, <1>7, <1>12 DEF quota, exact
<1>14. PaidOut(p)' = PaidOut(p) + s /\ PaidOut(p) \in Int
  <2>1. \A x \in Wallets : /\ payout[p][x] \in Int /\ payout'[p][x] \in Int
                           /\ x # w => payout'[p][x] = payout[p][x]
    BY <1>3, <1>9, <1>11
  <2>2. SumOf(payout'[p], Wallets) = SumOf(payout[p], Wallets) + payout'[p][w] - payout[p][w]
    BY <2>1, EscrowConstants, SumOfChange
  <2>3. SumOf(payout[p], Wallets) \in Int
    BY <2>1, EscrowConstants, SumIsInt
  <2>4. payout'[p][w] = s /\ payout[p][w] = 0
    BY <1>3, <1>11
  <2> QED BY <2>2, <2>3, <2>4, PaidOutIsSum, PaidOutIsSumNext
<1>15. (r - s) + PaidOut(p)' = m
  <2>1. r + PaidOut(p) = m
    BY <1>3, <1>5, <1>6 DEF PoolSplit
  <2> QED BY <1>14, <2>1
<1>16. ASSUME NEW v \in claimed'[p]
       PROVE  payout'[p][v] \in {q, q + 1} /\ (exact(p) => payout'[p][v] = q)
  <2>1. CASE v = w
    BY <1>3, <1>10, <1>11, <2>1
  <2>2. CASE v # w
    <3>1. v \in claimed[p] /\ payout'[p][v] = payout[p][v]
      BY <1>3, <1>11, <2>2
    <3> QED BY <1>3, <1>7, <3>1 DEF PoolSplit
  <2> QED BY <2>1, <2>2
<1>17. winners(p)' # {} /\ claimed'[p] \subseteq winners(p)'
  BY <1>3, <1>4, <1>11, <1>12 DEF PoolSplit
<1>18. PoolSplit(p)'
  BY <1>10, <1>11, <1>12, <1>13, <1>15, <1>16, <1>17 DEF PoolSplit
<1>19. \A v \in Wallets \ claimed'[p] : payout'[p][v] = 0
  BY <1>3, <1>11 DEF MoneyOf
<1> QED BY <1>2, <1>3, <1>18, <1>19 DEF MoneyOf

LEMMA MoneyIsInductive ==
  ASSUME Inv, Money, [Next]_vars
  PROVE  Money'
<1> SUFFICES ASSUME NEW p \in PactIds PROVE MoneyOf(p)'
  BY DEF Money
<1>0. /\ Inv' /\ MoneyOf(p) /\ TypeOK /\ Accounts
      /\ pacts \in [PactIds -> DuoPact] /\ pacts[p] \in DuoPact
      /\ joined \in [PactIds -> SUBSET Wallets] /\ completed \in [PactIds -> SUBSET Wallets]
      /\ claimed \in [PactIds -> SUBSET Wallets] /\ payout \in [PactIds -> [Wallets -> Nat]]
  BY InvIsInductive DEF Money, Inv, AccountInv, TypeOK
<1>1. ASSUME NEW w \in Wallets, NEW c \in Configurations, createPact(w, c, AnyBaseline(w, c))
      PROVE  MoneyOf(p)'
  <2>1. /\ pacts' = [pacts EXCEPT ![nextPactId] =
                       [ZeroPact EXCEPT !.creator = w, !.terms = c, !.participantCount = 1]]
        /\ joined' = [joined EXCEPT ![nextPactId] = @ \cup {w}]
        /\ UNCHANGED <<completed, claimed, payout>>
    BY <1>1 DEF createPact
  <2>2. CASE p = nextPactId
    BY <1>0, <2>1, <2>2, OpenLockKeepsMoney DEF ZeroPact
  <2>3. CASE p # nextPactId
    BY <1>0, <2>1, <2>3, OtherLocksKeepMoney DEF moneyOf
  <2> QED BY <2>2, <2>3
<1>2. ASSUME NEW w \in Wallets, NEW q \in PactIds, joinPact(q, w, AnyBaseline(w, terms(q)))
      PROVE  MoneyOf(p)'
  <2>1. /\ pacts' = [pacts EXCEPT ![q].participantCount = @ + 1] /\ ~pacts[q].finalized
        /\ joined' = [joined EXCEPT ![q] = @ \cup {w}]
        /\ UNCHANGED <<completed, claimed, payout>>
    BY <1>2 DEF joinPact, joinOpen
  <2>2. CASE p = q
    BY <1>0, <2>1, <2>2, OpenLockKeepsMoney DEF DuoPact
  <2>3. CASE p # q
    BY <1>0, <2>1, <2>3, OtherLocksKeepMoney DEF moneyOf
  <2> QED BY <2>2, <2>3
<1>3. ASSUME NEW w \in Wallets, NEW q \in PactIds, submitFinal(q, w, AnyFinal(q, w))
      PROVE  MoneyOf(p)'
  <2>1. /\ pacts' = [pacts EXCEPT ![q].finisherCount = @ + 1] /\ ~pacts[q].finalized
        /\ completed' = [completed EXCEPT ![q] = @ \cup {w}] /\ w \in joined[q]
        /\ UNCHANGED <<joined, claimed, payout>>
    BY <1>3 DEF submitFinal, paidVars
  <2>2. CASE p = q
    BY <1>0, <2>1, <2>2, OpenLockKeepsMoney DEF DuoPact
  <2>3. CASE p # q
    BY <1>0, <2>1, <2>3, OtherLocksKeepMoney DEF moneyOf
  <2> QED BY <2>2, <2>3
<1>4. ASSUME NEW q \in PactIds, cancelPactByOwner(q) \/ \E w \in Wallets : cancelPact(q, w)
      PROVE  MoneyOf(p)'
  <2>1. /\ pacts' = [pacts EXCEPT ![q].cancelled = TRUE] /\ ~pacts[q].finalized /\ Exists(q)
        /\ UNCHANGED <<joined, completed, claimed, payout>>
    BY <1>4 DEF cancelPact, cancelPactByOwner, paidVars
  <2>2. CASE p = q
    <3>1. joined[p] # {}
      BY <1>0, <2>1, <2>2 DEF MoneyOf
    <3> QED BY <1>0, <2>1, <2>2, <3>1, OpenLockKeepsMoney DEF DuoPact
  <2>3. CASE p # q
    BY <1>0, <2>1, <2>3, OtherLocksKeepMoney DEF moneyOf
  <2> QED BY <2>2, <2>3
<1>5. ASSUME NEW q \in PactIds, finalizePact(q) PROVE MoneyOf(p)'
  <2>1. CASE p = q
    BY <1>0, <1>5, <2>1, FinalizeKeepsMoney
  <2>2. CASE p # q
    <3>1. pacts'[p] = pacts[p] /\ UNCHANGED <<joined, completed, claimed, payout>>
      BY <1>0, <1>5, <2>2 DEF finalizePact, paidVars
    <3> QED BY <1>0, <3>1, OtherLocksKeepMoney DEF moneyOf
  <2> QED BY <2>1, <2>2
<1>6. ASSUME NEW w \in Wallets, NEW q \in PactIds, claim(q, w) PROVE MoneyOf(p)'
  <2>1. CASE p = q
    BY <1>0, <1>6, <2>1, ClaimKeepsMoney
  <2>2. CASE p # q
    <3>1. /\ pacts'[p] = pacts[p] /\ claimed'[p] = claimed[p] /\ payout'[p] = payout[p]
          /\ UNCHANGED <<joined, completed>>
      BY <1>0, <1>6, <2>2 DEF claim
    <3> QED BY <1>0, <3>1, OtherLocksKeepMoney DEF moneyOf
  <2> QED BY <2>1, <2>2
<1>7. CASE UNCHANGED <<pacts, joined, completed, claimed, payout>>
  BY <1>0, <1>7, OtherLocksKeepMoney DEF moneyOf
<1> QED BY <1>1, <1>2, <1>3, <1>4, <1>5, <1>6, <1>7
        DEF Next, PlayerNext, OwnerNext, NextBlock, setEvidenceSigner, setCreationPaused,
            setJoiningPaused, PauseCompletion, vars, lockVars, paidVars

LEMMA MoneyIsInvariant == Spec => []Money
<1>1. Init => Money
  BY DEF Init, Money, MoneyOf, Exists, ZeroPact
<1>2. Inv /\ Money /\ [Next]_vars => Money'
  BY MoneyIsInductive
<1> QED BY <1>1, <1>2, InvIsInvariant, PTL DEF Spec

LEMMA MoneyConserves ==
  ASSUME Inv, Money PROVE PoolConserved
<1> SUFFICES ASSUME NEW p \in PactIds, pacts[p].finalized
             PROVE  /\ pacts[p].remainingPool + PaidOut(p) = pool(p)
                    /\ unpaid(p) = {} => pacts[p].remainingPool = 0
  BY DEF PoolConserved
<1>1. /\ TypeOK /\ AccountsOf(p) /\ PoolSplit(p) /\ pacts[p] \in DuoPact
      /\ pacts[p].remainingPool \in Nat
  BY DEF Inv, AccountInv, Accounts, Money, MoneyOf, TypeOK, DuoPact
<1>2. ASSUME unpaid(p) = {} PROVE pacts[p].remainingPool = 0
  <2>1. pacts[p].claimsRemaining = 0
    BY <1>1, <1>2, FS_EmptySet DEF AccountsOf
  <2>2. PICK q \in Nat : q = quota(p)
    <3>1. winners(p) # {} /\ winners(p) \in SUBSET Wallets
      BY <1>1 DEF PoolSplit, winners
    <3> QED BY <1>1, <3>1, PoolIsNat, SomeWallets, QuotientBounds DEF quota
  <2>3. pacts[p].remainingPool <= 0 * q + 0
    BY <1>1, <2>1, <2>2 DEF PoolSplit
  <2> QED BY <1>1, <2>2, <2>3
<1> QED BY <1>1, <1>2 DEF PoolSplit

(* Nothing is stranded or created by rounding: for any number of winners,  *)
(* what claim() has paid and what it has left of a pool add up to it, and  *)
(* the last claim leaves nothing.                                          *)
THEOREM PoolsAreConserved == Spec => []PoolConserved
<1>1. Inv /\ Money => PoolConserved
  BY MoneyConserves
<1> QED BY <1>1, InvIsInvariant, MoneyIsInvariant, PTL

LEMMA MoneyIsFair ==
  ASSUME Inv, Money PROVE FairShares
<1> SUFFICES ASSUME NEW p \in PactIds, NEW w \in claimed[p]
             PROVE  LET n == Cardinality(winners(p))
                    IN  /\ payout[p][w] \in {pool(p) \div n, (pool(p) + n - 1) \div n}
                        /\ Refunded(p) => payout[p][w] = terms(p).stake
                        /\ payout[p][w] >= terms(p).stake
  BY DEF FairShares
<1>1. TypeOK /\ AccountsOf(p) /\ PoolSplit(p)
  BY DEF Inv, AccountInv, Accounts, AccountsOf, Money, MoneyOf
<1>2. winners(p) \in SUBSET Wallets /\ winners(p) \subseteq joined[p] /\ joined[p] \in SUBSET Wallets
  BY <1>1 DEF winners, Eligible, TypeOK
<1>3. PICK n \in Nat : n = Cardinality(winners(p)) /\ n >= 1
  BY <1>1, <1>2, SomeWallets DEF PoolSplit
<1>4. PICK s \in Nat, m \in Nat :
        s = terms(p).stake /\ m = pacts[p].participantCount /\ pool(p) = s * m
  BY <1>1, PoolIsNat DEF pool
<1>5. n <= m
  BY <1>1, <1>2, <1>3, <1>4, WalletSetsFinite, FS_Subset DEF AccountsOf
<1>6. Refunded(p) => n = m
  <2>1. Refunded(p) => winners(p) = joined[p]
    BY <1>2 DEF winners, Eligible
  <2> QED BY <1>1, <1>3, <1>4, <2>1 DEF AccountsOf
<1>7. PICK P \in Nat, q \in Nat : P = s * m /\ q = P \div n /\ P = pool(p) /\ q = quota(p)
  <2>1. s * m \in Nat /\ (s * m) \div n \in Nat
    BY <1>3, QuotientBounds, ProductIsNat
  <2> QED BY <1>3, <1>4, <2>1 DEF quota
<1>8. (P + n - 1) \div n = IF P = n * q THEN q ELSE q + 1
  BY <1>3, <1>7
<1>9. q >= s /\ (n = m => q = s /\ P = n * q)
  BY <1>3, <1>5, <1>7
<1>10. payout[p][w] \in {q, q + 1} /\ (P = n * q => payout[p][w] = q)
  BY <1>1, <1>3, <1>7 DEF PoolSplit, exact
<1>11. payout[p][w] \in {P \div n, (P + n - 1) \div n}
  BY <1>7, <1>8, <1>10
<1>12. Refunded(p) => payout[p][w] = s
  BY <1>6, <1>9, <1>10
<1>13. payout[p][w] >= s
  BY <1>9, <1>10
<1> QED BY <1>3, <1>4, <1>7, <1>11, <1>12, <1>13

(* The order of claims favours nobody by more than one base unit, a refund *)
(* is exactly the stake and no winner gets back less than was staked, for  *)
(* every stake, number of players and number of winners.                   *)
THEOREM SharesAreFair == Spec => []FairShares
<1>1. Inv /\ Money => FairShares
  BY MoneyIsFair
<1> QED BY <1>1, InvIsInvariant, MoneyIsInvariant, PTL

-----------------------------------------------------------------------------
(* Solvency: the vault holds what is owed over all Locks together.         *)

(* What a Lock is owed is a number, and the total of them a finite sum.    *)
LEMMA OwedAreInts == TypeOK => \A p \in PactIds : Owed(p) \in Int
<1> SUFFICES ASSUME TypeOK, NEW p \in PactIds PROVE Owed(p) \in Int
  OBVIOUS
<1>1. pacts[p] \in DuoPact
  BY DEF TypeOK
<1>2. pacts[p].remainingPool \in Nat /\ pool(p) \in Nat
  BY <1>1, PoolIsNat DEF DuoPact
<1> QED BY <1>2 DEF Owed

LEMMA OwedAreIntsNext == (TypeOK => \A p \in PactIds : Owed(p) \in Int)'
BY OwedAreInts, PTL

LEMMA SolventIsASum ==
  \A v : TypeOK /\ v = [p \in PactIds |-> Owed(p)] => (Solvent <=> vault = SumOf(v, PactIds))
<1> SUFFICES ASSUME TypeOK, NEW v, v = [p \in PactIds |-> Owed(p)]
             PROVE  MapThenSumSet(Owed, PactIds) = SumOf(v, PactIds)
  BY DEF Solvent
<1> DEFINE table(g) ==
             g = [s \in SUBSET PactIds |->
                    IF s = {} THEN 0
                    ELSE Owed(CHOOSE x \in s : TRUE) + g[s \ {CHOOSE x \in s : TRUE}]]
<1>1. IsFiniteSet(PactIds) /\ \A x \in PactIds : v[x] = Owed(x) /\ v[x] \in Int
  BY OwedAreInts, EscrowConstants
<1>2. PICK t : IsAdditive(t, v, PactIds)
  BY <1>1, AdditiveTableExists
<1>3. \A g : table(g) <=> IsSumTable(g, v, PactIds)
  <2>1. \A s \in SUBSET PactIds : s # {} => v[CHOOSE x \in s : TRUE] = Owed(CHOOSE x \in s : TRUE)
    BY <1>1
  <2> HIDE DEF Owed
  <2> QED BY <2>1 DEF IsSumTable
<1>4. table(t)
  BY <1>2, <1>3, AdditiveIsTable
<1>5. table(CHOOSE g : table(g))
  <2> HIDE DEF table
  <2> QED BY <1>4
<1>6. (CHOOSE g : table(g)) = t
  <2> HIDE DEF table
  <2> QED BY <1>1, <1>2, <1>3, <1>5, TableIsUnique
<1>7. MapThenSumSet(Owed, PactIds) = (CHOOSE g : table(g))[PactIds]
  BY DEF MapThenSumSet, MapThenFoldSet
<1>8. SumOf(v, PactIds) = t[PactIds]
  BY <1>1, <1>2, SumOfTable
<1> QED BY <1>6, <1>7, <1>8

LEMMA SolventIsASumNext ==
  (\A v : TypeOK /\ v = [p \in PactIds |-> Owed(p)] => (Solvent <=> vault = SumOf(v, PactIds)))'
BY SolventIsASum, PTL

(* A step on one Lock that moves into the vault what it adds to the debt.  *)
LEMMA SolventStep ==
  ASSUME TypeOK, TypeOK', Solvent, NEW p \in PactIds,
         \A q \in PactIds : q # p => Owed(q)' = Owed(q),
         vault' = vault + Owed(p)' - Owed(p)
  PROVE  Solvent'
<1>1. PICK v : v = [q \in PactIds |-> Owed(q)]
  OBVIOUS
<1>2. PICK u : u = [q \in PactIds |-> Owed(q)']
  OBVIOUS
<1>3. \A q \in PactIds : v[q] = Owed(q) /\ u[q] = Owed(q)' /\ v[q] \in Int /\ u[q] \in Int
  BY <1>1, <1>2, OwedAreInts, OwedAreIntsNext
<1>4. \A q \in PactIds : v[q] \in Int /\ u[q] \in Int /\ (q # p => u[q] = v[q])
  BY <1>3
<1>5. SumOf(u, PactIds) = SumOf(v, PactIds) + u[p] - v[p]
  <2>1. IsFiniteSet(PactIds)
    BY EscrowConstants
  <2> QED BY <1>4, <2>1, SumOfChange
<1>6. vault = SumOf(v, PactIds)
  BY <1>1, SolventIsASum
<1>7. Solvent' <=> vault' = SumOf(u, PactIds)
  BY <1>2, SolventIsASumNext
<1> QED BY <1>3, <1>5, <1>6, <1>7

OwedFrom(r) == IF r.finalized THEN r.remainingPool ELSE r.terms.stake * r.participantCount

LEMMA OwedOfPact ==
  ASSUME NEW p \in PactIds
  PROVE  Owed(p) = OwedFrom(pacts[p]) /\ Owed(p)' = OwedFrom(pacts'[p])
BY DEF Owed, OwedFrom, pool, terms

LEMMA SolventIsInductive ==
  ASSUME Inv, Solvent, [Next]_vars
  PROVE  Solvent'
<1>0. /\ TypeOK /\ TypeOK' /\ Accounts /\ vault \in Int
      /\ pacts \in [PactIds -> DuoPact] /\ \A q \in PactIds : pacts[q] \in DuoPact
  BY InvIsInductive DEF Inv, AccountInv, TypeOK
<1>1. ASSUME NEW p \in PactIds,
             \A q \in PactIds : q # p => pacts'[q] = pacts[q],
             vault' = vault + OwedFrom(pacts'[p]) - OwedFrom(pacts[p])
      PROVE  Solvent'
  <2>1. \A q \in PactIds : q # p => Owed(q)' = Owed(q)
    BY <1>1, OwedOfPact
  <2>2. vault' = vault + Owed(p)' - Owed(p)
    BY <1>1, OwedOfPact
  <2> QED BY <1>0, <2>1, <2>2, SolventStep
<1>2. ASSUME NEW w \in Wallets, NEW c \in Configurations, createPact(w, c, AnyBaseline(w, c))
      PROVE  Solvent'
  <2>1. PICK n \in PactIds : n = nextPactId
    BY <1>2 DEF createPact
  <2>2. /\ pacts' = [pacts EXCEPT ![n] =
                       [ZeroPact EXCEPT !.creator = w, !.terms = c, !.participantCount = 1]]
        /\ vault' = vault + c.stake
    BY <1>2, <2>1 DEF createPact
  <2>3. pacts[n] = ZeroPact
    BY <1>0, <2>1, EscrowConstants DEF Accounts, Untouched
  <2>4. c.stake \in Nat
    BY TermsAreNumbers
  <2>5. OwedFrom(pacts[n]) = 0 /\ OwedFrom(pacts'[n]) = c.stake
    BY <1>0, <2>2, <2>3, <2>4 DEF OwedFrom, ZeroPact, ZeroTerms
  <2> QED BY <1>0, <1>1, <2>2, <2>4, <2>5
<1>3. ASSUME NEW w \in Wallets, NEW p \in PactIds, joinPact(p, w, AnyBaseline(w, terms(p)))
      PROVE  Solvent'
  <2>1. /\ pacts' = [pacts EXCEPT ![p].participantCount = @ + 1] /\ ~pacts[p].finalized
        /\ vault' = vault + pacts[p].terms.stake
    BY <1>3 DEF joinPact, joinOpen, terms
  <2>2. PICK s \in Nat, m \in Nat : s = pacts[p].terms.stake /\ m = pacts[p].participantCount
    BY <1>0, PoolIsNat DEF terms
  <2>3. /\ pacts'[p].terms = pacts[p].terms /\ pacts'[p].participantCount = m + 1
        /\ pacts'[p].finalized = pacts[p].finalized
    BY <1>0, <2>1, <2>2 DEF DuoPact
  <2>4. OwedFrom(pacts[p]) = s * m /\ OwedFrom(pacts'[p]) = s * (m + 1)
    BY <2>1, <2>2, <2>3 DEF OwedFrom
  <2>5. s * (m + 1) = s * m + s /\ s * m \in Nat
    BY ProductIsNat
  <2> QED BY <1>0, <1>1, <2>1, <2>2, <2>4, <2>5
<1>4. ASSUME NEW p \in PactIds,
             \/ cancelPactByOwner(p)
             \/ \E w \in Wallets : cancelPact(p, w) \/ submitFinal(p, w, AnyFinal(p, w))
      PROVE  Solvent'
  <2>1. vault' = vault /\ \A q \in PactIds : q # p => pacts'[q] = pacts[q]
    BY <1>0, <1>4 DEF cancelPactByOwner, cancelPact, submitFinal, paidVars
  <2>2. OwedFrom(pacts'[p]) = OwedFrom(pacts[p])
    BY <1>0, <1>4 DEF cancelPactByOwner, cancelPact, submitFinal, OwedFrom, DuoPact
  <2>3. OwedFrom(pacts[p]) \in Int
    BY <1>0, OwedAreInts, OwedOfPact
  <2> QED BY <1>0, <1>1, <2>1, <2>2, <2>3
<1>5. ASSUME NEW p \in PactIds, finalizePact(p)
      PROVE  Solvent'
  <2>1. PICK b, k : pacts' = [pacts EXCEPT ![p].cancelled = b, ![p].finalized = TRUE,
                                  ![p].claimsRemaining = k, ![p].remainingPool = pool(p)]
    BY <1>5 DEF finalizePact, pool
  <2>2. vault' = vault /\ ~pacts[p].finalized
    BY <1>5 DEF finalizePact, paidVars
  <2>3. pacts'[p].finalized = TRUE /\ pacts'[p].remainingPool = pool(p)
    BY <1>0, <2>1 DEF DuoPact
  <2>4. OwedFrom(pacts'[p]) = pool(p) /\ OwedFrom(pacts[p]) = pool(p) /\ pool(p) \in Nat
    BY <1>0, <2>2, <2>3, PoolIsNat DEF OwedFrom, pool, terms
  <2> QED BY <1>0, <1>1, <2>1, <2>2, <2>4
<1>6. ASSUME NEW w \in Wallets, NEW p \in PactIds, claim(p, w)
      PROVE  Solvent'
  <2>1. PICK s : s = share(p) /\
          pacts' = [pacts EXCEPT ![p].remainingPool = @ - s, ![p].claimsRemaining = @ - 1]
          /\ vault' = vault - s /\ pacts[p].finalized
    BY <1>6 DEF claim
  <2>2. pacts[p].remainingPool \in Nat
    BY <1>0 DEF DuoPact
  <2>3. s \in Nat
    <3>1. w \in unpaid(p) /\ unpaid(p) \in SUBSET Wallets
      BY <1>6 DEF claim, unpaid, winners
    <3>2. pacts[p].claimsRemaining \in Nat /\ pacts[p].claimsRemaining >= 1
      BY <1>0, <2>1, <3>1, SomeWallets DEF Accounts, AccountsOf
    <3> QED BY <2>1, <2>2, <3>2, DivBounds DEF share
  <2>4. /\ pacts'[p].finalized = pacts[p].finalized
        /\ pacts'[p].remainingPool = pacts[p].remainingPool - s
    BY <1>0, <2>1 DEF DuoPact
  <2>5. /\ OwedFrom(pacts[p]) = pacts[p].remainingPool
        /\ OwedFrom(pacts'[p]) = pacts[p].remainingPool - s
    BY <2>1, <2>4 DEF OwedFrom
  <2> QED BY <1>0, <1>1, <2>1, <2>2, <2>3, <2>5
<1>7. CASE UNCHANGED <<pacts, vault>>
  BY <1>7 DEF Solvent, Owed, pool, terms, MapThenSumSet, MapThenFoldSet
<1> QED BY <1>2, <1>3, <1>4, <1>5, <1>6, <1>7
        DEF Next, PlayerNext, OwnerNext, NextBlock, setEvidenceSigner, setCreationPaused,
            setJoiningPaused, PauseCompletion, vars, lockVars, paidVars

(* The contract's token balance is exactly what it still owes, over all    *)
(* its Locks together, however their joins, settlements and claims         *)
(* interleave: no Lock is ever paid from another one's stakes.             *)
THEOREM VaultIsSolvent == Spec => []Solvent
<1>1. Init => Solvent
  <2> SUFFICES ASSUME Init PROVE Solvent
    OBVIOUS
  <2>1. TypeOK
    BY InitAccountInv DEF AccountInv
  <2>2. PICK v : v = [p \in PactIds |-> Owed(p)]
    OBVIOUS
  <2>3. \A p \in PactIds : v[p] = 0
    BY <2>2, OwedOfPact DEF Init, OwedFrom, ZeroPact, ZeroTerms
  <2>4. SumOf(v, PactIds) = 0
    <3>1. IsFiniteSet(PactIds)
      BY EscrowConstants
    <3> QED BY <2>3, <3>1, SumOfZeros
  <2> QED BY <2>1, <2>2, <2>4, SolventIsASum DEF Init
<1>2. Inv /\ Solvent /\ [Next]_vars => Solvent'
  BY SolventIsInductive
<1> QED BY <1>1, <1>2, InvIsInvariant, PTL DEF Spec

-----------------------------------------------------------------------------
(* Evidence: a nullifier is spent with every stake taken and every final   *)
(* accepted, and never twice.                                              *)

Effects(p) == Cardinality(joined[p]) + Cardinality(completed[p])

LEMMA EffectsAreNats == TypeOK => \A p \in PactIds : Effects(p) \in Nat
<1> SUFFICES ASSUME TypeOK, NEW p \in PactIds PROVE Effects(p) \in Nat
  OBVIOUS
<1>1. joined[p] \in SUBSET Wallets /\ completed[p] \in SUBSET Wallets
  BY DEF TypeOK
<1> QED BY <1>1, WalletSetsFinite DEF Effects

LEMMA EffectsAreNatsNext == (TypeOK => \A p \in PactIds : Effects(p) \in Nat)'
BY EffectsAreNats, PTL

LEMMA EffectsAreASum ==
  \A v : TypeOK /\ v = [p \in PactIds |-> Effects(p)] =>
            (OneProofOneEffect <=> Cardinality(usedNullifiers) = SumOf(v, PactIds))
<1> SUFFICES ASSUME TypeOK, NEW v, v = [p \in PactIds |-> Effects(p)]
             PROVE  MapThenSumSet(Effects, PactIds) = SumOf(v, PactIds)
  BY DEF OneProofOneEffect, Effects
<1> DEFINE table(g) ==
             g = [s \in SUBSET PactIds |->
                    IF s = {} THEN 0
                    ELSE Effects(CHOOSE x \in s : TRUE) + g[s \ {CHOOSE x \in s : TRUE}]]
<1>1. IsFiniteSet(PactIds) /\ \A x \in PactIds : v[x] = Effects(x) /\ v[x] \in Int
  BY EffectsAreNats, EscrowConstants
<1>2. PICK t : IsAdditive(t, v, PactIds)
  BY <1>1, AdditiveTableExists
<1>3. \A g : table(g) <=> IsSumTable(g, v, PactIds)
  <2>1. \A s \in SUBSET PactIds :
           s # {} => v[CHOOSE x \in s : TRUE] = Effects(CHOOSE x \in s : TRUE)
    BY <1>1
  <2> HIDE DEF Effects
  <2> QED BY <2>1 DEF IsSumTable
<1>4. table(t)
  BY <1>2, <1>3, AdditiveIsTable
<1>5. table(CHOOSE g : table(g))
  <2> HIDE DEF table
  <2> QED BY <1>4
<1>6. (CHOOSE g : table(g)) = t
  <2> HIDE DEF table
  <2> QED BY <1>1, <1>2, <1>3, <1>5, TableIsUnique
<1>7. MapThenSumSet(Effects, PactIds) = (CHOOSE g : table(g))[PactIds]
  BY DEF MapThenSumSet, MapThenFoldSet
<1>8. SumOf(v, PactIds) = t[PactIds]
  BY <1>1, <1>2, SumOfTable
<1> QED BY <1>6, <1>7, <1>8

LEMMA EffectsAreASumNext ==
  (\A v : TypeOK /\ v = [p \in PactIds |-> Effects(p)] =>
             (OneProofOneEffect <=> Cardinality(usedNullifiers) = SumOf(v, PactIds)))'
BY EffectsAreASum, PTL

ProofsSpent == IsFiniteSet(usedNullifiers) /\ OneProofOneEffect

(* A step that spends one nullifier for one effect on one Lock.            *)
LEMMA EffectStep ==
  ASSUME TypeOK, TypeOK', ProofsSpent, NEW p \in PactIds, NEW i, i \notin usedNullifiers,
         usedNullifiers' = usedNullifiers \cup {i},
         \A q \in PactIds : q # p => Effects(q)' = Effects(q),
         Effects(p)' = Effects(p) + 1
  PROVE  ProofsSpent'
<1>1. PICK v : v = [q \in PactIds |-> Effects(q)]
  OBVIOUS
<1>2. PICK u : u = [q \in PactIds |-> Effects(q)']
  OBVIOUS
<1>3. \A q \in PactIds : v[q] = Effects(q) /\ u[q] = Effects(q)' /\ v[q] \in Int /\ u[q] \in Int
  BY <1>1, <1>2, EffectsAreNats, EffectsAreNatsNext
<1>4. \A q \in PactIds : v[q] \in Int /\ u[q] \in Int /\ (q # p => u[q] = v[q])
  BY <1>3
<1>5. SumOf(u, PactIds) = SumOf(v, PactIds) + u[p] - v[p]
  <2>1. IsFiniteSet(PactIds)
    BY EscrowConstants
  <2> QED BY <1>4, <2>1, SumOfChange
<1>6. Cardinality(usedNullifiers) = SumOf(v, PactIds)
  BY <1>1, EffectsAreASum DEF ProofsSpent
<1>7. OneProofOneEffect' <=> Cardinality(usedNullifiers') = SumOf(u, PactIds)
  BY <1>2, EffectsAreASumNext
<1>8. /\ IsFiniteSet(usedNullifiers') /\ Cardinality(usedNullifiers') = Cardinality(usedNullifiers) + 1
      /\ Cardinality(usedNullifiers) \in Nat
  BY FS_AddElement, FS_CardinalityType DEF ProofsSpent
<1>9. OneProofOneEffect'
  BY <1>3, <1>5, <1>6, <1>7, <1>8
<1> QED BY <1>8, <1>9 DEF ProofsSpent

LEMMA ProofsSpentIsInductive ==
  ASSUME Inv, ProofsSpent, [Next]_vars
  PROVE  ProofsSpent'
<1>0. /\ TypeOK /\ TypeOK' /\ Accounts /\ Accounts'
      /\ joined \in [PactIds -> SUBSET Wallets] /\ completed \in [PactIds -> SUBSET Wallets]
  BY InvIsInductive DEF Inv, AccountInv, TypeOK
<1>1. ASSUME NEW p \in PactIds, NEW w \in Wallets, w \notin joined[p],
             joined' = [joined EXCEPT ![p] = @ \cup {w}], completed' = completed,
             NEW i, i \notin usedNullifiers, usedNullifiers' = usedNullifiers \cup {i}
      PROVE  ProofsSpent'
  <2>1. \A q \in PactIds : q # p => Effects(q)' = Effects(q)
    BY <1>0, <1>1 DEF Effects
  <2>2. joined'[p] = joined[p] \cup {w} /\ joined[p] \in SUBSET Wallets
    BY <1>0, <1>1
  <2>3. Cardinality(joined'[p]) = Cardinality(joined[p]) + 1
    BY <1>1, <2>2, WalletSetsFinite, FS_AddElement
  <2>4. Cardinality(joined[p]) \in Nat /\ Cardinality(completed[p]) \in Nat
    BY <1>0, WalletSetsFinite
  <2>5. Effects(p)' = Effects(p) + 1
    BY <1>1, <2>3, <2>4 DEF Effects
  <2> QED BY <1>0, <1>1, <2>1, <2>5, EffectStep
<1>2. ASSUME NEW w \in Wallets, NEW c \in Configurations, createPact(w, c, AnyBaseline(w, c))
      PROVE  ProofsSpent'
  <2>1. PICK n \in PactIds : n = nextPactId
    BY <1>2 DEF createPact
  <2>2. PICK i : i \notin usedNullifiers /\ usedNullifiers' = usedNullifiers \cup {i}
    BY <1>2 DEF createPact, baselineOK
  <2>3. joined' = [joined EXCEPT ![n] = @ \cup {w}] /\ completed' = completed
    BY <1>2, <2>1 DEF createPact
  <2>4. w \notin joined[n]
    BY <1>0, <2>1, EscrowConstants DEF Accounts, Untouched
  <2> QED BY <1>1, <2>2, <2>3, <2>4
<1>3. ASSUME NEW w \in Wallets, NEW p \in PactIds, joinPact(p, w, AnyBaseline(w, terms(p)))
      PROVE  ProofsSpent'
  <2>1. PICK i : i \notin usedNullifiers /\ usedNullifiers' = usedNullifiers \cup {i}
    BY <1>3 DEF joinPact, baselineOK
  <2>2. joined' = [joined EXCEPT ![p] = @ \cup {w}] /\ completed' = completed /\ w \notin joined[p]
    BY <1>3 DEF joinPact
  <2> QED BY <1>1, <2>1, <2>2
<1>4. ASSUME NEW w \in Wallets, NEW p \in PactIds, submitFinal(p, w, AnyFinal(p, w))
      PROVE  ProofsSpent'
  <2>1. PICK i : i \notin usedNullifiers /\ usedNullifiers' = usedNullifiers \cup {i}
    BY <1>4 DEF submitFinal, finalOK
  <2>2. /\ completed' = [completed EXCEPT ![p] = @ \cup {w}] /\ joined' = joined
        /\ w \notin completed[p]
    BY <1>4 DEF submitFinal
  <2>3. \A q \in PactIds : q # p => Effects(q)' = Effects(q)
    BY <1>0, <2>2 DEF Effects
  <2>4. completed'[p] = completed[p] \cup {w} /\ completed[p] \in SUBSET Wallets
    BY <1>0, <2>2
  <2>5. Cardinality(completed'[p]) = Cardinality(completed[p]) + 1
    BY <2>2, <2>4, WalletSetsFinite, FS_AddElement
  <2>6. Cardinality(joined[p]) \in Nat /\ Cardinality(completed[p]) \in Nat
    BY <1>0, WalletSetsFinite
  <2>7. Effects(p)' = Effects(p) + 1
    BY <2>2, <2>5, <2>6 DEF Effects
  <2> QED BY <1>0, <2>1, <2>3, <2>7, EffectStep
<1>5. CASE UNCHANGED <<joined, completed, usedNullifiers>>
  BY <1>5 DEF ProofsSpent, OneProofOneEffect, MapThenSumSet, MapThenFoldSet
<1> QED BY <1>2, <1>3, <1>4, <1>5
        DEF Next, PlayerNext, OwnerNext, NextBlock, setEvidenceSigner, setCreationPaused,
            setJoiningPaused, PauseCompletion, cancelPact, cancelPactByOwner, finalizePact, claim,
            vars, lockVars

(* A proof is good for one effect on one Lock: the nullifiers used are as  *)
(* many as the stakes taken and the finals accepted, over all Locks.       *)
THEOREM ProofsCountOnce == Spec => []OneProofOneEffect
<1>1. Init => ProofsSpent
  <2> SUFFICES ASSUME Init PROVE ProofsSpent
    OBVIOUS
  <2>1. TypeOK /\ IsFiniteSet(usedNullifiers) /\ Cardinality(usedNullifiers) = 0
    BY InitAccountInv, FS_EmptySet DEF Init, AccountInv
  <2>2. PICK v : v = [p \in PactIds |-> Effects(p)]
    OBVIOUS
  <2>3. \A p \in PactIds : v[p] = 0
    BY <2>2, FS_EmptySet DEF Init, Effects
  <2>4. SumOf(v, PactIds) = 0
    <3>1. IsFiniteSet(PactIds)
      BY EscrowConstants
    <3> QED BY <2>3, <3>1, SumOfZeros
  <2> QED BY <2>1, <2>2, <2>4, EffectsAreASum DEF ProofsSpent
<1>2. Inv /\ ProofsSpent /\ [Next]_vars => ProofsSpent'
  BY ProofsSpentIsInductive
<1>3. ProofsSpent => OneProofOneEffect
  BY DEF ProofsSpent
<1> QED BY <1>1, <1>2, <1>3, InvIsInvariant, PTL DEF Spec

-----------------------------------------------------------------------------
(* The contract implements, Lock by Lock, the settlement it promises.      *)

(* A final is only accepted once the Lock has started, when joining it is  *)
(* over: nobody buys into a pool that already has a finisher.              *)
StartedBeforeFinished == \A p \in PactIds : completed[p] # {} => now >= startsAt(p)

LEMMA StartedBeforeFinishedIsInductive ==
  ASSUME Inv, StartedBeforeFinished, [Next]_vars
  PROVE  StartedBeforeFinished'
<1> SUFFICES ASSUME NEW p \in PactIds, completed'[p] # {}
             PROVE  now' >= startsAt(p)'
  BY DEF StartedBeforeFinished
<1>0. /\ TypeOK /\ Accounts /\ pacts \in [PactIds -> DuoPact] /\ pacts[p] \in DuoPact
      /\ completed \in [PactIds -> SUBSET Wallets] /\ now \in Nat /\ startsAt(p) \in Nat
  BY WindowsAreNumbers, PauseBounds DEF Inv, AccountInv, TypeOK, PausesTypeOK
<1>1. ASSUME completed'[p] = completed[p], pacts'[p].terms = pacts[p].terms,
             now' = now \/ now' = now + 1
      PROVE  now' >= startsAt(p)'
  <2>1. startsAt(p)' = startsAt(p) /\ now >= startsAt(p)
    BY <1>1 DEF StartedBeforeFinished, startsAt, terms
  <2> QED BY <1>0, <1>1, <2>1
<1>2. ASSUME NEW w \in Wallets, NEW c \in Configurations, createPact(w, c, AnyBaseline(w, c))
      PROVE  now' >= startsAt(p)'
  <2>1. completed' = completed /\ now' = now
    BY <1>2 DEF createPact
  <2>2. p # nextPactId
    BY <1>0, <2>1, EscrowConstants DEF Accounts, Untouched
  <2>3. pacts'[p] = pacts[p]
    BY <1>0, <1>2, <2>2 DEF createPact
  <2> QED BY <1>1, <2>1, <2>3
<1>3. ASSUME NEW w \in Wallets, NEW q \in PactIds, submitFinal(q, w, AnyFinal(q, w))
      PROVE  now' >= startsAt(p)'
  <2>1. pacts'[p].terms = pacts[p].terms /\ now' = now
    BY <1>0, <1>3 DEF submitFinal, DuoPact
  <2>2. CASE p = q
    <3>1. startsAt(p)' = startsAt(p) /\ now >= startsAt(p)
      BY <1>3, <2>1, <2>2 DEF startsAt, terms, submitFinal, submissionOpen
    <3> QED BY <2>1, <3>1
  <2>3. CASE p # q
    <3>1. completed'[p] = completed[p]
      BY <1>0, <1>3, <2>3 DEF submitFinal
    <3> QED BY <1>1, <2>1, <3>1
  <2> QED BY <2>2, <2>3
<1>4. ASSUME NEW q \in PactIds,
             \/ cancelPactByOwner(q) \/ finalizePact(q)
             \/ \E w \in Wallets : \/ joinPact(q, w, AnyBaseline(w, terms(q)))
                                   \/ cancelPact(q, w) \/ claim(q, w)
      PROVE  now' >= startsAt(p)'
  <2>1. completed' = completed /\ now' = now
    BY <1>4 DEF cancelPactByOwner, finalizePact, joinPact, cancelPact, claim
  <2>2. CASE ~ finalizePact(q)
    <3>1. pacts'[p].terms = pacts[p].terms
      BY <1>0, <1>4, <2>2 DEF cancelPactByOwner, joinPact, cancelPact, claim, DuoPact
    <3> QED BY <1>1, <2>1, <3>1
  <2>3. CASE finalizePact(q)
    <3>1. PICK b, m, n : pacts' = [pacts EXCEPT ![q].cancelled = b, ![q].finalized = TRUE,
                                       ![q].claimsRemaining = m, ![q].remainingPool = n]
      BY <2>3 DEF finalizePact
    <3>2. pacts'[p].terms = pacts[p].terms
      BY <1>0, <3>1 DEF DuoPact
    <3> QED BY <1>1, <2>1, <3>2
  <2> QED BY <2>2, <2>3
<1>5. CASE UNCHANGED <<pacts, completed>> /\ (now' = now \/ now' = now + 1)
  BY <1>1, <1>5
<1> QED BY <1>2, <1>3, <1>4, <1>5
        DEF Next, PlayerNext, OwnerNext, NextBlock, Tick, setEvidenceSigner, setCreationPaused,
            setJoiningPaused, PauseCompletion, setCompletionPaused, vars, lockVars

LEMMA StartedBeforeFinishedIsInvariant == Spec => []StartedBeforeFinished
<1>1. Init => StartedBeforeFinished
  BY DEF Init, StartedBeforeFinished
<1>2. Inv /\ StartedBeforeFinished /\ [Next]_vars => StartedBeforeFinished'
  BY StartedBeforeFinishedIsInductive
<1> QED BY <1>1, <1>2, InvIsInvariant, PTL DEF Spec

LEMMA EnterRefines ==
  ASSUME Inv, RealTerms, StartedBeforeFinished, NEW p \in PactIds, NEW w \in Wallets,
         \/ \E c \in Configurations : createPact(w, c, AnyBaseline(w, c)) /\ p = nextPactId
         \/ joinPact(p, w, AnyBaseline(w, terms(p)))
  PROVE  Promise(p)!Enter(w)
<1>0. /\ TypeOK /\ Accounts /\ pacts \in [PactIds -> DuoPact] /\ pacts[p] \in DuoPact
      /\ joined \in [PactIds -> SUBSET Wallets] /\ completed \in [PactIds -> SUBSET Wallets]
      /\ p \in Nat
  BY EscrowConstants DEF Inv, AccountInv, TypeOK
<1>1. ASSUME ~pacts[p].finalized, ~pacts'[p].finalized, completed[p] = {}, w \notin joined[p],
             joined'[p] = joined[p] \cup {w}, completed' = completed, payout' = payout,
             pacts'[p].terms.stake \in Nat \ {0},
             joined[p] # {} => pacts'[p].terms.stake = pacts[p].terms.stake
      PROVE  Promise(p)!Enter(w)
  BY <1>1 DEF Promise!Enter, outcomeOf, terms
<1>2. ASSUME NEW c \in Configurations, createPact(w, c, AnyBaseline(w, c)), p = nextPactId
      PROVE  Promise(p)!Enter(w)
  <2>1. /\ pacts' = [pacts EXCEPT ![p] =
                       [ZeroPact EXCEPT !.creator = w, !.terms = c, !.participantCount = 1]]
        /\ joined' = [joined EXCEPT ![p] = @ \cup {w}]
        /\ completed' = completed /\ payout' = payout
    BY <1>2 DEF createPact
  <2>2. Untouched(p)
    BY <1>0, <1>2 DEF Accounts
  <2>3. c.stake \in Nat \ {0}
    BY EscrowConstants DEF Configurations
  <2>4. pacts'[p].terms = c /\ ~pacts'[p].finalized /\ ~pacts[p].finalized
    BY <1>0, <2>1, <2>2 DEF Untouched, ZeroPact
  <2>5. joined[p] = {} /\ completed[p] = {} /\ joined'[p] = joined[p] \cup {w}
    BY <1>0, <2>1, <2>2 DEF Untouched
  <2> QED BY <1>1, <2>1, <2>3, <2>4, <2>5
<1>3. ASSUME joinPact(p, w, AnyBaseline(w, terms(p)))
      PROVE  Promise(p)!Enter(w)
  <2>1. /\ pacts' = [pacts EXCEPT ![p].participantCount = @ + 1]
        /\ joined' = [joined EXCEPT ![p] = @ \cup {w}]
        /\ completed' = completed /\ payout' = payout
        /\ w \notin joined[p] /\ ~pacts[p].finalized /\ now < startsAt(p) /\ Exists(p)
    BY <1>3 DEF joinPact, joinOpen
  <2>2. completed[p] = {}
    <3>1. now \in Nat /\ startsAt(p) \in Nat
      BY <1>0, WindowsAreNumbers, PauseBounds DEF TypeOK, PausesTypeOK
    <3> QED BY <2>1, <3>1 DEF StartedBeforeFinished
  <2>3. pacts'[p].terms = pacts[p].terms /\ ~pacts'[p].finalized
    BY <1>0, <2>1 DEF DuoPact
  <2>4. pacts[p].terms.stake \in Nat \ {0}
    <3>1. pacts[p].terms \in Configurations
      BY <2>1 DEF RealTerms, terms
    <3> QED BY <3>1, EscrowConstants DEF Configurations
  <2>5. joined'[p] = joined[p] \cup {w}
    BY <1>0, <2>1
  <2> QED BY <1>1, <2>1, <2>2, <2>3, <2>4, <2>5
<1> QED BY <1>2, <1>3

LEMMA FinishRefines ==
  ASSUME Inv, NEW p \in PactIds, NEW w \in Wallets, submitFinal(p, w, AnyFinal(p, w))
  PROVE  Promise(p)!Finish(w)
<1>0. /\ pacts \in [PactIds -> DuoPact] /\ pacts[p] \in DuoPact
      /\ completed \in [PactIds -> SUBSET Wallets]
  BY DEF Inv, AccountInv, TypeOK
<1>1. /\ pacts' = [pacts EXCEPT ![p].finisherCount = @ + 1]
      /\ completed' = [completed EXCEPT ![p] = @ \cup {w}]
      /\ joined' = joined /\ payout' = payout
      /\ w \in joined[p] /\ w \notin completed[p] /\ ~pacts[p].finalized
  BY DEF submitFinal, paidVars
<1>2. pacts'[p].terms = pacts[p].terms /\ ~pacts'[p].finalized
  BY <1>0, <1>1 DEF DuoPact
<1>3. completed'[p] = completed[p] \cup {w}
  BY <1>0, <1>1
<1> QED BY <1>1, <1>2, <1>3 DEF Promise!Finish, outcomeOf, terms

LEMMA SettleRefines ==
  ASSUME Inv, Money, NEW p \in PactIds, finalizePact(p)
  PROVE  Promise(p)!Settle
<1>0. pacts \in [PactIds -> DuoPact] /\ pacts[p] \in DuoPact
  BY DEF Inv, AccountInv, TypeOK
<1>1. /\ joined' = joined /\ completed' = completed /\ payout' = payout
      /\ ~pacts[p].finalized /\ Exists(p)
  BY DEF finalizePact, paidVars
<1>2. PICK b, m, n : pacts' = [pacts EXCEPT ![p].cancelled = b, ![p].finalized = TRUE,
                                   ![p].claimsRemaining = m, ![p].remainingPool = n]
  BY DEF finalizePact
<1>3. pacts'[p].terms = pacts[p].terms /\ pacts'[p].finalized
  BY <1>0, <1>2 DEF DuoPact
<1>4. joined[p] # {}
  BY <1>1 DEF Money, MoneyOf
<1> QED BY <1>1, <1>3, <1>4 DEF Promise!Settle, outcomeOf, terms

LEMMA MoneyMeansNext == (Inv /\ Money => PoolConserved /\ FairShares)'
<1>1. Inv /\ Money => PoolConserved /\ FairShares
  BY MoneyConserves, MoneyIsFair
<1> QED BY <1>1, PTL

(* Instantiating Settlement brings a copy of each library operator along.  *)
LEMMA PromisedCardinality ==
  ASSUME NEW p \in PactIds, NEW S PROVE Promise(p)!Cardinality(S) = Cardinality(S)
BY DEF Promise!Cardinality, Cardinality

LEMMA PromisedTotal ==
  ASSUME NEW p \in PactIds, NEW f PROVE Promise(p)!TotalPaid(f) = SumOf(f, Wallets)
BY DEF Promise!TotalPaid, Promise!MapThenSumSet, Promise!MapThenFoldSet,
       SumOf, MapThenSumSet, MapThenFoldSet

LEMMA PromisedWinners ==
  ASSUME Inv, NEW p \in PactIds, pacts[p].finalized
  PROVE  Promise(p)!Winners = winners(p) /\ Promise(p)!Pool = pool(p) /\ outcomeOf(p) # "open"
<1>1. /\ AccountsOf(p) /\ joined[p] \in SUBSET Wallets /\ completed[p] \in SUBSET Wallets
  BY DEF Inv, AccountInv, Accounts, TypeOK
<1>2. pacts[p].finisherCount = 0 <=> completed[p] = {}
  BY <1>1, WalletSetsFinite, FS_EmptySet DEF AccountsOf
<1>3. outcomeOf(p) # "open" /\ (outcomeOf(p) = "refund" <=> pacts[p].cancelled)
  BY DEF outcomeOf
<1>4. winners(p) = IF pacts[p].cancelled \/ completed[p] = {} THEN joined[p] ELSE completed[p]
  BY <1>1, <1>2 DEF winners, Eligible, Refunded, AccountsOf
<1>5. Promise(p)!Winners = winners(p)
  BY <1>3, <1>4 DEF Promise!Winners
<1>6. Promise(p)!Pool = pool(p)
  BY <1>1, PromisedCardinality DEF Promise!Pool, pool, AccountsOf
<1> QED BY <1>3, <1>5, <1>6

LEMMA PayRefines ==
  ASSUME Inv, Money, Inv', Money', NEW p \in PactIds, NEW w \in Wallets, claim(p, w)
  PROVE  Promise(p)!Pay(w)
<1>0. /\ pacts \in [PactIds -> DuoPact] /\ pacts[p] \in DuoPact
      /\ claimed \in [PactIds -> SUBSET Wallets] /\ payout \in [PactIds -> [Wallets -> Nat]]
      /\ pacts'[p] \in DuoPact
  BY DEF Inv, AccountInv, TypeOK
<1>1. /\ pacts' = [pacts EXCEPT ![p].remainingPool = @ - share(p), ![p].claimsRemaining = @ - 1]
      /\ claimed' = [claimed EXCEPT ![p] = @ \cup {w}]
      /\ payout' = [payout EXCEPT ![p][w] = @ + share(p)]
      /\ pacts[p].finalized /\ w \notin claimed[p] /\ Eligible(p, w)
      /\ joined' = joined /\ completed' = completed
  BY DEF claim
<1>2. /\ pacts'[p].terms = pacts[p].terms /\ pacts'[p].finalized = pacts[p].finalized
      /\ pacts'[p].cancelled = pacts[p].cancelled
      /\ pacts'[p].participantCount = pacts[p].participantCount
      /\ pacts'[p].finisherCount = pacts[p].finisherCount
      /\ claimed'[p] = claimed[p] \cup {w}
      /\ payout'[p] = [payout[p] EXCEPT ![w] = payout'[p][w]]
      /\ payout[p][w] = 0 /\ w \in winners(p)
  BY <1>0, <1>1 DEF DuoPact, Money, MoneyOf, winners
<1>3. winners(p)' = winners(p) /\ pool(p)' = pool(p)
  BY <1>1, <1>2 DEF winners, Eligible, Refunded, pool, terms
<1>4. /\ Promise(p)!Winners = winners(p) /\ Promise(p)!Pool = pool(p) /\ outcomeOf(p) # "open"
  BY <1>1, PromisedWinners
<1>5. /\ pacts'[p].remainingPool + PaidOut(p)' = pool(p)
      /\ unpaid(p)' = {} => pacts'[p].remainingPool = 0
  BY <1>1, <1>2, <1>3, MoneyMeansNext DEF PoolConserved
<1>6. Promise(p)!FairAmount(payout'[p][w])
  <2>1. /\ w \in claimed'[p]
        /\ payout'[p][w] \in {pool(p)' \div Cardinality(winners(p)'),
                              (pool(p)' + Cardinality(winners(p)') - 1) \div Cardinality(winners(p)')}
    BY <1>2, MoneyMeansNext DEF FairShares
  <2> QED BY <1>3, <1>4, <2>1, PromisedCardinality DEF Promise!FairAmount
<1>7. Promise(p)!TotalPaid(payout'[p]) = PaidOut(p)'
  BY PromisedTotal, PaidOutIsSumNext
<1>8. PaidOut(p)' <= pool(p)
  <2>1. pacts'[p].remainingPool \in Nat
    BY <1>0 DEF DuoPact
  <2>2. PaidOut(p)' \in Int
    <3>1. \A x \in Wallets : payout'[p][x] \in Int
      BY DEF Inv, AccountInv, TypeOK
    <3> QED BY <3>1, SumIsInt, EscrowConstants, PaidOutIsSumNext
  <2> QED BY <1>5, <2>1, <2>2
<1>9. ASSUME \A v \in winners(p) : payout'[p][v] # 0
      PROVE  PaidOut(p)' = pool(p)
  <2>1. \A v \in Wallets \ claimed'[p] : payout'[p][v] = 0
    BY DEF Money, MoneyOf
  <2>2. unpaid(p)' = {}
    BY <1>3, <1>9, <2>1 DEF unpaid, winners
  <2>3. PaidOut(p)' \in Int
    <3>1. \A x \in Wallets : payout'[p][x] \in Int
      BY DEF Inv, AccountInv, TypeOK
    <3> QED BY <3>1, SumIsInt, EscrowConstants, PaidOutIsSumNext
  <2> QED BY <1>5, <2>2, <2>3
<1>10. terms(p)' = terms(p) /\ outcomeOf(p)' = outcomeOf(p)
  BY <1>2 DEF terms, outcomeOf
<1> QED BY <1>1, <1>2, <1>4, <1>6, <1>7, <1>8, <1>9, <1>10 DEF Promise!Pay

(* What a step may change of a Lock without changing its settlement.       *)
LEMMA SettlementFrame ==
  ASSUME NEW p \in PactIds, terms(p)' = terms(p), joined'[p] = joined[p],
         completed'[p] = completed[p], outcomeOf(p)' = outcomeOf(p), payout'[p] = payout[p]
  PROVE  UNCHANGED Promise(p)!svars
BY DEF Promise!svars

LEMMA StepRefines ==
  ASSUME Inv, RealTerms, Money, StartedBeforeFinished, [Next]_vars, NEW p \in PactIds
  PROVE  [Promise(p)!Next]_(Promise(p)!svars)
<1>0. /\ Inv' /\ Money' /\ pacts \in [PactIds -> DuoPact] /\ pacts[p] \in DuoPact
      /\ joined \in [PactIds -> SUBSET Wallets] /\ completed \in [PactIds -> SUBSET Wallets]
      /\ payout \in [PactIds -> [Wallets -> Nat]]
  BY InvIsInductive, MoneyIsInductive DEF Inv, AccountInv, TypeOK
<1>1. ASSUME pacts'[p] = pacts[p], joined'[p] = joined[p], completed'[p] = completed[p],
             payout'[p] = payout[p]
      PROVE  UNCHANGED Promise(p)!svars
  BY <1>1, SettlementFrame DEF terms, outcomeOf
<1>2. ASSUME NEW w \in Wallets, NEW c \in Configurations, createPact(w, c, AnyBaseline(w, c))
      PROVE  [Promise(p)!Next]_(Promise(p)!svars)
  <2>1. CASE p = nextPactId
    BY <1>2, <2>1, EnterRefines DEF Promise!Next
  <2>2. CASE p # nextPactId
    BY <1>0, <1>1, <1>2, <2>2 DEF createPact
  <2> QED BY <2>1, <2>2
<1>3. ASSUME NEW w \in Wallets, NEW q \in PactIds, joinPact(q, w, AnyBaseline(w, terms(q)))
      PROVE  [Promise(p)!Next]_(Promise(p)!svars)
  <2>1. CASE p = q
    BY <1>3, <2>1, EnterRefines DEF Promise!Next
  <2>2. CASE p # q
    BY <1>0, <1>1, <1>3, <2>2 DEF joinPact
  <2> QED BY <2>1, <2>2
<1>4. ASSUME NEW w \in Wallets, NEW q \in PactIds, submitFinal(q, w, AnyFinal(q, w))
      PROVE  [Promise(p)!Next]_(Promise(p)!svars)
  <2>1. CASE p = q
    BY <1>4, <2>1, FinishRefines DEF Promise!Next
  <2>2. CASE p # q
    BY <1>0, <1>1, <1>4, <2>2 DEF submitFinal, paidVars
  <2> QED BY <2>1, <2>2
<1>5. ASSUME NEW q \in PactIds, cancelPactByOwner(q) \/ \E w \in Wallets : cancelPact(q, w)
      PROVE  [Promise(p)!Next]_(Promise(p)!svars)
  <2>1. /\ pacts' = [pacts EXCEPT ![q].cancelled = TRUE] /\ ~pacts[q].finalized
        /\ UNCHANGED <<joined, completed, payout>>
    BY <1>5 DEF cancelPact, cancelPactByOwner, paidVars
  <2>2. CASE p = q
    <3>1. pacts'[p].terms = pacts[p].terms /\ ~pacts'[p].finalized /\ ~pacts[p].finalized
      BY <1>0, <2>1, <2>2 DEF DuoPact
    <3> QED BY <2>1, <3>1, SettlementFrame DEF terms, outcomeOf
  <2>3. CASE p # q
    BY <1>0, <1>1, <2>1, <2>3
  <2> QED BY <2>2, <2>3
<1>6. ASSUME NEW q \in PactIds, finalizePact(q)
      PROVE  [Promise(p)!Next]_(Promise(p)!svars)
  <2>1. CASE p = q
    BY <1>6, <2>1, SettleRefines DEF Promise!Next
  <2>2. CASE p # q
    BY <1>0, <1>1, <1>6, <2>2 DEF finalizePact, paidVars
  <2> QED BY <2>1, <2>2
<1>7. ASSUME NEW w \in Wallets, NEW q \in PactIds, claim(q, w)
      PROVE  [Promise(p)!Next]_(Promise(p)!svars)
  <2>1. CASE p = q
    BY <1>0, <1>7, <2>1, PayRefines DEF Promise!Next
  <2>2. CASE p # q
    BY <1>0, <1>1, <1>7, <2>2 DEF claim
  <2> QED BY <2>1, <2>2
<1>8. CASE UNCHANGED <<pacts, joined, completed, payout>>
  BY <1>1, <1>8
<1> QED BY <1>2, <1>3, <1>4, <1>5, <1>6, <1>7, <1>8
        DEF Next, PlayerNext, OwnerNext, NextBlock, setEvidenceSigner, setCreationPaused,
            setJoiningPaused, PauseCompletion, vars, lockVars, paidVars

(* Lock by Lock, LockInDuolingoEscrow.sol implements the settlement that   *)
(* README.md promises: one stake for all, no buying in once somebody has   *)
(* finished, one decision, and the whole pool to the winners in shares     *)
(* that differ by at most one base unit.                                   *)
THEOREM EscrowImplementsSettlement == Spec => ImplementsSettlement
<1>1. Init => \A p \in PactIds : Promise(p)!Init
  BY DEF Init, Promise!Init, terms, ZeroPact, ZeroTerms, outcomeOf
<1>2. Inv /\ RealTerms /\ Money /\ StartedBeforeFinished /\ [Next]_vars =>
         [\A p \in PactIds : [Promise(p)!Next]_(Promise(p)!svars)]_vars
  BY StepRefines
<1> QED BY <1>1, <1>2, InvIsInvariant, TermsAreReal, MoneyIsInvariant,
           StartedBeforeFinishedIsInvariant, PTL DEF Spec, ImplementsSettlement
=============================================================================
