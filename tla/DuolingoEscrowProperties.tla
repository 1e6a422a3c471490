---------------------- MODULE DuolingoEscrowProperties ----------------------
(***************************************************************************)
(* What LockInDuolingoEscrow.sol owes the people whose stake it holds.     *)
(***************************************************************************)
EXTENDS DuolingoEscrow, FiniteSetsExt

(* Every variable keeps its type. *)
TypeOK ==
    /\ PausesTypeOK
    /\ creationPaused \in BOOLEAN /\ joiningPaused \in BOOLEAN
    /\ evidenceSigner \in Signers
    /\ nextPactId \in Nat \ {0}
    /\ pacts \in [PactIds -> DuoPact]
    /\ joined \in [PactIds -> SUBSET Wallets]
    /\ completed \in [PactIds -> SUBSET Wallets]
    /\ participantIdentity \in [PactIds -> [Wallets -> Identities \cup {NoIdentity}]]
    /\ identityOwner \in [PactIds -> [Identities -> Wallets \cup {NoAddress}]]
    /\ claimed \in [PactIds -> SUBSET Wallets]
    /\ usedNullifiers \subseteq Nullifiers
    /\ vault \in Int
    /\ payout \in [PactIds -> [Wallets -> Nat]]

-----------------------------------------------------------------------------
(* Money.                                                                  *)

pool(p) == terms(p).stake * pacts[p].participantCount
winners(p) == {w \in Wallets : Eligible(p, w)}
unpaid(p) == winners(p) \ claimed[p]

PaidOut(p) ==
    LET paid(w) == payout[p][w] IN MapThenSumSet(paid, Wallets)

Owed(p) == IF pacts[p].finalized THEN pacts[p].remainingPool ELSE pool(p)

(* The contract's token balance is exactly what it still owes, over all    *)
(* Locks together: no Lock is ever paid from another one's stakes, however *)
(* joins, cancellations, settlements and claims of the Locks interleave.   *)
Solvent == vault = MapThenSumSet(Owed, PactIds)

(* The counters claims divide by describe the sets they were counted from: *)
(* a settled Lock expects exactly the claims its winners still have to     *)
(* make, so no claim divides by zero and the last one empties the pool.    *)
CountersMatch ==
    \A p \in PactIds :
        /\ pacts[p].participantCount = Cardinality(joined[p])
        /\ pacts[p].finisherCount = Cardinality(completed[p])
        /\ completed[p] \subseteq joined[p]
        /\ pacts[p].claimsRemaining =
              IF pacts[p].finalized THEN Cardinality(unpaid(p)) ELSE 0

(* Nothing is stranded or created by rounding: at every point between two  *)
(* claims the pool is split into what was paid and what remains, and once  *)
(* the last winner has claimed nothing remains.                            *)
PoolConserved ==
    \A p \in PactIds : pacts[p].finalized =>
        /\ pacts[p].remainingPool + PaidOut(p) = pool(p)
        /\ unpaid(p) = {} => pacts[p].remainingPool = 0

(* The order of claims cannot favour anybody by more than the one base     *)
(* unit rounding leaves, a refund is exactly the stake, and a winner never *)
(* gets back less than was staked.                                         *)
FairShares ==
    \A p \in PactIds : \A w \in claimed[p] :
        LET n == Cardinality(winners(p))
        IN  /\ payout[p][w] \in {pool(p) \div n, (pool(p) + n - 1) \div n}
            /\ Refunded(p) => payout[p][w] = terms(p).stake
            /\ payout[p][w] >= terms(p).stake

-----------------------------------------------------------------------------
(* Evidence.                                                               *)

(* A proof is good for one effect, on one Lock: the nullifiers used are as *)
(* many as the stakes taken and the finals accepted, over all Locks.       *)
OneProofOneEffect ==
    LET effects(p) == Cardinality(joined[p]) + Cardinality(completed[p])
    IN  Cardinality(usedNullifiers) = MapThenSumSet(effects, PactIds)

(* Within a Lock a Duolingo account plays for one wallet, and the two maps *)
(* that say so are inverses of one another on exactly the joined wallets.  *)
OneIdentityOnePlayer ==
    \A p \in PactIds :
        /\ \A w \in Wallets : w \in joined[p] <=> participantIdentity[p][w] # NoIdentity
        /\ \A i \in Identities, w \in Wallets :
              identityOwner[p][i] = w <=> participantIdentity[p][w] = i

-----------------------------------------------------------------------------
(* Time.                                                                   *)

(* A Lock settled as played had a submission window no completion pause    *)
(* touched, and no pause that comes later can ever contradict it.          *)
PlayedMeansUnpaused ==
    \A p \in PactIds : pacts[p].finalized /\ ~pacts[p].cancelled =>
        ~SomePauseOverlaps(startsAt(p), submissionDeadline(p))

verdict(p) ==
    [refund |-> pacts[p].cancelled \/ refundDue(p), finishers |-> completed[p],
     players |-> joined[p]]

ownerCancels(p) ==
    /\ ~pacts[p].finalized /\ ~pacts'[p].finalized
    /\ ~pacts[p].cancelled /\ pacts'[p].cancelled

(* From its deadline on the outcome of a Lock is decided, however late     *)
(* somebody finalizes it: no final, no join, no pause or unpause changes   *)
(* who gets what. The owner's cancellation is the one exception the code   *)
(* has (cancelPactByOwner has no time limit).                              *)
OutcomeFrozenAtDeadline ==
    [][\A p \in PactIds :
          Exists(p) /\ now >= submissionDeadline(p) /\ ~ownerCancels(p)
              => verdict(p)' = verdict(p)]_vars

(* Whatever the owner pauses, cancels or forgets, every stake ends with    *)
(* its wallet paid, or with a settlement that made others the winners. The *)
(* clock of the model stops at MaxTime, so only Locks that end by then.    *)
EveryStakeIsSettled ==
    \A p \in PactIds, w \in Wallets :
        w \in joined[p] /\ submissionDeadline(p) <= MaxTime
            ~> pacts[p].finalized /\ (w \in claimed[p] \/ ~Eligible(p, w))

-----------------------------------------------------------------------------
(* How far the settlement of a Lock has got, as module Settlement sees it. *)
outcomeOf(p) ==
    IF ~pacts[p].finalized THEN "open" ELSE IF pacts[p].cancelled THEN "refund" ELSE "split"

(* The contract implements, Lock by Lock, the settlement it promises.      *)
Promise(p) == INSTANCE Settlement WITH
    Players <- Wallets, stake <- terms(p).stake, players <- joined[p],
    finishers <- completed[p], outcome <- outcomeOf(p), paid <- payout[p]

ImplementsSettlement ==
    /\ \A p \in PactIds : Promise(p)!Init
    /\ [][\A p \in PactIds : [Promise(p)!Next]_(Promise(p)!svars)]_vars
=============================================================================
