------------------------------ MODULE LockViews ------------------------------
(***************************************************************************)
(* What people are shown of the Locks, as functions of the contract's      *)
(* state: the Lock page (components/pact-dashboard.tsx, pact-crew.tsx),    *)
(* the list of open Locks (pact-discovery.tsx), and the operator's scripts *)
(* scripts/canary.ts (snapshot, reconcile) and scripts/cancel-pact.ts.     *)
(* Each recomputes from the raw fields what the contract decides, with     *)
(* conditions of its own. A view is taken of the latest block; that it may *)
(* be old when it is acted on is what the contract's own guards are for.   *)
(*                                                                         *)
(* Whether joining and checking in are offered at all the page asks of the *)
(* health route, whose answer follows flags, checks and a cache besides    *)
(* the contract's switches (module ReleaseHealth): here it may be any.     *)
(***************************************************************************)
EXTENDS StravaLockProperties

-----------------------------------------------------------------------------
(* components/pact-dashboard.tsx                                           *)

ProductActions == [join : BOOLEAN, checkIns : BOOLEAN]

registration(p) == now < startsAt(p) /\ ~pacts[p].cancelled
full(p) == pacts[p].participantCount >= terms(p).maxParticipants

Bug_shownUnderfilled(p) ==   \* bug: a crew of just the minimum counts as short
    ~registration(p) /\ pacts[p].participantCount <= terms(p).minParticipants /\ ~closed(p)

shownUnderfilled(p) ==
    ~registration(p) /\ pacts[p].participantCount < terms(p).minParticipants /\ ~closed(p)

active(p) == ~registration(p) /\ now < endsAt(p) /\ ~shownUnderfilled(p) /\ ~closed(p)
graceOpen(p) ==
    /\ now >= endsAt(p) /\ now < submissionDeadline(p)
    /\ ~shownUnderfilled(p) /\ ~closed(p)
canSettle(p) == pacts[p].cancelled \/ shownUnderfilled(p) \/ now >= submissionDeadline(p)
targetReached(p, w) == completionCount[p][w] >= terms(p).requiredCompletions
payoutEligible(p, w) ==
    w \in joined[p] /\ (pacts[p].cancelled \/ pacts[p].finisherCount = 0 \/ targetReached(p, w))

submissionOpenForDay(p, d) ==
    now >= dayStart(p, d) /\ now < dayStart(p, d) + DayLength + SubmissionGrace

openDays(p, w) == {d \in Days(p) : submissionOpenForDay(p, d) /\ d \notin completionBitmap[p][w]}

canCheckIn(p, w, actions) ==
    /\ actions.checkIns /\ w \in joined[p] /\ ~targetReached(p, w)
    /\ ~closed(p) /\ ~shownUnderfilled(p)
    /\ openDays(p, w) # {}

status(p) ==
    CASE pacts[p].finalized /\ pacts[p].cancelled -> "refund-ready"
      [] pacts[p].finalized /\ ~pacts[p].cancelled -> "finalized"
      [] ~pacts[p].finalized /\ pacts[p].cancelled -> "cancelled"
      [] ~closed(p) /\ registration(p) -> "registration"
      [] ~closed(p) /\ shownUnderfilled(p) -> "underfilled"
      [] active(p) -> "active"
      [] graceOpen(p) -> "submission-grace"
      [] OTHER -> "settlement-ready"

(* The buttons.                                                            *)
joinButton(p, w, actions) == w \notin joined[p] /\ registration(p) /\ ~full(p) /\ actions.join
cancelButton(p, w) == w \in joined[p] /\ registration(p) /\ w = pacts[p].creator
settleButton(p) == ~pacts[p].finalized /\ canSettle(p)
claimButton(p, w) == pacts[p].finalized /\ payoutEligible(p, w) /\ w \notin claimed[p]
dayButton(p, w, d, actions) ==
    /\ actions.checkIns /\ w \in joined[p] /\ ~targetReached(p, w)
    /\ ~closed(p) /\ ~shownUnderfilled(p)
    /\ d \notin completionBitmap[p][w] /\ submissionOpenForDay(p, d)

(* components/pact-crew.tsx: the days of another player still to applaud.  *)
highFiveDays(p, w, to) ==
    IF w \notin joined[p] \/ to = w \/ completionCount[p][to] = 0 THEN {}
    ELSE {d \in Days(p) : d \in completionBitmap[p][to] /\ <<p, w, to, d>> \notin usedHighFives}

(* components/pact-discovery.tsx: the Locks still forming, among the last. *)
CONSTANT DiscoveryLimit
recentPactIds == {p \in PactIds : p < nextPactId /\ p >= nextPactId - DiscoveryLimit}
openPacts == {p \in recentPactIds : ~(startsAt(p) <= now) /\ ~full(p) /\ ~closed(p)}

-----------------------------------------------------------------------------
(* scripts/canary.ts                                                       *)

(* Tokens sent to the contract past its functions, which look only at what *)
(* a transfer of their own changes: they stay there and change nothing     *)
(* but the balance the script reads.                                       *)
CONSTANT Surpluses
ASSUME SurplusAssumption == Surpluses \subseteq Nat

pactState(p) ==
    CASE pacts[p].finalized /\ pacts[p].cancelled -> "refund-ready"
      [] pacts[p].finalized /\ ~pacts[p].cancelled -> "finalized"
      [] ~pacts[p].finalized /\ pacts[p].cancelled -> "cancelled"
      [] ~closed(p) /\ now < startsAt(p) -> "registration"
      [] ~closed(p) /\ now >= startsAt(p) ->
            IF pacts[p].participantCount < terms(p).minParticipants THEN "underfilled"
            ELSE IF now < endsAt(p) THEN "active"
            ELSE IF now < endsAt(p) + SubmissionGrace THEN "submission-grace"
            ELSE "settlement-ready"

liabilityFor(p) ==
    IF pacts[p].finalized THEN pacts[p].remainingPool
                          ELSE terms(p).stake * pacts[p].participantCount

capacityValid(p) ==
    /\ terms(p).maxParticipants >= terms(p).minParticipants
    /\ pacts[p].participantCount <= terms(p).maxParticipants

accountingFieldsValid(p) ==
    IF pacts[p].finalized
    THEN pacts[p].claimsRemaining > 0 \/ pacts[p].remainingPool = 0
    ELSE pacts[p].claimsRemaining = 0 /\ pacts[p].remainingPool = 0

(* The two wallets of the canary are all the wallets there are.            *)
walletsCoverAllParticipants(p) == Cardinality(joined[p] \cap Wallets) = pacts[p].participantCount

contractBalance(surplus) == vault + surplus

reconcile(surplus) ==
    LET ids == 1 .. nextPactId - 1 IN
    /\ \A p \in ids : Exists(p) /\ capacityValid(p) /\ accountingFieldsValid(p)
    /\ \A p \in ids : walletsCoverAllParticipants(p)
    /\ contractBalance(surplus) = MapThenSumSet(liabilityFor, ids)

snapshotOK(p) == capacityValid(p) /\ accountingFieldsValid(p) /\ pacts[p].creator \in joined[p]

-----------------------------------------------------------------------------
(* scripts/cancel-pact.ts                                                  *)

refundConversionGone(p) == pacts[p].finalized /\ ~pacts[p].cancelled
incidentVerified(p) == pacts[p].cancelled /\ pacts[p].finalized

functionNames(p) ==
    IF pacts[p].finalized THEN <<>>
    ELSE IF pacts[p].cancelled THEN <<"finalizePact">> ELSE <<"cancelPactByOwner", "finalizePact">>

-----------------------------------------------------------------------------

(* In every state the chain can be in, the operator's reconciliation finds *)
(* nothing wrong but what somebody sent to the contract unasked: the ids   *)
(* are contiguous, the counters possible, and what the contract took and   *)
(* has not paid is to the last unit what its Locks still owe.              *)
CanaryReconciles ==
    /\ \A surplus \in Surpluses : reconcile(surplus) <=> surplus = 0
    /\ \A p \in 1 .. nextPactId - 1 : snapshotOK(p)

(* Each view finds out for itself what the contract would take, and the    *)
(* views agree on how far a Lock has got. What the health route has no say *)
(* in is offered if and only if the call passes the contract's guards; of  *)
(* a join or a check-in that holds, whatever the route answered, as far as *)
(* the answer and the contract's switch allow it. VERIFY is offered when   *)
(* some day would be taken, in the grace time for the last day alone, and  *)
(* the incident plan lists the calls that end in a refund.                 *)
PagesMatchContract ==
    \A p \in 1 .. nextPactId - 1 :
        /\ status(p) = pactState(p)
        /\ settleButton(p) <=> finalizable(p)
        /\ p \in recentPactIds => (p \in openPacts <=> joinOpen(p))
        /\ status(p) = "submission-grace" =>
              {d \in Days(p) : submissionOpenForDay(p, d)} = {terms(p).durationDays - 1}
        /\ \A w \in Wallets :
              /\ cancelButton(p, w) <=> cancellable(p, w)
              /\ claimButton(p, w) <=> claimable(p, w)
              /\ \A to \in joined[p] : \A d \in completionBitmap[p][to] :
                    d \in highFiveDays(p, w, to) <=> reactable(p, w, to, d)
        /\ \A w \in Wallets, actions \in ProductActions :
              /\ joinButton(p, w, actions) /\ ~joiningPaused <=> actions.join /\ joinable(p, w)
              /\ \A d \in Days(p) :
                    dayButton(p, w, d, actions) /\ ~completionPaused
                       <=> actions.checkIns /\ completable(p, w, d)
              /\ canCheckIn(p, w, actions) /\ ~completionPaused
                    <=> actions.checkIns /\ \E d \in Days(p) : completable(p, w, d)
        /\ LET calls == functionNames(p) IN
              \/ refundConversionGone(p) \/ incidentVerified(p)
              \/ calls = <<"finalizePact">> /\ finalizable(p) /\ pacts[p].cancelled
              \/ calls = <<"cancelPactByOwner", "finalizePact">> /\ ~closed(p)
=============================================================================
