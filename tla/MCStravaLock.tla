----------------------------- MODULE MCStravaLock -----------------------------
(* Model values and bounds for the Strava Lock, contract and backend.      *)
EXTENDS LockViews, TLC

CONSTANTS a, b, ann, ben, h1

lockTerms(days, required, starts) ==
    [stake |-> 3, dailyTarget |-> 1000, durationDays |-> days, requiredCompletions |-> required,
     minParticipants |-> 2, maxParticipants |-> 2, startsAt |-> starts]

TwoDays == lockTerms(2, 2, 1)
OneDay == lockTerms(1, 1, 2)
BothTerms == {TwoDays, OneDay}

activity(sport, trainer, metres, moving) ==
    [sport |-> sport, manual |-> FALSE, trainer |-> trainer, flagged |-> FALSE, gps |-> ~trainer,
     distance |-> metres, movingTime |-> moving, elapsedTime |-> moving + 60]

(* A run, a longer one on a treadmill, and a drive recorded as a run.      *)
Kinds == {activity("Run", FALSE, 3000, 1200), activity("Run", TRUE, 4000, 1500),
          activity("Run", FALSE, 9000, 600)}

OnePact == 1 .. 1
TwoPacts == 1 .. 2
Ids == 1 .. 4

(***************************************************************************)
(* Two stories, told by one run. From deployment: the owner opens the      *)
(* contract, Locks are admitted, joined, cancelled, refunded; nobody runs. *)
(* From registration: both wallets are in a Lock of two days and in one of *)
(* a single day that overlaps both, as the first story may leave them, and *)
(* what follows is runs, check-ins and settlement.                         *)
(***************************************************************************)
VARIABLE story

Symmetry == Permutations(Wallets) \cup Permutations(Identities)

registered(w, c) == [ZeroPact EXCEPT !.creator = w, !.terms = c, !.participantCount = 2]

RegisteredInit ==
    /\ now = 1
    /\ completionPaused = FALSE
    /\ completionPauseStartedAt = <<0>> /\ completionPauseEndedAt = <<0>>
    /\ creationPaused = FALSE /\ joiningPaused = FALSE
    /\ evidenceSigner \in EvidenceSigners /\ accessSigner \in AccessSigners
    /\ nextPactId = 3
    /\ \E w \in Wallets :
          pacts = [p \in PactIds |-> registered(w, IF p = 1 THEN TwoDays ELSE OneDay)]
    /\ joined = [p \in PactIds |-> Wallets] /\ claimed = [p \in PactIds |-> {}]
    /\ completionBitmap = perPlayer({})
    /\ completionCount = perPlayer(0) /\ lastMetric = perPlayer(0)
    /\ participantIdentity = perPlayer(NoIdentity)
    /\ identityOwner = [p \in PactIds |-> [i \in Identities |-> NoAddress]]
    /\ usedEventNullifiers = {} /\ completionsAccepted = {}
    /\ usedAccessNonces = 1 .. 4 /\ usedHighFives = {}
    /\ missionIdentityOwner = [i \in Identities |-> NoAddress]
    /\ scoredUtcDay = perWallet({}) /\ missionDayScored = perWallet({})
    /\ verifiedDays = perWallet(0) /\ missionVerifiedDays = perWallet(0)
    /\ lockScore = perWallet(0)
    /\ vault = 12 /\ payout = perPlayer(0)
    /\ activities = <<>>
    /\ connection \in [Wallets -> {Row(i, i) : i \in Identities}] /\ connection[a] # connection[b]
    /\ authorized = [w \in Wallets |-> {connection[w].athlete}]
    /\ handlers = [h \in Handlers |-> Idle]
    /\ accessesSigned = MaxAccesses /\ accesses = {} /\ completions = {}

MCInit ==
    \/ story = "deployment" /\ LockInit
    \/ story = "registration" /\ RegisteredInit

MCSpec == MCInit /\ [][LockNext /\ UNCHANGED story]_<<lockSystemVars, story>>

busy == {h \in Handlers : handlers[h] # Idle}
unconnected == {w \in Wallets : ~connected(w)}
moved == \E w \in Wallets : Cardinality(authorized[w]) > 1
decoys == {r \in Range(activities) : ~(outdoor(r) /\ plausible(r))}

(* Bounds of the first story: once there is a Lock the contract stays open *)
(* for creating and joining; nobody runs; completion is not paused again;  *)
(* and it ends when the second Lock was to start.                          *)
DeploymentBounds ==
    /\ nextPactId = 1 \/ ~(creationPaused \/ joiningPaused)
    /\ activities = <<>> /\ busy = {} /\ unconnected = Wallets
    /\ completionPauseGeneration = 1
    /\ now <= 2

(* Bounds of the second: the contract stays open; one activity that cannot *)
(* count, when the Locks overlap, none after the last Lock day; up to two  *)
(* check-ins of a wallet in progress or live while the Locks overlap and   *)
(* nothing else goes on, then one; one reaction, early on; athletes change *)
(* wallets one at a time, at time 2, and then there are check-ins until    *)
(* time 3, with the Locks open: of one run, and, where every row holds the *)
(* tokens of the athlete it names, of a second one that the same athlete   *)
(* records once the first is accepted; the pool of one Lock is claimed;    *)
(* once a Lock is closed, or completion paused at the moment the second    *)
(* Lock's deadline passes, there is only settlement left to do; and one    *)
(* Lock is cancelled at most, with one run behind it at most, the Lock of  *)
(* two days only once it is settled, and no pause besides.                 *)
RegistrationBounds ==
    /\ ~creationPaused /\ ~joiningPaused
    /\ Cardinality(decoys) <= 1 /\ \A r \in decoys : r.startsAt = 2
    /\ \A r \in Range(activities) : r.startsAt < endsAt(1)
    /\ Cardinality(completions) + Cardinality(busy) <=
          (IF decoys = {} /\ unconnected = {} /\ ~moved /\ now = 2 THEN 2 ELSE 1)
    /\ \A e, f \in completions : e.account = f.account
    /\ usedHighFives # {} => Cardinality(usedHighFives) = 1 /\ now <= 2
    /\ Cardinality(unconnected) <= 1
    /\ unconnected # {} => decoys = {} /\ usedHighFives = {} /\ now = 2
    /\ moved => /\ decoys = {} /\ usedHighFives = {} /\ now <= 3
                /\ ~(\E p \in PactIds : closed(p)) /\ completionPauseGeneration = 1
                /\ Len(activities) = 2 =>
                      /\ activities[1].athlete = activities[2].athlete
                      /\ usedEventNullifiers # {}
                      /\ \A w \in Wallets : connection[w].tokens = connection[w].athlete
    /\ claimed[1] = {} \/ claimed[2] = {}
    /\ completionPauseGeneration = 2 => completionPauseStartedAt[2] = submissionDeadline(2)
    /\ (\E p \in PactIds : closed(p)) \/ completionPauseGeneration = 2
           => completions = {} /\ decoys = {} /\ busy = {} /\ unconnected = {}
    /\ pacts[1].cancelled => pacts[1].finalized /\ ~pacts[2].cancelled
    /\ (\E p \in PactIds : pacts[p].cancelled) => Len(activities) <= 1 /\ completionPauseGeneration = 1

Bounds == IF story = "deployment" THEN DeploymentBounds ELSE RegistrationBounds
=============================================================================
