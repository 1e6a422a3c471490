----------------------------- MODULE StravaLock -----------------------------
(***************************************************************************)
(* The Strava Lock end to end: admission (app/api/access/route.ts), daily  *)
(* check-in (app/api/strava/checkin/route.ts, src/pact-server.ts,          *)
(* src/strava-activities.ts), and the contract of module StravaEscrow,     *)
(* which is given only the attestations the two routes signed.             *)
(*                                                                         *)
(* A check-in is a handler with a step: it reads the Lock at one block,    *)
(* then the wallet's row, then Strava, and signs; anything may happen in   *)
(* between, and any of it may fail. A client may use an attestation late,  *)
(* again, or never, until it expires.                                      *)
(*                                                                         *)
(* Strava is external: athletes record activities, which may show up late. *)
(* A wallet's row names an athlete, one wallet per athlete, and holds      *)
(* tokens, which need not be of the athlete it names (StravaConnection has *)
(* the requests behind that). Pseudonyms are what they stand for. Backend  *)
(* and chain share a clock.                                                *)
(***************************************************************************)
EXTENDS StravaEscrow, StravaActivities, Functions

CONSTANTS
    NoAthlete,
    ActivityKinds,          \* the activities athletes may record, without athlete and start
    Handlers,               \* bound of the model: check-ins in progress at a time
    MaxActivities,          \* bound of the model: activities ever recorded
    MaxAccesses,            \* bound of the model: access attestations ever signed
    UploadDelay,            \* bound of the model: how late an activity shows up
    EvidenceKey, AccessKey, \* EVIDENCE_SIGNER_PRIVATE_KEY, ACCESS_SIGNER_PRIVATE_KEY
    MinRegistration,        \* the admission route's one hour
    AccessTtl,              \* ACCESS_TTL_SECONDS
    CompletionTtl           \* the check-in route's 600 s

ActivityKind ==
    [sport : STRING, manual : BOOLEAN, trainer : BOOLEAN, flagged : BOOLEAN, gps : BOOLEAN,
     distance : Nat, movingTime : Nat, elapsedTime : Nat]

ASSUME StravaLockConstants ==
    /\ NoAthlete \notin Identities
    /\ ActivityKinds \subseteq ActivityKind
    /\ MaxActivities \in Nat /\ MaxAccesses \in Nat /\ UploadDelay \in Nat
    /\ MinRegistration \in Nat /\ AccessTtl \in Nat /\ CompletionTtl \in Nat
    /\ 1 .. MaxActivities \subseteq Nullifiers /\ 1 .. MaxAccesses \subseteq AccessNonces

VARIABLES
    activities,     \* Strava: the activities recorded; an activity's id is its position
    connection,     \* wallet -> its row: the athlete named, and whose tokens it holds
    authorized,     \* wallet -> the athletes that ever authorised it
    handlers,       \* the check-ins in progress
    accessesSigned, \* how many access attestations were ever signed
    accesses,       \* those that have not expired
    completions     \* the completion attestations that have not expired

signedVars == <<accessesSigned, accesses, completions>>
connectionVars == <<connection, authorized>>
backendVars == <<activities, connectionVars, handlers, signedVars>>
lockSystemVars == <<escrowVars, backendVars>>

Idle == [step |-> "idle"]
Row(athlete, tokens) == [athlete |-> athlete, tokens |-> tokens]
NoRow == Row(NoAthlete, NoAthlete)
connected(w) == connection[w] # NoRow

LockInit ==
    /\ EscrowInit
    /\ activities = <<>>
    /\ connection = [w \in Wallets |-> NoRow] /\ authorized = [w \in Wallets |-> {}]
    /\ handlers = [h \in Handlers |-> Idle]
    /\ accessesSigned = 0 /\ accesses = {} /\ completions = {}

-----------------------------------------------------------------------------
(* Strava.                                                                 *)

RecordActivity(athlete, kind, t) ==
    /\ Len(activities) < MaxActivities
    /\ activities' = Append(activities,
          [id |-> Len(activities) + 1, athlete |-> athlete, startsAt |-> t,
           sport |-> kind.sport, manual |-> kind.manual, trainer |-> kind.trainer,
           flagged |-> kind.flagged, gps |-> kind.gps, distance |-> kind.distance,
           movingTime |-> kind.movingTime, elapsedTime |-> kind.elapsedTime])
    /\ UNCHANGED <<escrowVars, connectionVars, handlers, signedVars>>

activitiesOf(athlete) == {a \in Range(activities) : a.athlete = athlete}

(* The callback's upsert, under the unique index on the athlete.           *)
Connect(w, athlete) ==
    /\ \A v \in Wallets \ {w} : connection[v].athlete # athlete
    /\ connection' = [connection EXCEPT ![w] = Row(athlete, athlete)]
    /\ authorized' = [authorized EXCEPT ![w] = @ \cup {athlete}]
    /\ UNCHANGED <<escrowVars, activities, handlers, signedVars>>

Disconnect(w) ==
    /\ connected(w)
    /\ connection' = [connection EXCEPT ![w] = NoRow]
    /\ UNCHANGED <<escrowVars, activities, authorized, handlers, signedVars>>

(* A refresh that started from an earlier row of the wallet writes the     *)
(* tokens it was given, whichever athlete the row names by now.            *)
RotateTokens(w, athlete) ==
    /\ connected(w)
    /\ athlete \in authorized[w]
    /\ connection' = [connection EXCEPT ![w].tokens = athlete]
    /\ UNCHANGED <<escrowVars, activities, authorized, handlers, signedVars>>

-----------------------------------------------------------------------------
(* POST access. Everything is read at one block, and nothing after it, so  *)
(* the request is one step; its block may be old when the reply is used.   *)

releaseConfiguration(c) ==
    /\ c \in Configurations
    /\ c.startsAt >= now + MinRegistration
    /\ c.startsAt <= now + MaxStartDelay

admissible(w, p) ==
    /\ Exists(p)
    /\ joinOpen(p)
    /\ w \notin joined[p]

attestation(w, action, p, configHash, nonce) ==
    [account |-> w, action |-> action, pactId |-> p, configHash |-> configHash,
     nonce |-> nonce, issuedAt |-> now, expiresAt |-> now + AccessTtl, signer |-> AccessKey]

nonceFor(p) == accessesSigned + 1       \* random: every attestation has one of its own

signAccess(w, action, p, configHash) ==
    /\ accessSigner = AccessKey
    /\ accessesSigned < MaxAccesses
    /\ accessesSigned' = accessesSigned + 1
    /\ accesses' = accesses \cup {attestation(w, action, p, configHash, nonceFor(p))}
    /\ UNCHANGED <<escrowVars, activities, connectionVars, handlers, completions>>

AdmitCreate(w, c) == releaseConfiguration(c) /\ signAccess(w, "create", 0, c)

AdmitJoin(w, p) == admissible(w, p) /\ signAccess(w, "join", p, terms(p))

-----------------------------------------------------------------------------
(* POST checkin.                                                           *)

(* loadProofPolicy: the checks the contract will make, at the latest block. *)
LoadPolicy(h, w, p, d) ==
    /\ handlers[h] = Idle
    /\ Exists(p)
    /\ ~closed(p)
    /\ w \in joined[p]
    /\ ~underfilled(p)
    /\ completionCount[p][w] < terms(p).requiredCompletions
    /\ d \in Days(p) /\ d \notin completionBitmap[p][w]
    /\ dayOpen(p, d)
    /\ handlers' = [handlers EXCEPT ![h] =
          [step |-> "loaded", wallet |-> w, pactId |-> p, dayIndex |-> d]]
    /\ UNCHANGED <<escrowVars, activities, connectionVars, signedVars>>

(* getUsableStravaAccessToken: the row as it is now, refreshed or not.     *)
ReadConnection(h) ==
    /\ handlers[h].step = "loaded"
    /\ connected(handlers[h].wallet)
    /\ LET r == handlers[h]
           row == connection[r.wallet]
       IN  handlers' = [handlers EXCEPT ![h] =
              [step |-> "connected", wallet |-> r.wallet, pactId |-> r.pactId,
               dayIndex |-> r.dayIndex, athlete |-> row.athlete, tokens |-> row.tokens]]
    /\ UNCHANGED <<escrowVars, activities, connectionVars, signedVars>>

runsOf(h) ==
    LET r == handlers[h]
        from == dayStart(r.pactId, r.dayIndex)
        to == from + DayLength
    IN  UNION {selectQualifyingRun(page, from, to, terms(r.pactId).dailyTarget) :
                  page \in pages(activitiesOf(r.tokens), from, to)}

(* fetchStravaActivities gives the runs of the tokens' athlete; what is    *)
(* signed names the row's athlete. What comes after Strava's answer reads  *)
(* nothing that the answer could be stale against.                         *)
CheckIn(h) ==
    /\ handlers[h].step = "connected"
    /\ evidenceSigner = EvidenceKey
    /\ LET r == handlers[h]
       IN  \E run \in runsOf(h) :
              completions' = completions \cup
                 {[pactId |-> r.pactId, account |-> r.wallet, dayIndex |-> r.dayIndex,
                   identityHash |-> r.athlete, eventNullifier |-> run.id,
                   metric |-> run.distance, occurredAt |-> run.startsAt,
                   issuedAt |-> now, expiresAt |-> now + CompletionTtl, signer |-> EvidenceKey]}
    /\ handlers' = [handlers EXCEPT ![h] = Idle]
    /\ UNCHANGED <<escrowVars, activities, connectionVars, accessesSigned, accesses>>

(* A rule the run does not meet, an RPC or Strava error, a time limit.     *)
EndRequest(h) ==
    /\ handlers[h] # Idle
    /\ handlers' = [handlers EXCEPT ![h] = Idle]
    /\ UNCHANGED <<escrowVars, activities, connectionVars, signedVars>>

-----------------------------------------------------------------------------

Strava ==
    \E i \in Identities :
        \/ \E kind \in ActivityKinds, t \in now - UploadDelay .. now :
              t >= 0 /\ RecordActivity(i, kind, t)
        \/ \E w \in Wallets : Connect(w, i) \/ RotateTokens(w, i)

Backend ==
    \/ \E w \in Wallets :
          \/ \E c \in Configurations : AdmitCreate(w, c)
          \/ \E p \in PactIds : AdmitJoin(w, p)
          \/ Disconnect(w)
    \/ \E h \in Handlers :
          \/ \E w \in Wallets, p \in PactIds : \E d \in Days(p) : LoadPolicy(h, w, p, d)
          \/ ReadConnection(h) \/ CheckIn(h) \/ EndRequest(h)

(* Attestations that the new block finds expired can never be used again   *)
(* and are forgotten.                                                      *)
live(attestations) == {x \in attestations : x.expiresAt >= now'}

Contract ==
    /\ EscrowNext(accesses, completions)
    /\ accesses' = live(accesses) /\ completions' = live(completions)
    /\ UNCHANGED <<activities, connectionVars, handlers, accessesSigned>>

LockNext == Contract \/ Backend \/ Strava

LockSpec == LockInit /\ [][LockNext]_lockSystemVars
=============================================================================
