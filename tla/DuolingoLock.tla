---------------------------- MODULE DuolingoLock ----------------------------
(***************************************************************************)
(* The Duolingo Lock end to end: the backend that turns XP proofs into     *)
(* signed evidence (app/api/duolingo/escrow/{session,verify}/route.ts and  *)
(* src/duolingo-escrow-{store,chain,attestation}.ts), its database, and    *)
(* the contract of module DuolingoEscrow that acts on that evidence.       *)
(*                                                                         *)
(* Every request is served by a handler of its own. Handlers interleave at *)
(* their awaits, two may work on one Reclaim session (the client polls),   *)
(* and any of them may fail or be killed between two steps; what it wrote  *)
(* before stays written. A reply may be lost after it was computed.        *)
(*                                                                         *)
(* The Reclaim service is external: a session's proof is bound to its      *)
(* wallet, account and context, and carries the account's XP and the time  *)
(* of the capture. So is Duolingo: XP only grows. The HMAC pseudonym of an *)
(* account is the account. The backend's clock is the chain's.             *)
(***************************************************************************)
EXTENDS DuolingoEscrow

CONSTANTS
    Handlers,           \* bound of the model: requests in progress at a time
    MaxSessions,        \* bound of the model: Reclaim sessions ever saved
    MaxXp,              \* bound of the model: XP an account can reach
    BackendKey,         \* DUOLINGO_EVIDENCE_SIGNER_PRIVATE_KEY
    SessionTtl,         \* ESCROW_SESSION_TTL_SECONDS
    AttestationTtl      \* ESCROW_ATTESTATION_TTL_SECONDS

ASSUME BackendConstants ==
    /\ MaxSessions \in Nat /\ MaxXp \in Nat
    /\ SessionTtl \in Nat \ {0} /\ AttestationTtl \in Nat

VARIABLES
    xp,             \* Duolingo: account -> total XP
    proofs,         \* Reclaim: the proofs captured, at most one per session
    sessions,       \* duolingo_escrow_sessions, in the order they were saved
    baselines,      \* duolingo_escrow_baselines
    finals,         \* duolingo_escrow_finals
    handlers,       \* the requests in progress
    attestations    \* every attestation signed and recorded, and whether its
                    \* reply reached the client

dbVars == <<sessions, baselines, finals>>
backendVars == <<proofs, dbVars, handlers, attestations>>
contractVars == <<now, pauseVars, adminVars, lockVars, completed, usedNullifiers, paidVars>>
lockSystemVars == <<contractVars, xp, backendVars>>

Idle == [step |-> "idle"]

(* The contract as the owner opens it for players, before the first block. *)
LockInit ==
    /\ now = 0
    /\ completionPaused = FALSE
    /\ completionPauseStartedAt = <<0>> /\ completionPauseEndedAt = <<0>>
    /\ creationPaused = FALSE /\ joiningPaused = FALSE
    /\ evidenceSigner \in Signers
    /\ nextPactId = 1
    /\ pacts = [p \in PactIds |-> ZeroPact]
    /\ joined = [p \in PactIds |-> {}] /\ completed = [p \in PactIds |-> {}]
    /\ participantIdentity = [p \in PactIds |-> [w \in Wallets |-> NoIdentity]]
    /\ identityOwner = [p \in PactIds |-> [i \in Identities |-> NoAddress]]
    /\ claimed = [p \in PactIds |-> {}]
    /\ usedNullifiers = {} /\ vault = 0
    /\ payout = [p \in PactIds |-> [w \in Wallets |-> 0]]
    /\ xp = [i \in Identities |-> 0]
    /\ proofs = {} /\ sessions = <<>> /\ baselines = {} /\ finals = {}
    /\ handlers = [h \in Handlers |-> Idle]
    /\ attestations = {}

-----------------------------------------------------------------------------
(* The player's account and its proofs (Duolingo and Reclaim, external).   *)

Practise(i) ==
    /\ xp[i] < MaxXp
    /\ xp' = [xp EXCEPT ![i] = @ + 1]
    /\ UNCHANGED <<contractVars, backendVars>>

proofOf(s) == CHOOSE q \in proofs : q.session = s
proved(s) == \E q \in proofs : q.session = s

Capture(s) ==
    /\ ~proved(s)
    /\ proofs' = proofs \cup
          {[session |-> s, xp |-> xp[sessions[s].profile], observedAt |-> now]}
    /\ UNCHANGED <<contractVars, xp, dbVars, handlers, attestations>>

-----------------------------------------------------------------------------
(* What the backend reads.                                                 *)

baselineRow(w, configHash) ==
    {r \in baselines : r.wallet = w /\ r.configHash = configHash}

sessionLive(s) == ~sessions[s].consumed /\ sessions[s].createdAt > now - SessionTtl

pactView(p) ==
    [cancelled |-> pacts[p].cancelled, finalized |-> pacts[p].finalized,
     participantCount |-> pacts[p].participantCount]

playerView(p, w) ==
    [joined |-> w \in joined[p], completed |-> w \in completed[p],
     identity |-> participantIdentity[p][w]]

(* assertEscrowFinalOpen, on the views that were read. *)
finalOpen(p, pact, player, limit) ==
    /\ player.joined /\ ~player.completed
    /\ ~pact.cancelled /\ ~pact.finalized
    /\ pact.participantCount >= terms(p).minParticipants
    /\ now >= startsAt(p) /\ now < limit

-----------------------------------------------------------------------------
(* POST session: what is read from the chain, then the row that is saved.  *)

Opening(h, w, intent, p, c, i) ==
    /\ handlers[h] = Idle
    /\ handlers' = [handlers EXCEPT ![h] =
          [step |-> "saving", wallet |-> w, intent |-> intent, pactId |-> p, configHash |-> c,
           profile |-> i]]
    /\ UNCHANGED <<contractVars, xp, proofs, dbVars, attestations>>

(* A random createNonce is one nobody has seen. *)
freshNonce(n) ==
    /\ \A s \in DOMAIN sessions : sessions[s].configHash.createNonce # n
    /\ \A h \in Handlers : handlers[h].step = "saving" => handlers[h].configHash.createNonce # n

OpenCreate(h, w, i, c) ==
    /\ freshNonce(c.createNonce)
    /\ configurationOK(c)
    /\ Opening(h, w, "create", 0, c, i)

OpenJoin(h, w, i, p) ==
    /\ Exists(p)
    /\ joinOpen(p)
    /\ w \notin joined[p]
    /\ Opening(h, w, "join", p, terms(p), i)

OpenFinal(h, w, i, p) ==
    /\ Exists(p)
    /\ finalOpen(p, pactView(p), playerView(p, w), endsAt(p))
    /\ \E r \in baselineRow(w, terms(p)) : r.identityHash = i
    /\ Opening(h, w, "final", p, terms(p), i)

saveEscrowSession(opened) ==
    sessions' = Append(sessions,
        [wallet |-> opened.wallet, intent |-> opened.intent, pactId |-> opened.pactId,
         configHash |-> opened.configHash, profile |-> opened.profile,
         createdAt |-> now, consumed |-> FALSE])

SaveSession(h) ==
    /\ handlers[h].step = "saving"
    /\ Len(sessions) < MaxSessions
    /\ saveEscrowSession(handlers[h])
    /\ handlers' = [handlers EXCEPT ![h] = Idle]
    /\ UNCHANGED <<contractVars, xp, proofs, baselines, finals, attestations>>

-----------------------------------------------------------------------------
(* POST verify.                                                            *)

(* Consumes the session whatever the INSERT that shares its statement does. *)
consume(s) == sessions' = [sessions EXCEPT ![s].consumed = TRUE]

Bug_BeginVerify(h, s) ==   \* bug: the session is consumed when it is loaded
    /\ handlers[h] = Idle
    /\ sessionLive(s)
    /\ consume(s)
    /\ handlers' = [handlers EXCEPT ![h] = [step |-> "fetching", session |-> s]]
    /\ UNCHANGED <<contractVars, xp, proofs, baselines, finals, attestations>>

(* The session is loaded; from here on the handler works on its copy.      *)
BeginVerify(h, s) ==
    /\ handlers[h] = Idle
    /\ sessionLive(s)
    /\ handlers' = [handlers EXCEPT ![h] = [step |-> "fetching", session |-> s]]
    /\ UNCHANGED <<contractVars, xp, proofs, dbVars, attestations>>

(* Reclaim is asked for the proof; without one the answer is "pending"     *)
(* (EndRequest). A valid proof says what its session says.                 *)
FetchProof(h) ==
    /\ handlers[h].step = "fetching"
    /\ LET s == handlers[h].session
       IN  /\ proved(s)
           /\ handlers' = [handlers EXCEPT ![h] =
                 [step |-> IF sessions[s].intent = "final" THEN "reading" ELSE "signing",
                  session |-> s, since |-> now, pact |-> {}, player |-> {}]]
    /\ UNCHANGED <<contractVars, xp, proofs, dbVars, attestations>>

Bug_canInsertBaseline(s) == TRUE   \* bug: the primary key is per session
canInsertBaseline(s) == baselineRow(sessions[s].wallet, sessions[s].configHash) = {}
Bug_recordable(s) == TRUE          \* bug: consumed_at is not part of the UPDATE's condition
recordable(s) == ~sessions[s].consumed

baselineNullifier(s) ==
    IF sessions[s].intent = "create"
    THEN <<sessions[s].profile, "create", sessions[s].configHash.createNonce>>
    ELSE <<sessions[s].profile, "join", sessions[s].pactId>>

(* issuedAt is the time of the signature, some moment since the handler    *)
(* last looked at the clock.                                               *)
signingTimes(h) == handlers[h].since .. now

buildBaselineAttestation(s, issuedAt, delivered) ==
    [kind |-> "baseline", session |-> s, delivered |-> delivered,
     account |-> sessions[s].wallet, configHash |-> sessions[s].configHash,
     identityHash |-> sessions[s].profile, nullifier |-> baselineNullifier(s),
     issuedAt |-> issuedAt, expiresAt |-> issuedAt + AttestationTtl, signer |-> BackendKey]

RecordBaseline(h, delivered) ==
    /\ handlers[h].step = "signing"
    /\ LET s == handlers[h].session
           row == sessions[s]
       IN  /\ recordable(s) /\ canInsertBaseline(s)
           /\ row.intent \in {"create", "join"}
           /\ consume(s)
           /\ baselines' = baselines \cup
                 {[wallet |-> row.wallet, configHash |-> row.configHash, session |-> s,
                   identityHash |-> row.profile, baselineXp |-> proofOf(s).xp,
                   baselineObservedAt |-> proofOf(s).observedAt]}
           /\ \E issuedAt \in signingTimes(h) :
                 attestations' = attestations \cup {buildBaselineAttestation(s, issuedAt, delivered)}
    /\ handlers' = [handlers EXCEPT ![h] = Idle]
    /\ UNCHANGED <<contractVars, xp, proofs, finals>>

(* "This baseline has already been recorded. Start a new one to try again." *)
RefuseBaseline(h) ==
    /\ handlers[h].step = "signing"
    /\ LET s == handlers[h].session
       IN  /\ ~(recordable(s) /\ canInsertBaseline(s))
           /\ sessions[s].intent \in {"create", "join"}
           /\ consume(s)
    /\ handlers' = [handlers EXCEPT ![h] = [step |-> "refused", session |-> handlers[h].session]]
    /\ UNCHANGED <<contractVars, xp, proofs, baselines, finals, attestations>>

(* readEscrowPact: unpinned reads in parallel, so what the contract says   *)
(* of the Lock and what it says of the player may be of different blocks.  *)
ReadPact(h) ==
    /\ handlers[h].step = "reading" /\ handlers[h].pact = {}
    /\ handlers' = [handlers EXCEPT ![h].pact =
          {pactView(sessions[handlers[h].session].pactId)}]
    /\ UNCHANGED <<contractVars, xp, proofs, dbVars, attestations>>

ReadPlayer(h) ==
    /\ handlers[h].step = "reading" /\ handlers[h].player = {}
    /\ LET row == sessions[handlers[h].session]
       IN  handlers' = [handlers EXCEPT ![h].player = {playerView(row.pactId, row.wallet)}]
    /\ UNCHANGED <<contractVars, xp, proofs, dbVars, attestations>>

(* validateDuolingoDelta and the checks around it, for the proof of        *)
(* session s against a baseline row.                                       *)
Bug_earnedXp(s, row) == proofOf(s).xp   \* bug: the total, not the difference
earnedXp(s, row) == proofOf(s).xp - row.baselineXp

deltaOK(s, row) ==
    LET p == sessions[s].pactId
    IN  /\ proofOf(s).observedAt >= startsAt(p) /\ proofOf(s).observedAt <= endsAt(p)
        /\ proofOf(s).observedAt > row.baselineObservedAt
        /\ earnedXp(s, row) >= terms(p).targetXp

sameAccount(s, row, player) ==
    sessions[s].profile = row.identityHash /\ player.identity = row.identityHash

CheckFinal(h) ==
    /\ handlers[h].step = "reading"
    /\ LET s == handlers[h].session
           p == sessions[s].pactId
       IN  /\ \E pact \in handlers[h].pact, player \in handlers[h].player :
                 \E row \in baselineRow(sessions[s].wallet, terms(p)) :
                    /\ finalOpen(p, pact, player, submissionDeadline(p))
                    /\ sameAccount(s, row, player)
                    /\ deltaOK(s, row)
           /\ handlers' = [handlers EXCEPT ![h] =
                 [step |-> "signingFinal", session |-> s, since |-> now]]
    /\ UNCHANGED <<contractVars, xp, proofs, dbVars, attestations>>

finalNullifier(s) == <<sessions[s].profile, "final", sessions[s].pactId>>

buildFinalAttestation(s, row, issuedAt, delivered) ==
    [kind |-> "final", session |-> s, delivered |-> delivered,
     pactId |-> sessions[s].pactId, account |-> sessions[s].wallet,
     identityHash |-> sessions[s].profile, nullifier |-> finalNullifier(s),
     earnedXp |-> earnedXp(s, row), targetXp |-> terms(sessions[s].pactId).targetXp,
     occurredAt |-> proofOf(s).observedAt,
     issuedAt |-> issuedAt, expiresAt |-> issuedAt + AttestationTtl, signer |-> BackendKey]

(* The finals row is upserted; the attestation is what counts.             *)
consumeAndSaveFinal(s, row) ==
    LET w == sessions[s].wallet
        p == sessions[s].pactId
    IN  /\ recordable(s)
        /\ consume(s)
        /\ finals' = {r \in finals : ~(r.wallet = w /\ r.pactId = p)} \cup
              {[wallet |-> w, pactId |-> p, session |-> s, earnedXp |-> earnedXp(s, row)]}

RecordFinal(h, delivered) ==
    /\ handlers[h].step = "signingFinal"
    /\ LET s == handlers[h].session
       IN  \E row \in baselineRow(sessions[s].wallet, terms(sessions[s].pactId)) :
              /\ consumeAndSaveFinal(s, row)
              /\ \E issuedAt \in signingTimes(h) :
                    attestations' = attestations \cup {buildFinalAttestation(s, row, issuedAt, delivered)}
    /\ handlers' = [handlers EXCEPT ![h] = Idle]
    /\ UNCHANGED <<contractVars, xp, proofs, baselines>>

(* A check that fails, an RPC or database error, the 60 s limit or a crash *)
(* ends a request; nothing is undone.                                      *)
EndRequest(h) ==
    /\ handlers[h] # Idle
    /\ handlers' = [handlers EXCEPT ![h] = Idle]
    /\ UNCHANGED <<contractVars, xp, proofs, dbVars, attestations>>

-----------------------------------------------------------------------------
(* The contract, given only evidence the backend signed and the player got. *)

received(kind) == {x \in attestations : x.kind = kind /\ x.delivered}

OnChain ==
    \/ \E w \in Wallets :
          \/ \E c \in Configurations : createPact(w, c, received("baseline"))
          \/ \E p \in PactIds :
                \/ joinPact(p, w, received("baseline"))
                \/ submitFinal(p, w, {x \in received("final") : x.pactId = p})
                \/ cancelPact(p, w)
                \/ claim(p, w)
    \/ \E p \in PactIds : finalizePact(p)
    \/ \E paused \in BOOLEAN : PauseCompletion(paused)
    \/ NextBlock

Backend(h) ==
    \/ \E w \in Wallets, i \in Identities : i \in IdentitiesOf[w] /\
          \/ \E c \in Configurations : OpenCreate(h, w, i, c)
          \/ \E p \in PactIds : OpenJoin(h, w, i, p) \/ OpenFinal(h, w, i, p)
    \/ SaveSession(h)
    \/ \E s \in DOMAIN sessions : BeginVerify(h, s)
    \/ \E delivered \in BOOLEAN : RecordBaseline(h, delivered) \/ RecordFinal(h, delivered)
    \/ RefuseBaseline(h)
    \/ FetchProof(h)
    \/ ReadPact(h) \/ ReadPlayer(h) \/ CheckFinal(h)
    \/ EndRequest(h)

LockNext ==
    \/ OnChain /\ UNCHANGED <<xp, backendVars>>
    \/ \E h \in Handlers : Backend(h)
    \/ \E i \in Identities : Practise(i)
    \/ \E s \in DOMAIN sessions : Capture(s)

LockSpec == LockInit /\ [][LockNext]_lockSystemVars
=============================================================================
