----------------------- MODULE DuolingoLockProperties -----------------------
(* What the backend and the contract guarantee together. *)
EXTENDS DuolingoLock

baselineAttestations == {x \in attestations : x.kind = "baseline"}

(* Every variable of the backend keeps its type. *)
BackendTypeOK ==
    /\ xp \in [Identities -> 0 .. MaxXp]
    /\ \A q \in proofs : q.session \in DOMAIN sessions /\ q.xp \in 0 .. MaxXp /\ q.observedAt <= now
    /\ Len(sessions) <= MaxSessions
    /\ \A s \in DOMAIN sessions :
          /\ sessions[s].wallet \in Wallets
          /\ sessions[s].intent \in {"create", "join", "final"}
          /\ sessions[s].profile \in IdentitiesOf[sessions[s].wallet]
          /\ sessions[s].createdAt <= now
    /\ \A x \in attestations : x.session \in DOMAIN sessions /\ x.issuedAt <= now
    /\ \A h \in Handlers : handlers[h].step \in
          {"idle", "saving", "fetching", "signing", "refused", "reading", "signingFinal"}

(* The point of the product: who is recorded on chain as having completed  *)
(* a Lock really earned the target, on the account the stake was bound to, *)
(* between a baseline proof that backed the stake and a later proof taken  *)
(* inside the challenge; and measured from ANY baseline the backend ever   *)
(* attested for that stake, so collecting several baselines and choosing   *)
(* among them wins nothing.                                                *)
CompletionsAreEarned ==
    \A p \in PactIds : \A w \in completed[p] :
        \E f \in DOMAIN sessions : LET final == proofOf(f) IN
            /\ sessions[f].wallet = w /\ sessions[f].pactId = p /\ sessions[f].intent = "final"
            /\ proved(f)
            /\ sessions[f].profile = participantIdentity[p][w]
            /\ final.observedAt \in startsAt(p) .. endsAt(p)
            /\ \A x \in baselineAttestations :
                  x.account = w /\ x.configHash = terms(p) =>
                      /\ x.identityHash = sessions[f].profile
                      /\ proofOf(x.session).observedAt < final.observedAt
                      /\ final.xp - proofOf(x.session).xp >= terms(p).targetXp

(* A stake is never on chain without the one baseline row it will be       *)
(* measured against, for the very account the contract bound, recorded     *)
(* from the proof whose attestation the stake came with.                   *)
EveryStakeHasItsBaseline ==
    \A p \in PactIds : \A w \in joined[p] :
        /\ Cardinality(baselineRow(w, terms(p))) = 1
        /\ \A r \in baselineRow(w, terms(p)) :
              /\ r.identityHash = participantIdentity[p][w]
              /\ r.baselineXp = proofOf(r.session).xp

(* "a burned session can never leave a missing baseline"                   *)
(* (duolingo-escrow-store.ts:150): however the handler that consumed it    *)
(* ended, the row for its wallet and Lock is there.                        *)
BurnedSessionLeavesBaseline ==
    \A s \in DOMAIN sessions :
        sessions[s].consumed /\ sessions[s].intent # "final" =>
            baselineRow(sessions[s].wallet, sessions[s].configHash) # {}

(* One Reclaim session is worth one attestation, however many handlers     *)
(* were verifying it at once and whichever replies were lost.              *)
OneAttestationPerSession ==
    \A x, y \in attestations : x.session = y.session => x = y

(* A recorded baseline is there for ever, unchanged, and never gets a      *)
(* second row beside it (duolingo-escrow-store.ts:149-154).                *)
BaselinesAreFinal ==
    [][/\ baselines \subseteq baselines'
       /\ \A r \in baselines, q \in baselines' :
             r.wallet = q.wallet /\ r.configHash = q.configHash => r = q]_lockSystemVars

-----------------------------------------------------------------------------
(* What the code says of itself, and does not do.                          *)

(* "This baseline has already been recorded. Start a new one to try        *)
(* again." (verify/route.ts:154): the refused baseline is one that was     *)
(* recorded, and a new one is not refused.                                 *)
NewBaselineIsNotRefused ==
    \A h \in Handlers : handlers[h].step = "refused" =>
        \E x \in baselineAttestations : x.session = handlers[h].session

(* "a final proof captured during the challenge may still be submitted up  *)
(* to an hour after it ends" (duolingo-escrow-chain.ts:42-43): while the   *)
(* contract takes finals, the proof can still be verified.                 *)
CapturedFinalIsGoodForTheGrace ==
    \A s \in DOMAIN sessions :
        LET p == sessions[s].pactId
            stillOpen ==
                finalOpen(p, pactView(p), playerView(p, sessions[s].wallet), submissionDeadline(p))
            capturedInTime == proved(s) /\ proofOf(s).observedAt \in startsAt(p) .. endsAt(p)
        IN  sessions[s].intent = "final" /\ ~sessions[s].consumed /\ capturedInTime /\ stillOpen
                => sessionLive(s)
=============================================================================
