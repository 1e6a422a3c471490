------------------------- MODULE DuolingoLockProofs -------------------------
(***************************************************************************)
(* What is proved of the Duolingo Lock end to end, for any number of       *)
(* wallets, accounts, Locks, sessions and requests in progress.            *)
(***************************************************************************)
EXTENDS DuolingoLockProperties, FiniteSetTheorems, SequenceTheorems, TLAPS

(* A session's one proof is the one that is found.                         *)
LEMMA TheOneProof ==
  ASSUME NEW P, NEW q \in P, \A r, t \in P : r.session = t.session => r = t
  PROVE  (CHOOSE r \in P : r.session = q.session) = q
OBVIOUS

-----------------------------------------------------------------------------
(* The inductive invariant, part by part.                                  *)

(* The contract, as far as the backend's promises depend on it.            *)
ChainShape ==
    /\ now \in Nat /\ nextPactId \in Nat
    /\ DOMAIN pacts = PactIds
    /\ joined \in [PactIds -> SUBSET Wallets]
    /\ completed \in [PactIds -> SUBSET Wallets]
    /\ participantIdentity \in [PactIds -> [Wallets -> Identities \cup {NoIdentity}]]
    /\ \A p \in PactIds :
          /\ "creator" \in DOMAIN pacts[p] /\ "terms" \in DOMAIN pacts[p]
          /\ terms(p) \in Configurations \cup {ZeroTerms}
          /\ p >= nextPactId => ~Exists(p)
          /\ ~Exists(p) => joined[p] = {}
          /\ completed[p] \subseteq joined[p]

SessionRow ==
    [wallet : Wallets, intent : {"create", "join", "final"}, pactId : PactIds \cup {0},
     configHash : Configurations \cup {ZeroTerms}, profile : Identities, createdAt : Nat,
     consumed : BOOLEAN]

SessionsOK ==
    /\ sessions \in Seq(SessionRow) /\ Len(sessions) <= MaxSessions
    /\ \A s \in DOMAIN sessions :
          /\ sessions[s].profile \in IdentitiesOf[sessions[s].wallet]
          /\ sessions[s].createdAt <= now
          /\ sessions[s].intent = "final" =>
                sessions[s].pactId \in PactIds /\ Exists(sessions[s].pactId)

ProofsOK ==
    /\ xp \in [Identities -> 0 .. MaxXp]
    /\ \A q \in proofs : q.session \in DOMAIN sessions /\ q.xp \in 0 .. MaxXp
                         /\ q.observedAt \in Nat /\ q.observedAt <= now
    /\ \A q, r \in proofs : q.session = r.session => q = r

(* Session s stands for a final proof that earned its Lock's target over   *)
(* the baseline row of its wallet, on that row's account.                  *)
Earned(s) ==
    /\ s \in DOMAIN sessions /\ sessions[s].intent = "final"
    /\ proved(s)
    /\ \E row \in baselineRow(sessions[s].wallet, terms(sessions[s].pactId)) :
          deltaOK(s, row) /\ sessions[s].profile = row.identityHash

BeforeItsRow ==
    [step : {"saving"}, wallet : Wallets, intent : {"create", "join", "final"},
     pactId : PactIds \cup {0}, configHash : Configurations \cup {ZeroTerms}, profile : Identities]

SavingOK(r) ==
    /\ r \in BeforeItsRow /\ r.profile \in IdentitiesOf[r.wallet]
    /\ r.intent = "final" => r.pactId \in PactIds /\ Exists(r.pactId)

HandlerOK(r) ==
    \/ r = Idle
    \/ SavingOK(r)
    \/ r.step \in {"fetching", "refused"} /\ r.session \in DOMAIN sessions
    \/ /\ r.step = "signing" /\ r.session \in DOMAIN sessions /\ proved(r.session)
       /\ r.since \in Nat
    \/ /\ r.step = "reading" /\ r.session \in DOMAIN sessions /\ proved(r.session)
       /\ sessions[r.session].intent = "final"
       /\ DOMAIN r = {"step", "session", "since", "pact", "player"}
    \/ r.step = "signingFinal" /\ Earned(r.session) /\ r.since \in Nat

HandlersOK == DOMAIN handlers = Handlers /\ \A h \in Handlers : HandlerOK(handlers[h])

BaselinesOK ==
    /\ \A r \in baselines :
          /\ proved(r.session)
          /\ r.baselineXp = proofOf(r.session).xp
          /\ r.baselineObservedAt = proofOf(r.session).observedAt
    /\ \A q, r \in baselines : q.wallet = r.wallet /\ q.configHash = r.configHash => q = r

(* What the backend signed, it had recorded.                               *)
Backed(x) ==
    /\ x.session \in DOMAIN sessions /\ sessions[x.session].consumed
    /\ x.issuedAt \in Int /\ x.issuedAt <= now
    /\ x.account = sessions[x.session].wallet
    /\ x.identityHash = sessions[x.session].profile
    /\ x.kind = "baseline" =>
          \E r \in baselineRow(x.account, x.configHash) :
             r.session = x.session /\ r.identityHash = x.identityHash
    /\ x.kind = "final" => Earned(x.session) /\ x.pactId = sessions[x.session].pactId

AttestationsOK == \A x \in attestations : Backed(x)

BackendInv ==
    /\ SessionsOK /\ ProofsOK /\ HandlersOK /\ BaselinesOK /\ AttestationsOK
    /\ OneAttestationPerSession /\ BurnedSessionLeavesBaseline

(* Stakes and completions on chain rest on rows and proofs of the backend. *)
StakesBacked ==
    \A p \in PactIds : \A w \in joined[p] :
        \E r \in baselineRow(w, terms(p)) : r.identityHash = participantIdentity[p][w]

CompletionsBacked ==
    \A p \in PactIds : \A w \in completed[p] :
        \E f \in DOMAIN sessions :
            /\ Earned(f)
            /\ sessions[f].wallet = w /\ sessions[f].pactId = p
            /\ sessions[f].profile = participantIdentity[p][w]

ChainInv == ChainShape /\ StakesBacked /\ CompletionsBacked

BackedInv == ChainInv /\ BackendInv

-----------------------------------------------------------------------------
(* Nothing the backend has recorded is ever taken back, and the terms of a *)
(* Lock never change: what was earned stays earned.                        *)

Forward ==
    /\ now \in Nat /\ now' \in Nat /\ now <= now'
    /\ \A s \in DOMAIN sessions :
          /\ s \in DOMAIN sessions'
          /\ sessions'[s].wallet = sessions[s].wallet /\ sessions'[s].intent = sessions[s].intent
          /\ sessions'[s].pactId = sessions[s].pactId /\ sessions'[s].profile = sessions[s].profile
          /\ sessions'[s].configHash = sessions[s].configHash
          /\ sessions'[s].createdAt = sessions[s].createdAt
          /\ sessions[s].consumed => sessions'[s].consumed
    /\ \A s : proved(s) => proved(s)' /\ proofOf(s)' = proofOf(s)
    /\ baselines \subseteq baselines'
    /\ \A p \in PactIds : Exists(p) => Exists(p)' /\ terms(p)' = terms(p)

LEMMA EarnedStays ==
  ASSUME SessionsOK, Forward, NEW s, Earned(s)
  PROVE  Earned(s)'
<1> DEFINE p == sessions[s].pactId
<1>1. /\ s \in DOMAIN sessions /\ p \in PactIds /\ Exists(p)
      /\ proved(s)
  BY DEF Earned, SessionsOK
<1>2. /\ terms(p)' = terms(p)
      /\ sessions'[s].pactId = p
      /\ sessions'[s].wallet = sessions[s].wallet
      /\ sessions'[s].profile = sessions[s].profile
      /\ sessions'[s].intent = sessions[s].intent
      /\ proved(s)' /\ proofOf(s)' = proofOf(s) /\ s \in DOMAIN sessions'
  BY <1>1 DEF Forward, terms
<1>3. PICK row \in baselineRow(sessions[s].wallet, terms(p)) :
        deltaOK(s, row) /\ sessions[s].profile = row.identityHash
  BY DEF Earned
<1>4. row \in baselineRow(sessions[s].wallet, terms(p))'
  BY <1>2, <1>3 DEF baselineRow, Forward
<1>5. deltaOK(s, row)'
  BY <1>2, <1>3 DEF deltaOK, earnedXp, startsAt, endsAt, terms
<1>. QED
  BY <1>1, <1>2, <1>3, <1>4, <1>5 DEF Earned, baselineRow, terms

LEMMA HandlerStays ==
  ASSUME SessionsOK, Forward, NEW r, HandlerOK(r)
  PROVE  HandlerOK(r)'
<1>1. CASE r = Idle
  BY <1>1 DEF HandlerOK, Idle
<1>2. CASE SavingOK(r)
  BY <1>2 DEF HandlerOK, SavingOK, Forward
<1>3. CASE r.step \in {"fetching", "refused"} /\ r.session \in DOMAIN sessions
  BY <1>3 DEF HandlerOK, Forward
<1>4. CASE /\ r.step = "signing" /\ r.session \in DOMAIN sessions /\ proved(r.session)
           /\ r.since \in Nat
  BY <1>4 DEF HandlerOK, Forward
<1>5. CASE /\ r.step = "reading" /\ r.session \in DOMAIN sessions /\ proved(r.session)
           /\ sessions[r.session].intent = "final"
           /\ DOMAIN r = {"step", "session", "since", "pact", "player"}
  BY <1>5 DEF HandlerOK, Forward
<1>6. CASE r.step = "signingFinal" /\ Earned(r.session) /\ r.since \in Nat
  BY <1>6, EarnedStays DEF HandlerOK
<1>. QED
  BY <1>1, <1>2, <1>3, <1>4, <1>5, <1>6 DEF HandlerOK

LEMMA AttestationStays ==
  ASSUME SessionsOK, Forward, NEW x, Backed(x)
  PROVE  Backed(x)'
<1>1. /\ x.session \in DOMAIN sessions' /\ sessions'[x.session].consumed
      /\ sessions'[x.session].wallet = sessions[x.session].wallet
      /\ sessions'[x.session].profile = sessions[x.session].profile
      /\ sessions'[x.session].pactId = sessions[x.session].pactId
  BY DEF Backed, Forward
<1>2. x.issuedAt <= now'
  BY DEF Backed, Forward
<1>3. x.kind = "baseline" =>
          \E r \in baselineRow(x.account, x.configHash)' :
             r.session = x.session /\ r.identityHash = x.identityHash
  BY DEF Backed, Forward, baselineRow
<1>4. x.kind = "final" => Earned(x.session)'
  BY EarnedStays DEF Backed
<1>. QED
  BY <1>1, <1>2, <1>3, <1>4 DEF Backed

(* The backend's part of the invariant across a step of the chain.         *)
LEMMA BackendFrame ==
  ASSUME BackendInv, Forward, UNCHANGED <<xp, backendVars>>
  PROVE  BackendInv'
<1>1. /\ xp' = xp /\ proofs' = proofs /\ sessions' = sessions /\ baselines' = baselines
      /\ handlers' = handlers /\ attestations' = attestations
  BY DEF backendVars, dbVars
<1>2. now \in Nat /\ now' \in Nat /\ now <= now'
  BY DEF Forward
<1>3. SessionsOK'
  <2>1. \A s \in DOMAIN sessions : sessions[s].createdAt <= now'
    <3> SUFFICES ASSUME NEW s \in DOMAIN sessions PROVE sessions[s].createdAt <= now'
      OBVIOUS
    <3>1. sessions[s] \in SessionRow
      BY DEF BackendInv, SessionsOK
    <3> QED BY <1>2, <3>1 DEF BackendInv, SessionsOK, SessionRow
  <2>2. \A s \in DOMAIN sessions : sessions[s].intent = "final" =>
            sessions[s].pactId \in PactIds /\ Exists(sessions[s].pactId)'
    BY DEF BackendInv, SessionsOK, Forward
  <2> QED BY <1>1, <2>1, <2>2 DEF BackendInv, SessionsOK, Exists
<1>4. ProofsOK'
  <2>1. \A q \in proofs : q.observedAt <= now'
    BY <1>2 DEF BackendInv, ProofsOK
  <2> QED BY <1>1, <2>1 DEF BackendInv, ProofsOK
<1>5. HandlersOK'
  <2> SUFFICES ASSUME NEW h \in Handlers PROVE HandlerOK(handlers[h])'
    BY <1>1 DEF BackendInv, HandlersOK
  <2>1. PICK r : r = handlers[h]
    OBVIOUS
  <2>2. HandlerOK(r)
    BY <2>1 DEF BackendInv, HandlersOK
  <2>3. HandlerOK(r)'
    BY <2>2, HandlerStays DEF BackendInv
  <2> QED BY <1>1, <2>1, <2>3
<1>6. BaselinesOK'
  BY <1>1 DEF BackendInv, BaselinesOK, proved, proofOf
<1>7. AttestationsOK'
  <2> SUFFICES ASSUME NEW x \in attestations PROVE Backed(x)'
    BY <1>1 DEF AttestationsOK
  <2> QED BY AttestationStays DEF BackendInv, AttestationsOK
<1>8. OneAttestationPerSession' /\ BurnedSessionLeavesBaseline'
  BY <1>1 DEF BackendInv, OneAttestationPerSession, BurnedSessionLeavesBaseline, baselineRow
<1>. QED
  BY <1>3, <1>4, <1>5, <1>6, <1>7, <1>8 DEF BackendInv

-----------------------------------------------------------------------------
(* The steps of the contract.                                              *)

(* No step on an existing Lock touches who created it or its terms.        *)
SamePacts ==
    /\ DOMAIN pacts' = PactIds
    /\ \A q \in PactIds :
          /\ "creator" \in DOMAIN pacts'[q] /\ "terms" \in DOMAIN pacts'[q]
          /\ pacts'[q].creator = pacts[q].creator /\ pacts'[q].terms = pacts[q].terms

LEMMA PactsKeepTerms ==
  ASSUME ChainShape, NEW p \in PactIds, NEW w, NEW E,
         \/ joinPact(p, w, E) \/ submitFinal(p, w, E) \/ cancelPact(p, w) \/ claim(p, w)
         \/ finalizePact(p) \/ UNCHANGED pacts
  PROVE  SamePacts
<1>. USE DEF ChainShape, SamePacts
<1>1. CASE joinPact(p, w, E)
  BY <1>1 DEF joinPact
<1>2. CASE submitFinal(p, w, E)
  BY <1>2 DEF submitFinal
<1>3. CASE cancelPact(p, w)
  BY <1>3 DEF cancelPact
<1>4. CASE claim(p, w)
  BY <1>4 DEF claim
<1>5. CASE finalizePact(p)
  BY <1>5 DEF finalizePact
<1>6. CASE UNCHANGED pacts
  BY <1>6
<1>. QED
  BY <1>1, <1>2, <1>3, <1>4, <1>5, <1>6

LEMMA ChainForward ==
  ASSUME UNCHANGED backendVars, now \in Nat, now' \in Nat, now <= now',
         \A p \in PactIds : Exists(p) => Exists(p)' /\ terms(p)' = terms(p)
  PROVE  Forward
<1>1. proofs' = proofs /\ sessions' = sessions /\ baselines' = baselines
  BY DEF backendVars, dbVars
<1>2. \A s : proved(s) => proved(s)' /\ proofOf(s)' = proofOf(s)
  BY <1>1 DEF proved, proofOf
<1>. QED
  BY <1>1, <1>2 DEF Forward

(* A stake and a completion keep what they rest on.                        *)
LEMMA StakeStaysBacked ==
  ASSUME ChainInv, Forward, NEW p \in PactIds, NEW w \in joined[p],
         participantIdentity'[p][w] = participantIdentity[p][w]
  PROVE  \E r \in baselineRow(w, terms(p))' : r.identityHash = participantIdentity'[p][w]
<1>1. Exists(p)
  BY DEF ChainInv, ChainShape
<1>2. terms(p)' = terms(p) /\ baselines \subseteq baselines'
  BY <1>1 DEF Forward
<1>3. PICK r \in baselineRow(w, terms(p)) : r.identityHash = participantIdentity[p][w]
  BY DEF ChainInv, StakesBacked
<1>. QED
  BY <1>2, <1>3 DEF baselineRow

LEMMA CompletionStaysBacked ==
  ASSUME ChainInv, SessionsOK, Forward, NEW p \in PactIds, NEW w \in completed[p],
         participantIdentity'[p][w] = participantIdentity[p][w]
  PROVE  \E f \in DOMAIN sessions' :
            /\ Earned(f)'
            /\ sessions'[f].wallet = w /\ sessions'[f].pactId = p
            /\ sessions'[f].profile = participantIdentity'[p][w]
<1>1. PICK f \in DOMAIN sessions :
            /\ Earned(f)
            /\ sessions[f].wallet = w /\ sessions[f].pactId = p
            /\ sessions[f].profile = participantIdentity[p][w]
  BY DEF ChainInv, CompletionsBacked
<1>2. Earned(f)'
  BY <1>1, EarnedStays
<1>. QED
  BY <1>1, <1>2 DEF Forward

(* Steps that admit nobody and accept no final.                            *)
LEMMA QuietStep ==
  ASSUME ChainInv, SessionsOK, Forward, SamePacts,
         UNCHANGED <<nextPactId, joined, completed, participantIdentity>>
  PROVE  ChainInv'
<1>1. /\ nextPactId' = nextPactId /\ joined' = joined /\ completed' = completed
      /\ participantIdentity' = participantIdentity
  OBVIOUS
<1>2. ChainShape'
  BY <1>1 DEF ChainInv, ChainShape, SamePacts, Forward, Exists, terms
<1>3. StakesBacked'
  BY <1>1, StakeStaysBacked DEF StakesBacked
<1>4. CompletionsBacked'
  BY <1>1, CompletionStaysBacked DEF CompletionsBacked
<1>. QED
  BY <1>2, <1>3, <1>4 DEF ChainInv

LEMMA JoinStep ==
  ASSUME ChainInv, BackendInv, Forward, NEW p \in PactIds, NEW w \in Wallets,
         joinPact(p, w, received("baseline"))
  PROVE  ChainInv'
<1>1. PICK b \in received("baseline") :
         /\ baselineOK(w, terms(p), b)
         /\ bindIdentity(p, w, b.identityHash)
  BY DEF joinPact
<1>2. /\ joined' = [joined EXCEPT ![p] = @ \cup {w}] /\ w \notin joined[p] /\ Exists(p)
      /\ UNCHANGED <<now, nextPactId, completed>>
  BY DEF joinPact
<1>3. SamePacts
  BY PactsKeepTerms DEF ChainInv
<1>4. PICK r \in baselineRow(w, terms(p)) : r.identityHash = b.identityHash
  BY <1>1 DEF baselineOK, received, BackendInv, AttestationsOK, Backed
<1>5. b.identityHash \in Identities
  <2>1. b \in attestations /\ Backed(b)
    BY <1>1 DEF received, BackendInv, AttestationsOK
  <2>2. sessions[b.session] \in SessionRow
    BY <2>1 DEF Backed, BackendInv, SessionsOK
  <2>3. b.identityHash = sessions[b.session].profile
    BY <2>1 DEF Backed
  <2> QED BY <2>2, <2>3 DEF SessionRow
<1>6. /\ joined \in [PactIds -> SUBSET Wallets] /\ completed \in [PactIds -> SUBSET Wallets]
      /\ participantIdentity \in [PactIds -> [Wallets -> Identities \cup {NoIdentity}]]
  BY DEF ChainInv, ChainShape
<1>7. /\ participantIdentity' \in [PactIds -> [Wallets -> Identities \cup {NoIdentity}]]
      /\ participantIdentity'[p][w] = b.identityHash
      /\ \A q \in PactIds, v \in Wallets :
            <<q, v>> # <<p, w>> => participantIdentity'[q][v] = participantIdentity[q][v]
  BY <1>1, <1>5, <1>6 DEF bindIdentity
<1>8. ChainShape'
  <2>1. joined' \in [PactIds -> SUBSET Wallets]
    BY <1>2, <1>6
  <2>2. \A q \in PactIds : completed'[q] \subseteq joined'[q]
    BY <1>2, <1>6 DEF ChainInv, ChainShape
  <2>3. \A q \in PactIds : ~Exists(q)' => joined'[q] = {}
    BY <1>2, <1>3, <1>6 DEF ChainInv, ChainShape, SamePacts, Exists
  <2> QED BY <1>2, <1>3, <1>6, <1>7, <2>1, <2>2, <2>3
          DEF ChainInv, ChainShape, SamePacts, Forward, Exists, terms
<1>9. StakesBacked'
  <2> SUFFICES ASSUME NEW q \in PactIds, NEW v \in joined'[q]
               PROVE  \E s \in baselineRow(v, terms(q))' : s.identityHash = participantIdentity'[q][v]
    BY DEF StakesBacked
  <2>1. CASE q = p /\ v = w
    <3>1. r \in baselineRow(w, terms(p))'
      BY <1>2, <1>4 DEF baselineRow, Forward
    <3> QED BY <1>4, <1>7, <2>1, <3>1
  <2>2. CASE ~(q = p /\ v = w)
    <3>1. v \in joined[q] /\ v \in Wallets
      BY <1>2, <1>6, <2>2
    <3> QED BY <1>7, <2>2, <3>1, StakeStaysBacked
  <2> QED BY <2>1, <2>2
<1>10. CompletionsBacked'
  <2> SUFFICES ASSUME NEW q \in PactIds, NEW v \in completed'[q]
               PROVE  \E f \in DOMAIN sessions' :
                         /\ Earned(f)'
                         /\ sessions'[f].wallet = v /\ sessions'[f].pactId = q
                         /\ sessions'[f].profile = participantIdentity'[q][v]
    BY DEF CompletionsBacked
  <2>1. v \in completed[q] /\ v \in joined[q] /\ v \in Wallets
    BY <1>2, <1>6 DEF ChainInv, ChainShape
  <2>2. participantIdentity'[q][v] = participantIdentity[q][v]
    BY <1>2, <1>7, <2>1
  <2> QED BY <2>1, <2>2, CompletionStaysBacked DEF BackendInv
<1>. QED
  BY <1>8, <1>9, <1>10 DEF ChainInv

(* What a new Lock leaves of the others.                                   *)
LEMMA CreatedPacts ==
  ASSUME ChainShape, NEW w \in Wallets, NEW c \in Configurations, NEW E, createPact(w, c, E)
  PROVE  /\ DOMAIN pacts' = PactIds
         /\ \A q \in PactIds :
               /\ "creator" \in DOMAIN pacts'[q] /\ "terms" \in DOMAIN pacts'[q]
               /\ q # nextPactId => /\ pacts'[q].creator = pacts[q].creator
                                   /\ pacts'[q].terms = pacts[q].terms
         /\ nextPactId \in PactIds /\ ~Exists(nextPactId)
         /\ pacts'[nextPactId].creator = w /\ pacts'[nextPactId].terms = c
         /\ joined[nextPactId] = {} /\ completed[nextPactId] = {}
<1>1. nextPactId \in PactIds /\ nextPactId \in Nat
  BY DEF createPact, ChainShape
<1>2. ~Exists(nextPactId)
  BY <1>1 DEF ChainShape
<1>3. joined[nextPactId] = {} /\ completed[nextPactId] = {}
  BY <1>1, <1>2 DEF ChainShape
<1>4. pacts' = [pacts EXCEPT ![nextPactId] =
                  [ZeroPact EXCEPT !.creator = w, !.terms = c, !.participantCount = 1]]
  BY DEF createPact
<1>6. PICK new : new = [ZeroPact EXCEPT !.creator = w, !.terms = c, !.participantCount = 1]
  OBVIOUS
<1>7. "creator" \in DOMAIN new /\ "terms" \in DOMAIN new /\ new.creator = w /\ new.terms = c
  BY <1>6 DEF ZeroPact
<1>8. /\ DOMAIN pacts' = PactIds
      /\ pacts'[nextPactId] = new
      /\ \A q \in PactIds : q # nextPactId => pacts'[q] = pacts[q]
  BY <1>1, <1>4, <1>6 DEF ChainShape
<1>9. \A q \in PactIds : "creator" \in DOMAIN pacts'[q] /\ "terms" \in DOMAIN pacts'[q]
  BY <1>7, <1>8 DEF ChainShape
<1>. QED
  BY <1>1, <1>2, <1>3, <1>7, <1>8, <1>9

LEMMA CreateStep ==
  ASSUME ChainInv, BackendInv, Forward, NEW w \in Wallets, NEW c \in Configurations,
         createPact(w, c, received("baseline"))
  PROVE  ChainInv'
<1> DEFINE n == nextPactId
<1>0. ChainShape
  BY DEF ChainInv
<1>1. PICK b \in received("baseline") :
         /\ baselineOK(w, c, b)
         /\ bindIdentity(n, w, b.identityHash)
  BY DEF createPact
<1>2. /\ joined' = [joined EXCEPT ![n] = @ \cup {w}] /\ nextPactId' = n + 1
      /\ UNCHANGED <<now, completed>>
  BY DEF createPact
<1>3. /\ DOMAIN pacts' = PactIds
      /\ \A q \in PactIds :
            /\ "creator" \in DOMAIN pacts'[q] /\ "terms" \in DOMAIN pacts'[q]
            /\ q # n => pacts'[q].creator = pacts[q].creator /\ pacts'[q].terms = pacts[q].terms
      /\ n \in PactIds /\ pacts'[n].creator = w /\ pacts'[n].terms = c
      /\ joined[n] = {} /\ completed[n] = {}
  BY <1>0, CreatedPacts
<1>4. PICK r \in baselineRow(w, c) : r.identityHash = b.identityHash
  BY <1>1 DEF baselineOK, received, BackendInv, AttestationsOK, Backed
<1>5. b.identityHash \in Identities
  <2>1. b \in attestations /\ Backed(b)
    BY <1>1 DEF received, BackendInv, AttestationsOK
  <2>2. sessions[b.session] \in SessionRow
    BY <2>1 DEF Backed, BackendInv, SessionsOK
  <2>3. b.identityHash = sessions[b.session].profile
    BY <2>1 DEF Backed
  <2> QED BY <2>2, <2>3 DEF SessionRow
<1>6. /\ joined \in [PactIds -> SUBSET Wallets] /\ completed \in [PactIds -> SUBSET Wallets]
      /\ participantIdentity \in [PactIds -> [Wallets -> Identities \cup {NoIdentity}]]
  BY <1>0 DEF ChainShape
<1>7. /\ participantIdentity' \in [PactIds -> [Wallets -> Identities \cup {NoIdentity}]]
      /\ participantIdentity'[n][w] = b.identityHash
      /\ \A q \in PactIds, v \in Wallets :
            <<q, v>> # <<n, w>> => participantIdentity'[q][v] = participantIdentity[q][v]
  BY <1>1, <1>3, <1>5, <1>6 DEF bindIdentity
<1>8. ChainShape'
  <2>1. joined' \in [PactIds -> SUBSET Wallets] /\ completed' \in [PactIds -> SUBSET Wallets]
    BY <1>2, <1>6
  <2>2. \A q \in PactIds : completed'[q] \subseteq joined'[q]
    BY <1>0, <1>2, <1>6 DEF ChainShape
  <2>3. \A q \in PactIds : ~Exists(q)' => joined'[q] = {}
    <3> SUFFICES ASSUME NEW q \in PactIds, ~Exists(q)' PROVE joined'[q] = {}
      OBVIOUS
    <3>1. q # n
      BY <1>3, EscrowConstants DEF Exists
    <3>2. ~Exists(q)
      BY <1>3, <3>1 DEF Exists
    <3> QED BY <1>0, <1>2, <1>6, <3>1, <3>2 DEF ChainShape
  <2>4. nextPactId' \in Nat /\ now' \in Nat
    BY <1>0, <1>2 DEF ChainShape
  <2>5. \A q \in PactIds : q >= nextPactId' => ~Exists(q)'
    <3> SUFFICES ASSUME NEW q \in PactIds, q >= nextPactId' PROVE ~Exists(q)'
      OBVIOUS
    <3>1. q \in Nat /\ n \in Nat
      BY <1>0, EscrowConstants DEF ChainShape
    <3>2. q >= n /\ q # n
      BY <1>2, <3>1
    <3> QED BY <1>0, <1>3, <3>2 DEF ChainShape, Exists
  <2>6. \A q \in PactIds : terms(q)' \in Configurations \cup {ZeroTerms}
    BY <1>0, <1>3 DEF ChainShape, terms
  <2> QED BY <1>3, <1>7, <2>1, <2>2, <2>3, <2>4, <2>5, <2>6 DEF ChainShape
<1>9. StakesBacked'
  <2> SUFFICES ASSUME NEW q \in PactIds, NEW v \in joined'[q]
               PROVE  \E s \in baselineRow(v, terms(q))' : s.identityHash = participantIdentity'[q][v]
    BY DEF StakesBacked
  <2>1. CASE q = n
    <3>1. v = w /\ terms(q)' = c
      BY <1>2, <1>3, <1>6, <2>1 DEF terms
    <3>2. r \in baselineRow(w, c)'
      BY <1>4 DEF baselineRow, Forward
    <3> QED BY <1>4, <1>7, <2>1, <3>1, <3>2 DEF baselineRow
  <2>2. CASE q # n
    <3>1. v \in joined[q] /\ v \in Wallets
      BY <1>2, <1>6, <2>2
    <3> QED BY <1>7, <2>2, <3>1, StakeStaysBacked
  <2> QED BY <2>1, <2>2
<1>10. CompletionsBacked'
  <2> SUFFICES ASSUME NEW q \in PactIds, NEW v \in completed'[q]
               PROVE  \E f \in DOMAIN sessions' :
                         /\ Earned(f)'
                         /\ sessions'[f].wallet = v /\ sessions'[f].pactId = q
                         /\ sessions'[f].profile = participantIdentity'[q][v]
    BY DEF CompletionsBacked
  <2>1. v \in completed[q] /\ v \in Wallets /\ q # n
    BY <1>2, <1>3, <1>6
  <2>2. participantIdentity'[q][v] = participantIdentity[q][v]
    BY <1>7, <2>1
  <2> QED BY <2>1, <2>2, CompletionStaysBacked DEF BackendInv
<1>. QED
  BY <1>8, <1>9, <1>10 DEF ChainInv

LEMMA FinalStep ==
  ASSUME ChainInv, BackendInv, Forward, NEW p \in PactIds, NEW w \in Wallets,
         submitFinal(p, w, {x \in received("final") : x.pactId = p})
  PROVE  ChainInv'
<1>0. ChainShape
  BY DEF ChainInv
<1>1. PICK x \in received("final") : x.pactId = p /\ finalOK(p, w, x)
  BY DEF submitFinal
<1>2. /\ completed' = [completed EXCEPT ![p] = @ \cup {w}] /\ w \in joined[p]
      /\ UNCHANGED <<now, nextPactId, joined, participantIdentity>>
  BY DEF submitFinal
<1>3. SamePacts
  BY <1>0, PactsKeepTerms
<1>4. completed \in [PactIds -> SUBSET Wallets]
  BY <1>0 DEF ChainShape
<1>5. ChainShape'
  <2>1. completed' \in [PactIds -> SUBSET Wallets] /\ \A q \in PactIds : completed'[q] \subseteq joined'[q]
    BY <1>0, <1>2, <1>4 DEF ChainShape
  <2> QED BY <1>0, <1>2, <1>3, <2>1 DEF ChainShape, SamePacts, Exists, terms
<1>6. StakesBacked'
  BY <1>2, StakeStaysBacked DEF StakesBacked
<1>7. CompletionsBacked'
  <2> SUFFICES ASSUME NEW q \in PactIds, NEW v \in completed'[q]
               PROVE  \E f \in DOMAIN sessions' :
                         /\ Earned(f)'
                         /\ sessions'[f].wallet = v /\ sessions'[f].pactId = q
                         /\ sessions'[f].profile = participantIdentity'[q][v]
    BY DEF CompletionsBacked
  <2>1. CASE v \in completed[q]
    BY <1>2, <2>1, CompletionStaysBacked DEF BackendInv
  <2>2. CASE v \notin completed[q]
    <3>1. q = p /\ v = w
      BY <1>2, <1>4, <2>2
    <3>2. PICK f : f = x.session
      OBVIOUS
    <3>3. Backed(x) /\ x.kind = "final"
      BY <1>1 DEF received, BackendInv, AttestationsOK
    <3>4. /\ Earned(f) /\ sessions[f].wallet = w /\ sessions[f].pactId = p
          /\ sessions[f].profile = participantIdentity[p][w] /\ f \in DOMAIN sessions
      BY <1>1, <3>2, <3>3 DEF Backed, finalOK
    <3>5. Earned(f)'
      BY <3>4, EarnedStays DEF BackendInv
    <3> QED BY <1>2, <3>1, <3>4, <3>5 DEF Forward
  <2> QED BY <2>1, <2>2
<1>. QED
  BY <1>5, <1>6, <1>7 DEF ChainInv

LEMMA ChainStepKeepsInv ==
  ASSUME BackedInv, OnChain, UNCHANGED <<xp, backendVars>>
  PROVE  BackedInv' /\ baselines' = baselines
<1>0. ChainShape /\ ChainInv /\ BackendInv /\ SessionsOK /\ now \in Nat
  BY DEF BackedInv, ChainInv, ChainShape, BackendInv
<1>a. baselines' = baselines
  BY DEF backendVars, dbVars
<1>b. ASSUME SamePacts, now' = now,
             UNCHANGED <<nextPactId, joined, completed, participantIdentity>>
      PROVE  BackedInv'
  <2>1. Forward
    BY <1>0, <1>b, ChainForward DEF SamePacts, Exists, terms
  <2> QED BY <1>0, <1>b, <2>1, QuietStep, BackendFrame DEF BackedInv
<1>1. ASSUME NEW w \in Wallets, NEW c \in Configurations, createPact(w, c, received("baseline"))
      PROVE  BackedInv'
  <2>1. \A p \in PactIds : Exists(p) => p # nextPactId
    BY <1>0, <1>1, CreatedPacts
  <2>2. \A p \in PactIds : Exists(p) => Exists(p)' /\ terms(p)' = terms(p)
    BY <1>0, <1>1, <2>1, CreatedPacts DEF Exists, terms
  <2>3. Forward
    BY <1>0, <1>1, <2>2, ChainForward DEF createPact
  <2> QED BY <1>0, <1>1, <2>3, CreateStep, BackendFrame DEF BackedInv
<1>2. ASSUME NEW p \in PactIds, NEW w \in Wallets, joinPact(p, w, received("baseline"))
      PROVE  BackedInv'
  <2>1. SamePacts
    BY <1>0, <1>2, PactsKeepTerms
  <2>2. Forward
    BY <1>0, <1>2, <2>1, ChainForward DEF joinPact, SamePacts, Exists, terms
  <2> QED BY <1>0, <1>2, <2>2, JoinStep, BackendFrame DEF BackedInv
<1>3. ASSUME NEW p \in PactIds, NEW w \in Wallets,
             submitFinal(p, w, {x \in received("final") : x.pactId = p})
      PROVE  BackedInv'
  <2>1. SamePacts
    BY <1>0, <1>3, PactsKeepTerms
  <2>2. Forward
    BY <1>0, <1>3, <2>1, ChainForward DEF submitFinal, SamePacts, Exists, terms
  <2> QED BY <1>0, <1>3, <2>2, FinalStep, BackendFrame DEF BackedInv
<1>4. ASSUME NEW p \in PactIds, NEW w \in Wallets, cancelPact(p, w) \/ claim(p, w)
      PROVE  BackedInv'
  <2>1. SamePacts
    BY <1>0, <1>4, PactsKeepTerms
  <2> QED BY <1>4, <1>b, <2>1 DEF cancelPact, claim
<1>5. ASSUME NEW p \in PactIds, finalizePact(p) PROVE BackedInv'
  <2>1. SamePacts
    BY <1>0, <1>5, PactsKeepTerms
  <2> QED BY <1>5, <1>b, <2>1 DEF finalizePact
<1>c. ASSUME UNCHANGED pacts PROVE SamePacts
  BY <1>0, <1>c DEF ChainShape, SamePacts
<1>6. ASSUME NEW paused \in BOOLEAN, PauseCompletion(paused) PROVE BackedInv'
  BY <1>6, <1>b, <1>c DEF PauseCompletion, setCompletionPaused, lockVars
<1>7. ASSUME NextBlock PROVE BackedInv'
  <2>1. /\ UNCHANGED <<pacts, nextPactId, joined, completed, participantIdentity>>
        /\ now' \in Nat /\ now <= now'
    BY <1>0, <1>7 DEF NextBlock, Tick, lockVars
  <2>2. Forward
    BY <1>0, <2>1, ChainForward DEF Exists, terms
  <2> QED BY <1>0, <1>c, <2>1, <2>2, QuietStep, BackendFrame DEF BackedInv
<1>. QED
  BY <1>a, <1>1, <1>2, <1>3, <1>4, <1>5, <1>6, <1>7 DEF OnChain

-----------------------------------------------------------------------------
(* The steps of the backend: each leaves the contract alone.               *)

LEMMA BackendForward ==
  ASSUME BackedInv, UNCHANGED contractVars, baselines \subseteq baselines',
         \A s \in DOMAIN sessions :
            /\ s \in DOMAIN sessions'
            /\ \/ sessions'[s] = sessions[s]
               \/ sessions'[s] = [sessions[s] EXCEPT !.consumed = TRUE],
         \A s : proved(s) => proved(s)' /\ proofOf(s)' = proofOf(s)
  PROVE  Forward
<1>1. now' = now /\ now \in Nat /\ pacts' = pacts
  BY DEF BackedInv, ChainInv, ChainShape, contractVars, lockVars
<1>2. ASSUME NEW s \in DOMAIN sessions
      PROVE  /\ sessions'[s].wallet = sessions[s].wallet /\ sessions'[s].intent = sessions[s].intent
             /\ sessions'[s].pactId = sessions[s].pactId /\ sessions'[s].profile = sessions[s].profile
             /\ sessions'[s].configHash = sessions[s].configHash
             /\ sessions'[s].createdAt = sessions[s].createdAt
             /\ sessions[s].consumed => sessions'[s].consumed
  <2>1. sessions[s] \in SessionRow
    BY DEF BackedInv, BackendInv, SessionsOK
  <2> QED BY <2>1 DEF SessionRow
<1>3. \A p \in PactIds : Exists(p) => Exists(p)' /\ terms(p)' = terms(p)
  BY <1>1 DEF Exists, terms
<1>4. now' \in Nat /\ now <= now'
  BY <1>1
<1>. QED
  BY <1>1, <1>2, <1>3, <1>4 DEF Forward

LEMMA ChainFrame ==
  ASSUME BackedInv, UNCHANGED contractVars, Forward
  PROVE  ChainInv'
<1>1. UNCHANGED <<now, nextPactId, pacts, joined, completed, participantIdentity>>
  BY DEF contractVars, lockVars
<1>2. SamePacts
  BY <1>1 DEF BackedInv, ChainInv, ChainShape, SamePacts
<1>. QED
  BY <1>1, <1>2, QuietStep DEF BackedInv, BackendInv

(* What a handler holds at each of its steps.                              *)
LEMMA HandlerHolds ==
  ASSUME NEW r, HandlerOK(r)
  PROVE  /\ r.step = "saving" => SavingOK(r)
         /\ r.step \in {"fetching", "refused", "signing", "reading"} => r.session \in DOMAIN sessions
         /\ r.step = "signing" => proved(r.session) /\ r.since \in Nat
         /\ r.step = "reading" =>
               /\ proved(r.session) /\ sessions[r.session].intent = "final"
               /\ DOMAIN r = {"step", "session", "since", "pact", "player"}
         /\ r.step = "signingFinal" => Earned(r.session) /\ r.since \in Nat
BY DEF HandlerOK, Idle, SavingOK, BeforeItsRow

LEMMA ProofsFrame ==
  ASSUME ProofsOK, Forward, UNCHANGED <<now, xp, proofs>>
  PROVE  ProofsOK'
BY DEF ProofsOK, Forward

LEMMA BaselinesFrame ==
  ASSUME BaselinesOK, Forward, baselines' = baselines
  PROVE  BaselinesOK'
BY DEF BaselinesOK, Forward

LEMMA AttestationsFrame ==
  ASSUME SessionsOK, AttestationsOK, Forward, attestations' = attestations
  PROVE  AttestationsOK'
BY AttestationStays DEF AttestationsOK

LEMMA HandlersFrame ==
  ASSUME SessionsOK, HandlersOK, Forward, NEW h \in Handlers, NEW r, HandlerOK(r)',
         handlers' = [handlers EXCEPT ![h] = r]
  PROVE  HandlersOK'
<1>1. DOMAIN handlers' = Handlers
  BY DEF HandlersOK
<1>2. ASSUME NEW g \in Handlers PROVE HandlerOK(handlers[g])'
  <2>1. CASE g = h
    <3>1. handlers'[g] = r
      BY <2>1 DEF HandlersOK
    <3> QED BY <3>1
  <2>2. CASE g # h
    <3>1. PICK q : q = handlers[g]
      OBVIOUS
    <3>2. handlers'[g] = q /\ HandlerOK(q)
      BY <2>2, <3>1 DEF HandlersOK
    <3>3. HandlerOK(q)'
      BY <3>2, HandlerStays
    <3> QED BY <3>2, <3>3
  <2> QED BY <2>1, <2>2
<1>. QED
  BY <1>1, <1>2 DEF HandlersOK

LEMMA BurnedFrame ==
  ASSUME BurnedSessionLeavesBaseline, sessions' = sessions, baselines \subseteq baselines'
  PROVE  BurnedSessionLeavesBaseline'
BY DEF BurnedSessionLeavesBaseline, baselineRow

(* Steps that only move one handler on.                                    *)
LEMMA HandlerStep ==
  ASSUME BackedInv, UNCHANGED <<contractVars, xp, proofs, dbVars, attestations>>,
         NEW h \in Handlers, NEW r, HandlerOK(r), handlers' = [handlers EXCEPT ![h] = r]
  PROVE  BackedInv'
<1>1. UNCHANGED <<now, pacts, sessions, baselines>>
  BY DEF contractVars, lockVars, dbVars
<1>2. \A s : proved(s) => proved(s)' /\ proofOf(s)' = proofOf(s)
  BY DEF proved, proofOf
<1>3. Forward
  BY <1>1, <1>2, BackendForward
<1>4. ChainInv'
  BY <1>3, ChainFrame
<1>5. SessionsOK'
  BY <1>1 DEF BackedInv, BackendInv, SessionsOK, Exists
<1>6. ProofsOK' /\ BaselinesOK' /\ AttestationsOK'
  BY <1>1, <1>3, ProofsFrame, BaselinesFrame, AttestationsFrame DEF BackedInv, BackendInv
<1>7. HandlersOK'
  <2>1. HandlerOK(r)'
    BY <1>3, HandlerStays DEF BackedInv, BackendInv
  <2> QED BY <1>3, <2>1, HandlersFrame DEF BackedInv, BackendInv
<1>8. OneAttestationPerSession' /\ BurnedSessionLeavesBaseline'
  BY <1>1, BurnedFrame DEF BackedInv, BackendInv, OneAttestationPerSession
<1>. QED
  BY <1>4, <1>5, <1>6, <1>7, <1>8 DEF BackedInv, BackendInv

LEMMA OpenKeepsInv ==
  ASSUME BackedInv, NEW h \in Handlers, NEW w \in Wallets, NEW i \in IdentitiesOf[w],
         \/ \E c \in Configurations : OpenCreate(h, w, i, c)
         \/ \E p \in PactIds : OpenJoin(h, w, i, p) \/ OpenFinal(h, w, i, p)
  PROVE  BackedInv'
<1>0. i \in Identities
  BY EscrowConstants
<1>a. ASSUME NEW intent \in {"create", "join", "final"}, NEW p \in PactIds \cup {0},
             NEW c \in Configurations \cup {ZeroTerms}, Opening(h, w, intent, p, c, i),
             intent = "final" => p \in PactIds /\ Exists(p)
      PROVE  BackedInv'
  <2>1. PICK r : r = [step |-> "saving", wallet |-> w, intent |-> intent, pactId |-> p,
                      configHash |-> c, profile |-> i]
    OBVIOUS
  <2>2. SavingOK(r)
    BY <1>0, <1>a, <2>1 DEF SavingOK, BeforeItsRow
  <2>3. HandlerOK(r)
    BY <2>2 DEF HandlerOK
  <2>4. UNCHANGED <<contractVars, xp, proofs, dbVars, attestations>>
        /\ handlers' = [handlers EXCEPT ![h] = r]
    BY <1>a, <2>1 DEF Opening
  <2> QED BY <2>3, <2>4, HandlerStep
<1>1. ASSUME NEW c \in Configurations, OpenCreate(h, w, i, c) PROVE BackedInv'
  BY <1>1, <1>a DEF OpenCreate
<1>2. ASSUME NEW p \in PactIds, OpenJoin(h, w, i, p) \/ OpenFinal(h, w, i, p) PROVE BackedInv'
  <2>1. PICK c \in Configurations \cup {ZeroTerms} : c = terms(p)
    BY DEF BackedInv, ChainInv, ChainShape
  <2>2. CASE OpenJoin(h, w, i, p)
    <3>1. Opening(h, w, "join", p, c, i)
      BY <2>1, <2>2 DEF OpenJoin
    <3> QED BY <3>1, <1>a
  <2>3. CASE OpenFinal(h, w, i, p)
    <3>1. Opening(h, w, "final", p, c, i) /\ Exists(p)
      BY <2>1, <2>3 DEF OpenFinal
    <3> QED BY <3>1, <1>a
  <2> QED BY <1>2, <2>2, <2>3
<1>. QED
  BY <1>1, <1>2

LEMMA RequestStepKeepsInv ==
  ASSUME BackedInv, NEW h \in Handlers,
         \/ \E s \in DOMAIN sessions : BeginVerify(h, s)
         \/ FetchProof(h) \/ ReadPact(h) \/ ReadPlayer(h) \/ CheckFinal(h) \/ EndRequest(h)
  PROVE  BackedInv'
<1>0. /\ HandlerOK(handlers[h]) /\ SessionsOK /\ now \in Nat
  BY DEF BackedInv, BackendInv, HandlersOK, ChainInv, ChainShape
<1>q. PICK q : q = handlers[h]
  OBVIOUS
<1>1. ASSUME NEW s \in DOMAIN sessions, BeginVerify(h, s) PROVE BackedInv'
  <2>1. PICK r : r = [step |-> "fetching", session |-> s]
    OBVIOUS
  <2>2. HandlerOK(r)
    BY <2>1 DEF HandlerOK
  <2> QED BY <1>1, <2>1, <2>2, HandlerStep DEF BeginVerify
<1>2. CASE FetchProof(h)
  <2>1. PICK s : s = handlers[h].session
    OBVIOUS
  <2>2. s \in DOMAIN sessions /\ proved(s)
    BY <1>0, <1>2, <2>1, HandlerHolds DEF FetchProof
  <2>3. PICK r : r = [step |-> IF sessions[s].intent = "final" THEN "reading" ELSE "signing",
                      session |-> s, since |-> now, pact |-> {}, player |-> {}]
    OBVIOUS
  <2>4. HandlerOK(r)
    BY <1>0, <2>2, <2>3 DEF HandlerOK
  <2> QED BY <1>2, <2>1, <2>3, <2>4, HandlerStep DEF FetchProof
<1>3. ASSUME NEW r, q.step = "reading", r.step = "reading", r.session = q.session,
             DOMAIN r = DOMAIN q
      PROVE  HandlerOK(r)
  BY <1>0, <1>q, <1>3, HandlerHolds DEF HandlerOK
<1>4. CASE ReadPact(h)
  <2>1. PICK r : r = [q EXCEPT !.pact = {pactView(sessions[q.session].pactId)}]
    OBVIOUS
  <2>2. q.step = "reading" /\ DOMAIN q = {"step", "session", "since", "pact", "player"}
    BY <1>0, <1>4, <1>q, HandlerHolds DEF ReadPact
  <2>3. HandlerOK(r)
    BY <1>3, <2>1, <2>2
  <2>4. handlers' = [handlers EXCEPT ![h] = r]
    BY <1>4, <1>q, <2>1 DEF ReadPact
  <2> QED BY <1>4, <2>3, <2>4, HandlerStep DEF ReadPact
<1>5. CASE ReadPlayer(h)
  <2>1. PICK r : r = [q EXCEPT !.player =
            {playerView(sessions[q.session].pactId, sessions[q.session].wallet)}]
    OBVIOUS
  <2>2. q.step = "reading" /\ DOMAIN q = {"step", "session", "since", "pact", "player"}
    BY <1>0, <1>5, <1>q, HandlerHolds DEF ReadPlayer
  <2>3. HandlerOK(r)
    BY <1>3, <2>1, <2>2
  <2>4. handlers' = [handlers EXCEPT ![h] = r]
    BY <1>5, <1>q, <2>1 DEF ReadPlayer
  <2> QED BY <1>5, <2>3, <2>4, HandlerStep DEF ReadPlayer
<1>6. CASE CheckFinal(h)
  <2>1. PICK s : s = handlers[h].session
    OBVIOUS
  <2>2. s \in DOMAIN sessions /\ proved(s) /\ sessions[s].intent = "final"
    BY <1>0, <1>6, <2>1, HandlerHolds DEF CheckFinal
  <2>3. \E row \in baselineRow(sessions[s].wallet, terms(sessions[s].pactId)) :
           deltaOK(s, row) /\ sessions[s].profile = row.identityHash
    BY <1>6, <2>1 DEF CheckFinal, sameAccount
  <2>4. PICK r : r = [step |-> "signingFinal", session |-> s, since |-> now]
    OBVIOUS
  <2>5. HandlerOK(r)
    BY <1>0, <2>2, <2>3, <2>4 DEF HandlerOK, Earned
  <2> QED BY <1>6, <2>1, <2>4, <2>5, HandlerStep DEF CheckFinal
<1>7. CASE EndRequest(h)
  <2>1. PICK r : r = Idle
    OBVIOUS
  <2> QED BY <1>7, <2>1, HandlerStep DEF EndRequest, HandlerOK
<1>. QED
  BY <1>1, <1>2, <1>4, <1>5, <1>6, <1>7

(* An account earns XP.                                                    *)
LEMMA PractiseKeepsInv ==
  ASSUME BackedInv, NEW i \in Identities, Practise(i)
  PROVE  BackedInv'
<1>1. /\ UNCHANGED <<now, contractVars, backendVars>>
      /\ xp[i] < MaxXp /\ xp' = [xp EXCEPT ![i] = @ + 1]
  BY DEF Practise, contractVars
<1>2. UNCHANGED <<proofs, sessions, baselines, handlers, attestations>>
  BY <1>1 DEF backendVars, dbVars
<1>3. \A s : proved(s) => proved(s)' /\ proofOf(s)' = proofOf(s)
  BY <1>2 DEF proved, proofOf
<1>4. Forward
  BY <1>1, <1>2, <1>3, BackendForward
<1>5. ChainInv'
  BY <1>1, <1>4, ChainFrame
<1>6. SessionsOK'
  BY <1>1, <1>2 DEF BackedInv, BackendInv, SessionsOK, Exists, contractVars, lockVars
<1>7. ProofsOK'
  <2>1. xp \in [Identities -> 0 .. MaxXp] /\ MaxXp \in Nat
    BY BackendConstants DEF BackedInv, BackendInv, ProofsOK
  <2>2. xp' \in [Identities -> 0 .. MaxXp]
    BY <1>1, <2>1
  <2> QED BY <1>1, <1>2, <2>2 DEF BackedInv, BackendInv, ProofsOK
<1>8. BaselinesOK' /\ AttestationsOK'
  BY <1>2, <1>4, BaselinesFrame, AttestationsFrame DEF BackedInv, BackendInv
<1>9. HandlersOK'
  <2> SUFFICES ASSUME NEW h \in Handlers PROVE HandlerOK(handlers[h])'
    BY <1>2 DEF BackedInv, BackendInv, HandlersOK
  <2>1. PICK r : r = handlers[h]
    OBVIOUS
  <2>2. HandlerOK(r)'
    BY <1>4, <2>1, HandlerStays DEF BackedInv, BackendInv, HandlersOK
  <2> QED BY <1>2, <2>1, <2>2
<1>10. OneAttestationPerSession' /\ BurnedSessionLeavesBaseline'
  BY <1>2, BurnedFrame DEF BackedInv, BackendInv, OneAttestationPerSession
<1>. QED
  BY <1>5, <1>6, <1>7, <1>8, <1>9, <1>10 DEF BackedInv, BackendInv

(* Reclaim captures the one proof of a session.                            *)
LEMMA CaptureKeepsInv ==
  ASSUME BackedInv, NEW s \in DOMAIN sessions, Capture(s)
  PROVE  BackedInv'
<1>0. ProofsOK /\ SessionsOK /\ now \in Nat
  BY DEF BackedInv, BackendInv, ChainInv, ChainShape
<1>1. UNCHANGED <<now, contractVars, xp, sessions, baselines, handlers, attestations>>
  BY DEF Capture, contractVars, dbVars
<1>2. PICK new : new = [session |-> s, xp |-> xp[sessions[s].profile], observedAt |-> now]
  OBVIOUS
<1>3. proofs' = proofs \cup {new} /\ ~proved(s)
  BY <1>2 DEF Capture
<1>4. \A q, r \in proofs' : q.session = r.session => q = r
  BY <1>0, <1>2, <1>3 DEF ProofsOK, proved
<1>5. ASSUME NEW t, proved(t) PROVE proved(t)' /\ proofOf(t)' = proofOf(t)
  <2>1. PICK q \in proofs : q.session = t
    BY <1>5 DEF proved
  <2>2. (CHOOSE r \in proofs : r.session = q.session) = q
    BY <1>0, TheOneProof DEF ProofsOK
  <2>3. (CHOOSE r \in proofs' : r.session = q.session) = q
    <3>1. PICK P : P = proofs'
      OBVIOUS
    <3>2. q \in P /\ \A r, u \in P : r.session = u.session => r = u
      BY <1>3, <1>4, <3>1
    <3>3. (CHOOSE r \in P : r.session = q.session) = q
      BY <3>2, TheOneProof
    <3> QED BY <3>1, <3>3
  <2>4. proofOf(t) = q
    BY <2>1, <2>2 DEF proofOf
  <2>5. proofOf(t)' = q
    BY <2>1, <2>3 DEF proofOf
  <2>6. proved(t)'
    BY <1>3, <2>1 DEF proved
  <2> QED BY <2>4, <2>5, <2>6
<1>6. Forward
  BY <1>1, <1>5, BackendForward
<1>7. ChainInv'
  BY <1>1, <1>6, ChainFrame
<1>8. SessionsOK'
  BY <1>0, <1>1 DEF SessionsOK, Exists, contractVars, lockVars
<1>9. ProofsOK'
  <2>1. new.xp \in 0 .. MaxXp
    <3>1. sessions[s] \in SessionRow
      BY <1>0 DEF SessionsOK
    <3> QED BY <1>0, <1>2, <3>1 DEF ProofsOK, SessionRow
  <2> QED BY <1>0, <1>1, <1>2, <1>3, <1>4, <2>1 DEF ProofsOK
<1>10. BaselinesOK' /\ AttestationsOK'
  BY <1>1, <1>6, BaselinesFrame, AttestationsFrame DEF BackedInv, BackendInv
<1>11. HandlersOK'
  <2> SUFFICES ASSUME NEW h \in Handlers PROVE HandlerOK(handlers[h])'
    BY <1>1 DEF BackedInv, BackendInv, HandlersOK
  <2>1. PICK r : r = handlers[h]
    OBVIOUS
  <2>2. HandlerOK(r)'
    BY <1>6, <2>1, HandlerStays DEF BackedInv, BackendInv, HandlersOK
  <2> QED BY <1>1, <2>1, <2>2
<1>12. OneAttestationPerSession' /\ BurnedSessionLeavesBaseline'
  BY <1>1, BurnedFrame DEF BackedInv, BackendInv, OneAttestationPerSession
<1>. QED
  BY <1>7, <1>8, <1>9, <1>10, <1>11, <1>12 DEF BackedInv, BackendInv

LEMMA SaveKeepsInv ==
  ASSUME BackedInv, NEW h \in Handlers, SaveSession(h)
  PROVE  BackedInv'
<1>0. SessionsOK /\ now \in Nat /\ HandlerOK(handlers[h])
  BY DEF BackedInv, BackendInv, ChainInv, ChainShape, HandlersOK
<1>1. /\ UNCHANGED <<now, contractVars, xp, proofs, baselines, attestations>>
      /\ handlers' = [handlers EXCEPT ![h] = Idle]
      /\ Len(sessions) < MaxSessions /\ handlers[h].step = "saving"
  BY DEF SaveSession, contractVars
<1>2. PICK o : o = handlers[h]
  OBVIOUS
<1>3. SavingOK(o)
  BY <1>0, <1>1, <1>2, HandlerHolds
<1>4. PICK row : row = [wallet |-> o.wallet, intent |-> o.intent, pactId |-> o.pactId,
                        configHash |-> o.configHash, profile |-> o.profile,
                        createdAt |-> now, consumed |-> FALSE]
  OBVIOUS
<1>5. sessions' = Append(sessions, row)
  BY <1>2, <1>4 DEF SaveSession, saveEscrowSession
<1>6. row \in SessionRow
  BY <1>0, <1>3, <1>4 DEF SavingOK, BeforeItsRow, SessionRow
<1>7. /\ sessions' \in Seq(SessionRow) /\ Len(sessions') = Len(sessions) + 1
      /\ DOMAIN sessions' = DOMAIN sessions \cup {Len(sessions) + 1}
      /\ \A s \in DOMAIN sessions : sessions'[s] = sessions[s]
      /\ sessions'[Len(sessions) + 1] = row
      /\ Len(sessions) + 1 \notin DOMAIN sessions
  BY <1>0, <1>5, <1>6 DEF SessionsOK
<1>8. \A s : proved(s) => proved(s)' /\ proofOf(s)' = proofOf(s)
  BY <1>1 DEF proved, proofOf
<1>9. Forward
  BY <1>1, <1>7, <1>8, BackendForward
<1>10. ChainInv'
  BY <1>1, <1>9, ChainFrame
<1>11. SessionsOK'
  <2>1. pacts' = pacts
    BY <1>1 DEF contractVars, lockVars
  <2>2. Len(sessions') <= MaxSessions
    BY <1>0, <1>1, <1>7, BackendConstants DEF SessionsOK
  <2> SUFFICES ASSUME NEW s \in DOMAIN sessions'
               PROVE  /\ sessions'[s].profile \in IdentitiesOf[sessions'[s].wallet]
                      /\ sessions'[s].createdAt <= now'
                      /\ sessions'[s].intent = "final" =>
                            sessions'[s].pactId \in PactIds /\ Exists(sessions[s].pactId)'
    BY <1>7, <2>2 DEF SessionsOK
  <2>3. CASE s \in DOMAIN sessions
    BY <1>0, <1>1, <1>7, <2>1, <2>3 DEF SessionsOK, Exists
  <2>4. CASE s = Len(sessions) + 1
    <3>1. sessions'[s] = row
      BY <1>7, <2>4
    <3>2. row.profile \in IdentitiesOf[row.wallet] /\ row.createdAt <= now
      BY <1>0, <1>3, <1>4 DEF SavingOK
    <3>3. row.intent = "final" => row.pactId \in PactIds /\ pacts[row.pactId].creator # NoAddress
      BY <1>3, <1>4 DEF SavingOK, Exists
    <3> QED BY <1>1, <2>1, <3>1, <3>2, <3>3 DEF Exists
  <2> QED BY <1>7, <2>3, <2>4
<1>12. ProofsOK' /\ BaselinesOK' /\ AttestationsOK'
  BY <1>1, <1>9, ProofsFrame, BaselinesFrame, AttestationsFrame DEF BackedInv, BackendInv
<1>13. HandlersOK'
  <2>1. PICK r : r = Idle
    OBVIOUS
  <2>2. HandlerOK(r)'
    BY <2>1 DEF HandlerOK
  <2> QED BY <1>1, <1>9, <2>1, <2>2, HandlersFrame DEF BackedInv, BackendInv
<1>14. OneAttestationPerSession'
  BY <1>1 DEF BackedInv, BackendInv, OneAttestationPerSession
<1>15. BurnedSessionLeavesBaseline'
  <2>1. row.consumed = FALSE
    BY <1>4
  <2> QED BY <1>1, <1>7, <2>1 DEF BackedInv, BackendInv, BurnedSessionLeavesBaseline, baselineRow
<1>. QED
  BY <1>10, <1>11, <1>12, <1>13, <1>14, <1>15 DEF BackedInv, BackendInv

-----------------------------------------------------------------------------
(* The statements that consume a session.                                  *)

LEMMA ConsumeStep ==
  ASSUME BackedInv, NEW s \in DOMAIN sessions, consume(s),
         UNCHANGED <<contractVars, xp, proofs>>, baselines \subseteq baselines'
  PROVE  /\ Forward /\ SessionsOK' /\ ProofsOK'
         /\ DOMAIN sessions' = DOMAIN sessions /\ sessions'[s].consumed = TRUE
         /\ \A t \in DOMAIN sessions : t # s => sessions'[t] = sessions[t]
<1>0. SessionsOK
  BY DEF BackedInv, BackendInv
<1>1. UNCHANGED <<now, pacts>>
  BY DEF contractVars, lockVars
<1>2. sessions' = [sessions EXCEPT ![s] = [sessions[s] EXCEPT !.consumed = TRUE]]
  BY DEF consume
<1>3. sessions[s] \in SessionRow
  BY <1>0 DEF SessionsOK
<1>4. [sessions[s] EXCEPT !.consumed = TRUE] \in SessionRow
  BY <1>3 DEF SessionRow
<1>5. /\ sessions' \in Seq(SessionRow) /\ Len(sessions') = Len(sessions)
      /\ DOMAIN sessions' = DOMAIN sessions
      /\ sessions'[s] = [sessions[s] EXCEPT !.consumed = TRUE]
      /\ \A t \in DOMAIN sessions : t # s => sessions'[t] = sessions[t]
  BY <1>0, <1>2, <1>4 DEF SessionsOK
<1>6. \A t : proved(t) => proved(t)' /\ proofOf(t)' = proofOf(t)
  BY DEF proved, proofOf
<1>7. Forward
  BY <1>5, <1>6, BackendForward
<1>8. SessionsOK'
  <2>1. \A t \in DOMAIN sessions : Exists(sessions[t].pactId) =>
            pacts'[sessions[t].pactId].creator # NoAddress
    BY <1>1 DEF Exists
  <2>2. \A t \in DOMAIN sessions' :
          /\ sessions'[t].profile \in IdentitiesOf[sessions'[t].wallet]
          /\ sessions'[t].createdAt <= now'
          /\ sessions'[t].intent = "final" =>
                sessions'[t].pactId \in PactIds /\ pacts'[sessions'[t].pactId].creator # NoAddress
    BY <1>0, <1>1, <1>5, <1>7, <2>1 DEF SessionsOK, Forward
  <2> QED BY <1>0, <1>5, <2>2 DEF SessionsOK, Exists
<1>9. ProofsOK'
  BY <1>1, <1>7, ProofsFrame DEF BackedInv, BackendInv
<1>10. sessions'[s].consumed = TRUE
  BY <1>3, <1>5 DEF SessionRow
<1>. QED
  BY <1>5, <1>7, <1>8, <1>9, <1>10

(* A session that has not been consumed has no attestation yet.            *)
LEMMA FreshAttestation ==
  ASSUME AttestationsOK, OneAttestationPerSession, NEW s, ~sessions[s].consumed,
         NEW x, x.session = s, attestations' = attestations \cup {x}
  PROVE  OneAttestationPerSession'
<1>1. \A y \in attestations : y.session # s
  BY DEF AttestationsOK, Backed
<1>. QED
  BY <1>1 DEF OneAttestationPerSession

(* The statement that records a baseline, with the row it inserts.         *)
NewBaseline(s) ==
    [wallet |-> sessions[s].wallet, configHash |-> sessions[s].configHash, session |-> s,
     identityHash |-> sessions[s].profile, baselineXp |-> proofOf(s).xp,
     baselineObservedAt |-> proofOf(s).observedAt]

LEMMA BaselineKeepsInv ==
  ASSUME BackedInv, NEW h \in Handlers, NEW delivered \in BOOLEAN, RecordBaseline(h, delivered)
  PROVE  BackedInv'
<1>0. HandlerOK(handlers[h]) /\ now \in Nat
  BY DEF BackedInv, BackendInv, HandlersOK, ChainInv, ChainShape
<1>1. PICK s : s = handlers[h].session
  OBVIOUS
<1>2. s \in DOMAIN sessions /\ proved(s) /\ handlers[h].since \in Nat
  BY <1>0, <1>1, HandlerHolds DEF RecordBaseline
<1>3. PICK row : row = NewBaseline(s)
  OBVIOUS
<1>4. /\ ~sessions[s].consumed /\ baselineRow(sessions[s].wallet, sessions[s].configHash) = {}
      /\ consume(s) /\ baselines' = baselines \cup {row}
  BY <1>1, <1>3 DEF RecordBaseline, recordable, canInsertBaseline, NewBaseline
<1>5. PICK issuedAt \in signingTimes(h) :
         attestations' = attestations \cup {buildBaselineAttestation(s, issuedAt, delivered)}
  BY <1>1 DEF RecordBaseline
<1>6. PICK x : x = buildBaselineAttestation(s, issuedAt, delivered)
  OBVIOUS
<1>7. UNCHANGED <<now, contractVars, xp, proofs>> /\ handlers' = [handlers EXCEPT ![h] = Idle]
  BY DEF RecordBaseline, contractVars
<1>8. /\ Forward /\ SessionsOK' /\ ProofsOK'
      /\ DOMAIN sessions' = DOMAIN sessions /\ sessions'[s].consumed = TRUE
      /\ \A t \in DOMAIN sessions : t # s => sessions'[t] = sessions[t]
  BY <1>2, <1>4, <1>7, ConsumeStep
<1>9. ChainInv'
  BY <1>7, <1>8, ChainFrame
<1>10. BaselinesOK'
  <2>1. /\ row.wallet = sessions[s].wallet /\ row.configHash = sessions[s].configHash
        /\ row.session = s /\ row.baselineXp = proofOf(s).xp
        /\ row.baselineObservedAt = proofOf(s).observedAt
    BY <1>3 DEF NewBaseline
  <2>2. \A r \in baselines : ~(r.wallet = row.wallet /\ r.configHash = row.configHash)
    BY <1>4, <2>1 DEF baselineRow
  <2>3. \A q, r \in baselines' : q.wallet = r.wallet /\ q.configHash = r.configHash => q = r
    BY <1>4, <2>2 DEF BackedInv, BackendInv, BaselinesOK
  <2>4. \A r \in baselines' : proved(r.session) /\ r.baselineXp = proofOf(r.session).xp
                              /\ r.baselineObservedAt = proofOf(r.session).observedAt
    BY <1>2, <1>4, <2>1 DEF BackedInv, BackendInv, BaselinesOK
  <2> QED BY <1>8, <2>3, <2>4 DEF BaselinesOK, Forward
<1>11. HandlersOK'
  <2>1. PICK r : r = Idle
    OBVIOUS
  <2>2. HandlerOK(r)'
    BY <2>1 DEF HandlerOK
  <2> QED BY <1>7, <1>8, <2>1, <2>2, HandlersFrame DEF BackedInv, BackendInv
<1>12. x.session = s
  BY <1>6 DEF buildBaselineAttestation
<1>13. AttestationsOK'
  <2>1. ASSUME NEW y \in attestations PROVE Backed(y)'
    BY <1>8, AttestationStays DEF BackedInv, BackendInv, AttestationsOK
  <2>2. Backed(x)'
    <3>1. issuedAt \in Int /\ issuedAt <= now
      BY <1>0, <1>2, <1>5 DEF signingTimes
    <3>2. /\ x.kind = "baseline" /\ x.issuedAt = issuedAt
          /\ x.account = sessions[s].wallet /\ x.configHash = sessions[s].configHash
          /\ x.identityHash = sessions[s].profile
      BY <1>6 DEF buildBaselineAttestation
    <3>3. row \in baselineRow(x.account, x.configHash)' /\ row.session = s
          /\ row.identityHash = x.identityHash
      BY <1>3, <1>4, <3>2 DEF baselineRow, NewBaseline
    <3> QED BY <1>2, <1>7, <1>8, <1>12, <3>1, <3>2, <3>3 DEF Backed, Forward
  <2> QED BY <1>5, <1>6, <2>1, <2>2 DEF AttestationsOK
<1>14. OneAttestationPerSession'
  BY <1>4, <1>5, <1>6, <1>12, FreshAttestation DEF BackedInv, BackendInv
<1>15. BurnedSessionLeavesBaseline'
  <2> SUFFICES ASSUME NEW t \in DOMAIN sessions, sessions'[t].consumed, sessions'[t].intent # "final"
               PROVE  \E r \in baselines' : r.wallet = sessions'[t].wallet
                                           /\ r.configHash = sessions'[t].configHash
    BY <1>8 DEF BurnedSessionLeavesBaseline, baselineRow
  <2>1. CASE t = s
    BY <1>2, <1>3, <1>4, <1>8, <2>1 DEF Forward, NewBaseline
  <2>2. CASE t # s
    BY <1>4, <1>8, <2>2 DEF BackedInv, BackendInv, BurnedSessionLeavesBaseline, baselineRow
  <2> QED BY <2>1, <2>2
<1>. QED
  BY <1>8, <1>9, <1>10, <1>11, <1>13, <1>14, <1>15 DEF BackedInv, BackendInv

LEMMA RefusalKeepsInv ==
  ASSUME BackedInv, NEW h \in Handlers, RefuseBaseline(h)
  PROVE  BackedInv'
<1>0. HandlerOK(handlers[h])
  BY DEF BackedInv, BackendInv, HandlersOK
<1>1. PICK s : s = handlers[h].session
  OBVIOUS
<1>2. s \in DOMAIN sessions
  BY <1>0, <1>1, HandlerHolds DEF RefuseBaseline
<1>3. /\ consume(s) /\ sessions[s].intent \in {"create", "join"}
      /\ ~(recordable(s) /\ canInsertBaseline(s))
  BY <1>1 DEF RefuseBaseline
<1>4. UNCHANGED <<now, contractVars, xp, proofs, baselines, attestations>>
  BY DEF RefuseBaseline, contractVars
<1>5. PICK r : r = [step |-> "refused", session |-> s]
  OBVIOUS
<1>6. handlers' = [handlers EXCEPT ![h] = r]
  BY <1>1, <1>5 DEF RefuseBaseline
<1>7. /\ Forward /\ SessionsOK' /\ ProofsOK'
      /\ DOMAIN sessions' = DOMAIN sessions /\ sessions'[s].consumed = TRUE
      /\ \A t \in DOMAIN sessions : t # s => sessions'[t] = sessions[t]
  BY <1>2, <1>3, <1>4, ConsumeStep
<1>8. ChainInv'
  BY <1>4, <1>7, ChainFrame
<1>9. BaselinesOK' /\ AttestationsOK' /\ OneAttestationPerSession'
  BY <1>4, <1>7, BaselinesFrame, AttestationsFrame
     DEF BackedInv, BackendInv, OneAttestationPerSession
<1>10. HandlersOK'
  <2>1. HandlerOK(r)'
    BY <1>2, <1>5, <1>7 DEF HandlerOK
  <2> QED BY <1>6, <1>7, <2>1, HandlersFrame DEF BackedInv, BackendInv
<1>11. BurnedSessionLeavesBaseline'
  <2> SUFFICES ASSUME NEW t \in DOMAIN sessions, sessions'[t].consumed, sessions'[t].intent # "final"
               PROVE  baselineRow(sessions'[t].wallet, sessions'[t].configHash) # {}
    BY <1>4, <1>7 DEF BurnedSessionLeavesBaseline, baselineRow
  <2>1. CASE t = s
    <3>1. baselineRow(sessions[s].wallet, sessions[s].configHash) # {}
      BY <1>2, <1>3, <2>1
         DEF recordable, canInsertBaseline, BackedInv, BackendInv, BurnedSessionLeavesBaseline
    <3> QED BY <1>2, <1>7, <2>1, <3>1 DEF Forward
  <2>2. CASE t # s
    BY <1>7, <2>2 DEF BackedInv, BackendInv, BurnedSessionLeavesBaseline
  <2> QED BY <2>1, <2>2
<1>. QED
  BY <1>7, <1>8, <1>9, <1>10, <1>11 DEF BackedInv, BackendInv

LEMMA FinalRecordKeepsInv ==
  ASSUME BackedInv, NEW h \in Handlers, NEW delivered \in BOOLEAN, RecordFinal(h, delivered)
  PROVE  BackedInv' /\ baselines' = baselines
<1>0. HandlerOK(handlers[h]) /\ now \in Nat
  BY DEF BackedInv, BackendInv, HandlersOK, ChainInv, ChainShape
<1>1. PICK s : s = handlers[h].session
  OBVIOUS
<1>2. Earned(s) /\ handlers[h].since \in Nat /\ s \in DOMAIN sessions
  BY <1>0, <1>1, HandlerHolds DEF RecordFinal, Earned
<1>r. PICK row :
         /\ consumeAndSaveFinal(s, row)
         /\ \E issuedAt \in signingTimes(h) :
              attestations' = attestations \cup {buildFinalAttestation(s, row, issuedAt, delivered)}
  BY <1>1 DEF RecordFinal
<1>3. PICK issuedAt \in signingTimes(h) :
         attestations' = attestations \cup {buildFinalAttestation(s, row, issuedAt, delivered)}
  BY <1>r
<1>4. ~sessions[s].consumed /\ consume(s)
  BY <1>r DEF consumeAndSaveFinal, recordable
<1>5. PICK x : x = buildFinalAttestation(s, row, issuedAt, delivered)
  OBVIOUS
<1>6. /\ UNCHANGED <<now, contractVars, xp, proofs, baselines>>
      /\ handlers' = [handlers EXCEPT ![h] = Idle]
  BY DEF RecordFinal, contractVars
<1>7. /\ Forward /\ SessionsOK' /\ ProofsOK'
      /\ DOMAIN sessions' = DOMAIN sessions /\ sessions'[s].consumed = TRUE
      /\ \A t \in DOMAIN sessions : t # s => sessions'[t] = sessions[t]
  BY <1>2, <1>4, <1>6, ConsumeStep
<1>8. ChainInv' /\ BaselinesOK'
  BY <1>6, <1>7, ChainFrame, BaselinesFrame DEF BackedInv, BackendInv
<1>9. HandlersOK'
  <2>1. PICK r : r = Idle
    OBVIOUS
  <2>2. HandlerOK(r)'
    BY <2>1 DEF HandlerOK
  <2> QED BY <1>6, <1>7, <2>1, <2>2, HandlersFrame DEF BackedInv, BackendInv
<1>10. x.session = s
  BY <1>5 DEF buildFinalAttestation
<1>11. AttestationsOK'
  <2>1. ASSUME NEW y \in attestations PROVE Backed(y)'
    BY <1>7, AttestationStays DEF BackedInv, BackendInv, AttestationsOK
  <2>2. Backed(x)'
    <3>1. issuedAt \in Int /\ issuedAt <= now
      BY <1>0, <1>2, <1>3 DEF signingTimes
    <3>2. /\ x.kind = "final" /\ x.issuedAt = issuedAt /\ x.pactId = sessions[s].pactId
          /\ x.account = sessions[s].wallet /\ x.identityHash = sessions[s].profile
      BY <1>5 DEF buildFinalAttestation
    <3>3. Earned(s)'
      BY <1>2, <1>7, EarnedStays DEF BackedInv, BackendInv
    <3> QED BY <1>2, <1>6, <1>7, <1>10, <3>1, <3>2, <3>3 DEF Backed, Forward
  <2> QED BY <1>3, <1>5, <2>1, <2>2 DEF AttestationsOK
<1>12. OneAttestationPerSession'
  BY <1>3, <1>4, <1>5, <1>10, FreshAttestation DEF BackedInv, BackendInv
<1>13. BurnedSessionLeavesBaseline'
  <2> SUFFICES ASSUME NEW t \in DOMAIN sessions, sessions'[t].consumed, sessions'[t].intent # "final"
               PROVE  baselineRow(sessions'[t].wallet, sessions'[t].configHash) # {}
    BY <1>6, <1>7 DEF BurnedSessionLeavesBaseline, baselineRow
  <2>1. t # s
    BY <1>2, <1>7 DEF Earned, Forward
  <2> QED BY <1>7, <2>1 DEF BackedInv, BackendInv, BurnedSessionLeavesBaseline
<1>. QED
  BY <1>6, <1>7, <1>8, <1>9, <1>11, <1>12, <1>13 DEF BackedInv, BackendInv

-----------------------------------------------------------------------------

LEMMA InitBacked == LockInit => BackedInv
<1> SUFFICES ASSUME LockInit PROVE BackedInv
  OBVIOUS
<1>1. ChainShape
  <2>1. \A p \in PactIds : /\ "creator" \in DOMAIN pacts[p] /\ "terms" \in DOMAIN pacts[p]
                          /\ pacts[p].terms = ZeroTerms /\ pacts[p].creator = NoAddress
    BY DEF LockInit, ZeroPact
  <2> QED BY <2>1 DEF LockInit, ChainShape, Exists, terms
<1>2. StakesBacked /\ CompletionsBacked
  BY DEF LockInit, StakesBacked, CompletionsBacked
<1>3. SessionsOK
  BY BackendConstants DEF LockInit, SessionsOK
<1>4. ProofsOK
  BY BackendConstants DEF LockInit, ProofsOK
<1>5. HandlersOK
  BY DEF LockInit, HandlersOK, HandlerOK
<1>6. BaselinesOK /\ AttestationsOK /\ OneAttestationPerSession
  BY DEF LockInit, BaselinesOK, AttestationsOK, OneAttestationPerSession
<1>7. BurnedSessionLeavesBaseline
  BY DEF LockInit, BurnedSessionLeavesBaseline
<1>. QED
  BY <1>1, <1>2, <1>3, <1>4, <1>5, <1>6, <1>7 DEF BackedInv, ChainInv, BackendInv

(* A step keeps the invariant, and keeps every row.                        *)
LEMMA StepKeepsInv ==
  ASSUME BackedInv, [LockNext]_lockSystemVars
  PROVE  BackedInv' /\ baselines \subseteq baselines'
<1>1. ASSUME OnChain, UNCHANGED <<xp, backendVars>> PROVE BackedInv' /\ baselines' = baselines
  BY <1>1, ChainStepKeepsInv
<1>2. ASSUME NEW h \in Handlers, Backend(h) PROVE BackedInv' /\ baselines \subseteq baselines'
  <2>1. ASSUME NEW w \in Wallets, NEW i \in IdentitiesOf[w],
               \/ \E c \in Configurations : OpenCreate(h, w, i, c)
               \/ \E p \in PactIds : OpenJoin(h, w, i, p) \/ OpenFinal(h, w, i, p)
        PROVE  BackedInv' /\ baselines' = baselines
    BY <2>1, OpenKeepsInv DEF OpenCreate, OpenJoin, OpenFinal, Opening, dbVars
  <2>2. ASSUME \/ \E s \in DOMAIN sessions : BeginVerify(h, s)
               \/ FetchProof(h) \/ ReadPact(h) \/ ReadPlayer(h) \/ CheckFinal(h) \/ EndRequest(h)
        PROVE  BackedInv' /\ baselines' = baselines
    <3>1. baselines' = baselines
      BY <2>2 DEF BeginVerify, FetchProof, ReadPact, ReadPlayer, CheckFinal, EndRequest, dbVars
    <3> QED BY <2>2, <3>1, RequestStepKeepsInv
  <2>3. ASSUME SaveSession(h) PROVE BackedInv' /\ baselines' = baselines
    BY <2>3, SaveKeepsInv DEF SaveSession
  <2>4. ASSUME NEW delivered \in BOOLEAN, RecordBaseline(h, delivered)
        PROVE  BackedInv' /\ baselines \subseteq baselines'
    BY <2>4, BaselineKeepsInv DEF RecordBaseline
  <2>5. ASSUME NEW delivered \in BOOLEAN, RecordFinal(h, delivered)
        PROVE  BackedInv' /\ baselines' = baselines
    BY <2>5, FinalRecordKeepsInv
  <2>6. ASSUME RefuseBaseline(h) PROVE BackedInv' /\ baselines' = baselines
    BY <2>6, RefusalKeepsInv DEF RefuseBaseline
  <2> QED BY <1>2, <2>1, <2>2, <2>3, <2>4, <2>5, <2>6 DEF Backend
<1>3. ASSUME NEW i \in Identities, Practise(i) PROVE BackedInv' /\ baselines' = baselines
  BY <1>3, PractiseKeepsInv DEF Practise, backendVars, dbVars
<1>4. ASSUME NEW s \in DOMAIN sessions, Capture(s) PROVE BackedInv' /\ baselines' = baselines
  BY <1>4, CaptureKeepsInv DEF Capture, dbVars
<1>5. ASSUME UNCHANGED lockSystemVars PROVE BackedInv' /\ baselines' = baselines
  <2>1. UNCHANGED <<contractVars, xp, backendVars>>
    BY <1>5 DEF lockSystemVars
  <2>2. UNCHANGED <<proofs, sessions, baselines>> /\ UNCHANGED <<now, pacts>>
    BY <2>1 DEF backendVars, dbVars, contractVars, lockVars
  <2>3. \A s : proved(s) => proved(s)' /\ proofOf(s)' = proofOf(s)
    BY <2>2 DEF proved, proofOf
  <2>4. Forward
    BY <2>1, <2>2, <2>3, BackendForward
  <2> QED BY <2>1, <2>2, <2>4, ChainFrame, BackendFrame DEF BackedInv
<1>. QED
  BY <1>1, <1>2, <1>3, <1>4, <1>5 DEF LockNext

LEMMA AlwaysBacked == LockSpec => []BackedInv
<1>1. BackedInv /\ [LockNext]_lockSystemVars => BackedInv'
  BY StepKeepsInv
<1>. QED
  BY InitBacked, <1>1, PTL DEF LockSpec

(* Every variable of the backend keeps its type.                           *)
THEOREM BackendTypesHold == LockSpec => []BackendTypeOK
<1>1. ASSUME BackedInv PROVE BackendTypeOK
  <2>1. \A s \in DOMAIN sessions : sessions[s] \in SessionRow
    BY <1>1 DEF BackedInv, BackendInv, SessionsOK
  <2>2. \A s \in DOMAIN sessions :
          /\ sessions[s].wallet \in Wallets
          /\ sessions[s].intent \in {"create", "join", "final"}
          /\ sessions[s].profile \in IdentitiesOf[sessions[s].wallet]
          /\ sessions[s].createdAt <= now
    BY <1>1, <2>1 DEF BackedInv, BackendInv, SessionsOK, SessionRow
  <2>3. \A h \in Handlers : handlers[h].step \in
          {"idle", "saving", "fetching", "signing", "refused", "reading", "signingFinal"}
    BY <1>1 DEF BackedInv, BackendInv, HandlersOK, HandlerOK, Idle, SavingOK, BeforeItsRow
  <2> QED BY <1>1, <2>2, <2>3
          DEF BackendTypeOK, BackedInv, BackendInv, SessionsOK, ProofsOK, AttestationsOK, Backed
<1>. QED
  BY AlwaysBacked, <1>1, PTL

(* Whatever polls, restarts and lost replies do, one Reclaim session never *)
(* yields a second attestation (duolingo-escrow-store.ts consumes it in    *)
(* the statement that records it).                                         *)
THEOREM SessionsAreWorthOneAttestation == LockSpec => []OneAttestationPerSession
<1>1. BackedInv => OneAttestationPerSession
  BY DEF BackedInv, BackendInv
<1>. QED
  BY AlwaysBacked, <1>1, PTL

(* However a request ends, a consumed baseline session has left the row    *)
(* of its wallet and Lock (duolingo-escrow-store.ts:150).                  *)
THEOREM BurnedSessionsLeaveBaselines == LockSpec => []BurnedSessionLeavesBaseline
<1>1. BackedInv => BurnedSessionLeavesBaseline
  BY DEF BackedInv, BackendInv
<1>. QED
  BY AlwaysBacked, <1>1, PTL

(* A recorded baseline is never changed, removed or given a rival.         *)
THEOREM BaselinesNeverChange == LockSpec => BaselinesAreFinal
<1>1. ASSUME BackedInv, BackedInv', [LockNext]_lockSystemVars
      PROVE  [/\ baselines \subseteq baselines'
              /\ \A r \in baselines, q \in baselines' :
                    r.wallet = q.wallet /\ r.configHash = q.configHash => r = q]_lockSystemVars
  <2>1. baselines \subseteq baselines'
    BY <1>1, StepKeepsInv
  <2>2. \A r, q \in baselines' : r.wallet = q.wallet /\ r.configHash = q.configHash => r = q
    BY <1>1 DEF BackedInv, BackendInv, BaselinesOK
  <2> QED BY <2>1, <2>2
<1>. QED
  BY AlwaysBacked, <1>1, PTL DEF LockSpec, BaselinesAreFinal

(* Every stake on chain has exactly one baseline row, for the account the  *)
(* contract bound, with the XP its proof stated.                           *)
THEOREM StakesHaveTheirBaseline == LockSpec => []EveryStakeHasItsBaseline
<1>1. ASSUME BackedInv PROVE EveryStakeHasItsBaseline
  <2> SUFFICES ASSUME NEW p \in PactIds, NEW w \in joined[p]
               PROVE  /\ Cardinality(baselineRow(w, terms(p))) = 1
                      /\ \A r \in baselineRow(w, terms(p)) :
                            /\ r.identityHash = participantIdentity[p][w]
                            /\ r.baselineXp = proofOf(r.session).xp
    BY DEF EveryStakeHasItsBaseline
  <2>1. PICK r \in baselineRow(w, terms(p)) : r.identityHash = participantIdentity[p][w]
    BY <1>1 DEF BackedInv, ChainInv, StakesBacked
  <2>2. \A q \in baselineRow(w, terms(p)) : q = r
    BY <1>1 DEF baselineRow, BackedInv, BackendInv, BaselinesOK
  <2>3. baselineRow(w, terms(p)) = {r}
    BY <2>1, <2>2
  <2>4. Cardinality({r}) = 1
    BY FS_Singleton
  <2>5. r.baselineXp = proofOf(r.session).xp
    BY <1>1 DEF baselineRow, BackedInv, BackendInv, BaselinesOK
  <2> QED BY <2>1, <2>3, <2>4, <2>5
<1>. QED
  BY AlwaysBacked, <1>1, PTL

(* The point of the product, for any number of players, sessions and       *)
(* requests: who completed a Lock on chain earned its target, on the       *)
(* account of the stake, between any baseline ever attested for it and a   *)
(* proof taken during the challenge.                                       *)
THEOREM CompletionsWereEarned == LockSpec => []CompletionsAreEarned
<1>1. ASSUME BackedInv PROVE CompletionsAreEarned
  <2> SUFFICES ASSUME NEW p \in PactIds, NEW w \in completed[p]
               PROVE  \E f \in DOMAIN sessions :
                         /\ sessions[f].wallet = w /\ sessions[f].pactId = p
                         /\ sessions[f].intent = "final"
                         /\ proved(f)
                         /\ sessions[f].profile = participantIdentity[p][w]
                         /\ proofOf(f).observedAt \in startsAt(p) .. endsAt(p)
                         /\ \A x \in baselineAttestations :
                               x.account = w /\ x.configHash = terms(p) =>
                                  /\ x.identityHash = sessions[f].profile
                                  /\ proofOf(x.session).observedAt < proofOf(f).observedAt
                                  /\ proofOf(f).xp - proofOf(x.session).xp >= terms(p).targetXp
    BY DEF CompletionsAreEarned
  <2>1. PICK f \in DOMAIN sessions :
            /\ Earned(f)
            /\ sessions[f].wallet = w /\ sessions[f].pactId = p
            /\ sessions[f].profile = participantIdentity[p][w]
    BY <1>1 DEF BackedInv, ChainInv, CompletionsBacked
  <2>2. PICK row \in baselineRow(w, terms(p)) : deltaOK(f, row) /\ sessions[f].profile = row.identityHash
    BY <2>1 DEF Earned
  <2>3. /\ proofOf(f).observedAt >= startsAt(p) /\ proofOf(f).observedAt <= endsAt(p)
        /\ proofOf(f).observedAt > row.baselineObservedAt
        /\ proofOf(f).xp - row.baselineXp >= terms(p).targetXp
    BY <2>1, <2>2 DEF deltaOK, earnedXp
  <2>4. ASSUME NEW s, proved(s) PROVE proofOf(s).observedAt \in Nat /\ proofOf(s).xp \in Nat
    <3>1. PICK q \in proofs : q.session = s
      BY <2>4 DEF proved
    <3>2. proofOf(s) \in proofs
      BY <3>1 DEF proofOf
    <3>3. MaxXp \in Nat
      BY BackendConstants
    <3> QED BY <1>1, <3>2, <3>3 DEF BackedInv, BackendInv, ProofsOK
  <2>5. startsAt(p) \in Nat /\ endsAt(p) \in Nat
    <3>1. terms(p) \in Configurations \cup {ZeroTerms}
      BY <1>1 DEF BackedInv, ChainInv, ChainShape
    <3>2. terms(p).startsAt \in Nat /\ terms(p).durationSeconds \in Nat
      <4>1. CASE terms(p) = ZeroTerms
        BY <4>1 DEF ZeroTerms
      <4>2. CASE terms(p) \in Configurations
        BY <4>2, EscrowConstants, PauseBounds DEF Configurations, Times
      <4> QED BY <3>1, <4>1, <4>2
    <3> QED BY <3>2 DEF startsAt, endsAt
  <2>6. proofOf(f).observedAt \in startsAt(p) .. endsAt(p)
    BY <2>1, <2>3, <2>4, <2>5 DEF Earned
  <2>7. ASSUME NEW x \in baselineAttestations, x.account = w, x.configHash = terms(p)
        PROVE  /\ x.identityHash = sessions[f].profile
               /\ proofOf(x.session).observedAt < proofOf(f).observedAt
               /\ proofOf(f).xp - proofOf(x.session).xp >= terms(p).targetXp
    <3>1. PICK r \in baselineRow(w, terms(p)) : r.session = x.session /\ r.identityHash = x.identityHash
      BY <1>1, <2>7 DEF baselineAttestations, BackedInv, BackendInv, AttestationsOK, Backed
    <3>2. r = row
      BY <1>1, <2>2, <3>1 DEF baselineRow, BackedInv, BackendInv, BaselinesOK
    <3>3. /\ proved(x.session) /\ r.baselineXp = proofOf(x.session).xp
          /\ r.baselineObservedAt = proofOf(x.session).observedAt
      BY <1>1, <3>1 DEF baselineRow, BackedInv, BackendInv, BaselinesOK
    <3>4. proofOf(x.session).observedAt \in Nat /\ proofOf(f).observedAt \in Nat
      BY <2>1, <2>4, <3>3 DEF Earned
    <3> QED BY <2>2, <2>3, <3>1, <3>2, <3>3, <3>4
  <2> QED BY <2>1, <2>6, <2>7 DEF Earned
<1>. QED
  BY AlwaysBacked, <1>1, PTL
=============================================================================
