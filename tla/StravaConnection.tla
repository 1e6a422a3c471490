--------------------------- MODULE StravaConnection ---------------------------
(***************************************************************************)
(* The Strava connection of a wallet (src/strava-oauth.ts,                 *)
(* src/strava-token-store.ts and app/api/strava/{authorize, callback,      *)
(* connection, checkin}): OAuth states, one row of tokens per wallet, and  *)
(* the requests that interleave on it at their awaits. Every SQL statement *)
(* and every call to Strava is a step of its own; a request may die        *)
(* between any two, and a reply of Strava may be lost.                     *)
(*                                                                         *)
(* Strava is external. It holds at most one grant per athlete. A pair of   *)
(* tokens is the athlete it is for and a number: issuing either repeats    *)
(* the current refresh token or replaces it, and then the old one is dead. *)
(* Access tokens work until the grant is revoked. They live for hours and  *)
(* the clock here counts an OAuth state's window, so how much is left of a *)
(* stored one when it is read is a choice.                                 *)
(***************************************************************************)
EXTENDS Naturals, Sequences, FiniteSetsExt

CONSTANTS
    Wallets, Athletes,
    Requests,       \* bound of the model: requests in progress at a time
    MaxTime,        \* bound of the model: the clock
    MaxStates,      \* bound of the model: OAuth states ever issued
    MaxTokens,      \* bound of the model: token pairs Strava issues
    StateTtl        \* STATE_TTL_MS

ASSUME StravaBounds == MaxTime \in Nat /\ MaxStates \in Nat /\ MaxTokens \in Nat /\ StateTtl \in Nat

VARIABLES
    now,
    states,         \* the signed OAuth states that were issued, in order
    usedStates,     \* strava_oauth_states: the states on record as used
    uses,           \* state -> the times it was accepted at
    rows,           \* strava_connections: wallet -> row
    grants,         \* Strava: athlete -> its grant
    requests        \* the requests in progress

vars == <<now, states, usedStates, uses, rows, grants, requests>>

Idle == [step |-> "idle"]
NoRow == [connected |-> FALSE]
Tokens == [athlete : Athletes, number : 1 .. MaxTokens]
Row(a, t) == [connected |-> TRUE, athlete |-> a, tokens |-> t]

Init ==
    /\ now = 0
    /\ states = <<>> /\ usedStates = {}
    /\ uses = [s \in 1 .. MaxStates |-> <<>>]
    /\ rows = [w \in Wallets |-> NoRow]
    /\ grants = [a \in Athletes |-> [issued |-> 0, refresh |-> 0, access |-> {}]]
    /\ requests = [h \in Requests |-> Idle]

-----------------------------------------------------------------------------
(* Strava.                                                                 *)

tokensIssued == MapThenSumSet(LAMBDA a : grants[a].issued, Athletes)

(* A token pair t is issued to athlete a; refresh = 0 means no grant. *)
issue(a, t) ==
    /\ t.athlete = a
    /\ \/ t.number = grants[a].refresh
       \/ t.number = grants[a].issued + 1 /\ tokensIssued < MaxTokens
    /\ grants' = [grants EXCEPT ![a] =
          [issued |-> IF t.number > @.issued THEN t.number ELSE @.issued,
           refresh |-> t.number, access |-> @.access \cup {t.number}]]

refreshes(t) == grants[t.athlete].refresh = t.number
opens(t) == t.number \in grants[t.athlete].access
withdraw(t) == grants' = [grants EXCEPT ![t.athlete].refresh = 0, ![t.athlete].access = {}]

-----------------------------------------------------------------------------
(* Authorize, and the clock.                                               *)

issueStravaState(w) ==
    /\ Len(states) < MaxStates
    /\ states' = Append(states, [wallet |-> w, expiresAt |-> now + StateTtl])
    /\ UNCHANGED <<now, usedStates, uses, rows, grants, requests>>

Tick ==
    /\ now < MaxTime
    /\ now' = now + 1
    /\ UNCHANGED <<states, usedStates, uses, rows, grants, requests>>

-----------------------------------------------------------------------------
(* GET callback: athlete a comes back from Strava with state s.            *)

verifyStravaState(h, s, a) ==
    /\ requests[h] = Idle
    /\ states[s].expiresAt >= now
    /\ requests' = [requests EXCEPT ![h] =
          [step |-> "pruning", state |-> s, wallet |-> states[s].wallet, athlete |-> a]]
    /\ UNCHANGED <<now, states, usedStates, uses, rows, grants>>

pruneStates(h) ==
    /\ requests[h].step = "pruning"
    /\ usedStates' = {s \in usedStates : states[s].expiresAt >= now}
    /\ requests' = [requests EXCEPT ![h].step = "consuming"]
    /\ UNCHANGED <<now, states, uses, rows, grants>>

Bug_unused(s) == TRUE   \* bug: the conflict on nonce_hash is not reported
unused(s) == s \notin usedStates

consumeStravaState(h) ==
    /\ requests[h].step = "consuming"
    /\ unused(requests[h].state)
    /\ usedStates' = usedStates \cup {requests[h].state}
    /\ uses' = [uses EXCEPT ![requests[h].state] = Append(@, now)]
    /\ requests' = [requests EXCEPT ![h].step = "exchanging"]
    /\ UNCHANGED <<now, states, rows, grants>>

exchangeStravaCode(h) ==
    /\ requests[h].step = "exchanging"
    /\ \E t \in Tokens :
          /\ issue(requests[h].athlete, t)
          /\ requests' = [requests EXCEPT ![h] =
                [step |-> "saving", wallet |-> @.wallet, athlete |-> @.athlete, tokens |-> t]]
    /\ UNCHANGED <<now, states, usedStates, uses, rows>>

Bug_athleteFree(w, a) == TRUE   \* bug: no unique index on athlete_id
athleteFree(w, a) == \A v \in Wallets \ {w} : rows[v].connected => rows[v].athlete # a

saveStravaConnection(h) ==
    /\ requests[h].step = "saving"
    /\ athleteFree(requests[h].wallet, requests[h].athlete)
    /\ rows' = [rows EXCEPT ![requests[h].wallet] =
          Row(requests[h].athlete, requests[h].tokens)]
    /\ requests' = [requests EXCEPT ![h] = Idle]
    /\ UNCHANGED <<now, states, usedStates, uses, grants>>

-----------------------------------------------------------------------------
(* getUsableStravaAccessToken, for a check-in or for DELETE connection;     *)
(* fresh: the stored access token has more than a minute left.             *)

readConnection(h, w, purpose, fresh) ==
    /\ requests[h] = Idle
    /\ rows[w].connected
    /\ requests' = [requests EXCEPT ![h] =
          [step |-> IF fresh THEN "using" ELSE "refreshing", purpose |-> purpose,
           wallet |-> w, athlete |-> rows[w].athlete, tokens |-> rows[w].tokens]]
    /\ UNCHANGED <<now, states, usedStates, uses, rows, grants>>

refreshStravaTokens(h) ==
    /\ requests[h].step = "refreshing"
    /\ refreshes(requests[h].tokens)
    /\ \E t \in Tokens :
          /\ issue(requests[h].tokens.athlete, t)
          /\ requests' = [requests EXCEPT ![h].step = "rotating", ![h].tokens = t]
    /\ UNCHANGED <<now, states, usedStates, uses, rows>>

Bug_rotateTokens(h) ==   \* bug: an upsert
    /\ requests[h].step = "rotating"
    /\ LET q == requests[h]
       IN  rows' = [rows EXCEPT ![q.wallet] = Row(q.athlete, q.tokens)]
    /\ requests' = [requests EXCEPT ![h].step = "using"]
    /\ UNCHANGED <<now, states, usedStates, uses, grants>>

(* UPDATE ... WHERE wallet_address: whatever row the wallet has by now. *)
rotateTokens(h) ==
    /\ requests[h].step = "rotating"
    /\ LET q == requests[h]
       IN  rows' = [rows EXCEPT ![q.wallet] =
              IF @.connected THEN Row(@.athlete, q.tokens) ELSE @]
    /\ requests' = [requests EXCEPT ![h].step = "using"]
    /\ UNCHANGED <<now, states, usedStates, uses, grants>>

(* The runs of the tokens' athlete, signed as those of the row's athlete. *)
checkin(h) ==
    /\ requests[h].step = "using" /\ requests[h].purpose = "checkin"
    /\ opens(requests[h].tokens)
    /\ requests' = [requests EXCEPT ![h].step = "signed"]
    /\ UNCHANGED <<now, states, usedStates, uses, rows, grants>>

(* Best effort: Strava may be out of reach, or know the token no longer. *)
revokeStravaGrant(h) ==
    /\ requests[h].step = "using" /\ requests[h].purpose = "disconnect"
    /\ \/ opens(requests[h].tokens) /\ withdraw(requests[h].tokens)
       \/ UNCHANGED grants
    /\ requests' = [requests EXCEPT ![h] = [step |-> "deleting", wallet |-> @.wallet]]
    /\ UNCHANGED <<now, states, usedStates, uses, rows>>

(* "either way there is nothing live to revoke": no row, a refresh that    *)
(* failed, one whose reply was lost, or a rotation that was.               *)
skipRevoke(h, w) ==
    /\ \/ requests[h] = Idle /\ ~rows[w].connected
       \/ /\ requests[h].step \in {"refreshing", "rotating"}
          /\ requests[h].purpose = "disconnect" /\ requests[h].wallet = w
    /\ requests' = [requests EXCEPT ![h] = [step |-> "deleting", wallet |-> w]]
    /\ UNCHANGED <<now, states, usedStates, uses, rows, grants>>

deleteStravaConnection(h) ==
    /\ requests[h].step = "deleting"
    /\ rows' = [rows EXCEPT ![requests[h].wallet] = NoRow]
    /\ requests' = [requests EXCEPT ![h] = Idle]
    /\ UNCHANGED <<now, states, usedStates, uses, grants>>

(* A check that fails, an error of Strava or the database, or a crash. *)
EndRequest(h) ==
    /\ requests[h] # Idle
    /\ requests' = [requests EXCEPT ![h] = Idle]
    /\ UNCHANGED <<now, states, usedStates, uses, rows, grants>>

-----------------------------------------------------------------------------

Callback(h) ==
    \/ \E s \in DOMAIN states, a \in Athletes : verifyStravaState(h, s, a)
    \/ pruneStates(h) \/ consumeStravaState(h) \/ exchangeStravaCode(h) \/ saveStravaConnection(h)

Connection(h) ==
    \/ \E w \in Wallets, purpose \in {"checkin", "disconnect"}, fresh \in BOOLEAN :
          readConnection(h, w, purpose, fresh)
    \/ refreshStravaTokens(h) \/ rotateTokens(h) \/ checkin(h)
    \/ revokeStravaGrant(h) \/ deleteStravaConnection(h)
    \/ \E w \in Wallets : skipRevoke(h, w)

Next ==
    \/ \E h \in Requests : Callback(h) \/ Connection(h) \/ EndRequest(h)
    \/ \E w \in Wallets : issueStravaState(w)
    \/ Tick

Spec == Init /\ [][Next]_vars

-----------------------------------------------------------------------------

(* Every variable keeps its type. *)
TypeOK ==
    /\ now \in 0 .. MaxTime
    /\ states \in Seq([wallet : Wallets, expiresAt : 0 .. MaxTime + StateTtl])
    /\ usedStates \subseteq DOMAIN states
    /\ \A w \in Wallets : rows[w].connected => rows[w].athlete \in Athletes /\ rows[w].tokens \in Tokens
    /\ \A a \in Athletes : grants[a].refresh <= grants[a].issued /\ grants[a].issued <= MaxTokens
    /\ \A h \in Requests : requests[h].step \in
          {"idle", "pruning", "consuming", "exchanging", "saving", "refreshing", "rotating",
           "using", "signed", "deleting"}

(* "`athlete_id` is unique so one Strava account cannot back two wallets"  *)
(* (strava-token-store.ts:10), however the callbacks of two wallets for    *)
(* one athlete interleave with disconnects of either.                      *)
OneWalletPerAthlete ==
    \A v, w \in Wallets :
        v # w /\ rows[v].connected /\ rows[w].connected => rows[v].athlete # rows[w].athlete

(* Inside its window a state is accepted once, although its record is      *)
(* pruned by whichever callback comes along after the window               *)
(* (strava-token-store.ts:89-90). Accepted after the window it can be a    *)
(* second time, by a callback that verified it in time.                    *)
StateUsedOnceInItsWindow ==
    \A s \in DOMAIN states :
        Cardinality({k \in DOMAIN uses[s] : uses[s][k] <= states[s].expiresAt}) <= 1

(* "The row goes" (strava-token-store.ts:194): a refresh that was in       *)
(* flight when the athlete disconnected does not bring the tokens back;    *)
(* only a new authorisation of that wallet does.                           *)
ForgottenStaysForgotten ==
    [][\A w \in Wallets : ~rows[w].connected /\ rows'[w].connected =>
          \E h \in Requests : requests[h].step = "saving" /\ requests[h].wallet = w]_vars

(* "Identity is the athlete, so one Strava account maps to one participant *)
(* per Lock" (strava-activities.ts:182): the identity a check-in signs is  *)
(* that of the athlete whose runs were read.                               *)
RunsBelongToTheirAthlete ==
    \A h \in Requests :
        requests[h].step = "signed" => requests[h].athlete = requests[h].tokens.athlete
=============================================================================
