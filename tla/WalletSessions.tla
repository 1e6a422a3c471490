--------------------------- MODULE WalletSessions ---------------------------
(***************************************************************************)
(* Who a browser's requests may speak for: src/wallet-auth-server.ts and   *)
(* -client.ts, app/api/auth/challenge and session.  The server keeps       *)
(* nothing: a challenge and a session are payloads it signed itself.  The  *)
(* browser keeps one cookie that all its tabs share, and a tab's answers   *)
(* reach it some time after the server gave them.                          *)
(***************************************************************************)
EXTENDS Integers, FiniteSets

CONSTANTS
    Accounts, NoAccount, Tabs,
    ChallengeTtl, CookieTtl,    \* WALLET_AUTH_CHALLENGE_TTL_MS and _SESSION_TTL_MS
    MaxHour                     \* bound on the clock

ASSUME WalletSessionAssumption == ChallengeTtl \in Nat \ {0} /\ CookieTtl \in Nat /\ ChallengeTtl <= CookieTtl

VARIABLES
    hour,
    allowed,        \* CANARY_ALLOWED_WALLETS
    cookie,         \* the browser's __Host-lock-in-wallet-session
    tabs,           \* where each tab is in ensureWalletSession or hasWalletSession
    signed,         \* history: when each wallet last signed a challenge, 0 for never
    spoken          \* history: whom the last request was let through for

sessionVars == <<hour, allowed, cookie, tabs, signed, spoken>>

NoToken == {}
IdleTab == [step |-> "idle", wallet |-> NoAccount, token |-> NoToken]

SessionsInit ==
    /\ hour = 1 /\ allowed = Accounts
    /\ cookie = NoToken
    /\ tabs = [t \in Tabs |-> IdleTab]
    /\ signed = [w \in Accounts |-> 0] /\ spoken = {}

Hours ==
    /\ hour < MaxHour
    /\ hour' = hour + 1
    /\ spoken' = {}
    /\ UNCHANGED <<allowed, cookie, tabs, signed>>

\* A deployment that lets other wallets in.
Configure(list) ==
    /\ allowed' = list /\ allowed # list
    /\ spoken' = {}
    /\ UNCHANGED <<hour, cookie, tabs, signed>>

assertCanaryWalletAllowed(w) == w \in allowed

\* parseChallengePayload and parseSessionPayload: a token lives until its TTL is over.
Bug_parseChallengePayload(token) == TRUE    \* bug: the expiry is not looked at
parseChallengePayload(token) == hour < token.issuedAt + ChallengeTtl
parseSessionPayload(token) == hour < token.issuedAt + CookieTtl

\* requireWalletAuthSession with the cookie the request carries.
requireWalletAuthSession(w) ==
    \E token \in cookie :
        /\ parseSessionPayload(token)
        /\ assertCanaryWalletAllowed(w)
        /\ token.wallet = w

Idle(t) == tabs' = [tabs EXCEPT ![t] = IdleTab]
Answer(t, step, token) == tabs' = [tabs EXCEPT ![t].step = step, ![t].token = token]

-----------------------------------------------------------------------------
(* GET /api/auth/session, asked first by both client functions; any failure  *)
(* answers with a cleared cookie.                                            *)
GetSession(t, w, client) ==
    /\ tabs[t].step = "idle"
    /\ tabs' = [tabs EXCEPT ![t] =
          [step |-> IF requireWalletAuthSession(w) THEN "known" ELSE client, wallet |-> w, token |-> NoToken]]
    /\ UNCHANGED <<hour, allowed, cookie, signed>>
    /\ spoken' = {}

ReceiveKnown(t) ==
    /\ tabs[t].step = "known"
    /\ Idle(t)
    /\ UNCHANGED <<hour, allowed, cookie, signed>>
    /\ spoken' = {}

ReceiveUnknown(t) ==
    /\ tabs[t].step \in {"hasWalletSession", "ensureWalletSession"}
    /\ cookie' = NoToken
    /\ IF tabs[t].step = "hasWalletSession" THEN Idle(t) ELSE Answer(t, "challenge", NoToken)
    /\ UNCHANGED <<hour, allowed, signed>>
    /\ spoken' = {}

(* GET /api/auth/challenge.                                                  *)
createWalletAuthChallenge(t) ==
    /\ tabs[t].step = "challenge"
    /\ assertCanaryWalletAllowed(tabs[t].wallet)
    /\ Answer(t, "sign", {[wallet |-> tabs[t].wallet, issuedAt |-> hour]})
    /\ UNCHANGED <<hour, allowed, cookie, signed>>
    /\ spoken' = {}

(* The wallet's owner signs, whenever they look at the prompt.               *)
signMessage(t) ==
    /\ tabs[t].step = "sign"
    /\ signed' = [signed EXCEPT ![tabs[t].wallet] = hour]
    /\ Answer(t, "post", tabs[t].token)
    /\ UNCHANGED <<hour, allowed, cookie>>
    /\ spoken' = {}

(* POST /api/auth/session: a challenge is not used up, only out of date.     *)
issueWalletAuthSession(t) ==
    /\ tabs[t].step = "post"
    /\ \E token \in tabs[t].token :
         /\ parseChallengePayload(token)
         /\ assertCanaryWalletAllowed(token.wallet)
         /\ Answer(t, "issued", {[wallet |-> token.wallet, issuedAt |-> hour]})
    /\ UNCHANGED <<hour, allowed, cookie, signed>>
    /\ spoken' = {}

ReceiveSession(t) ==
    /\ tabs[t].step = "issued"
    /\ cookie' = tabs[t].token
    /\ Idle(t)
    /\ UNCHANGED <<hour, allowed, signed>>
    /\ spoken' = {}

(* A refusal, a rejected prompt, a closed tab.                               *)
GiveUp(t) ==
    /\ tabs[t].step \in {"challenge", "sign", "post"}
    /\ Idle(t)
    /\ UNCHANGED <<hour, allowed, cookie, signed>>
    /\ spoken' = {}

(* Any endpoint that asks for the wallet's session.                          *)
Request(w) ==
    /\ requireWalletAuthSession(w)
    /\ spoken' = {w}
    /\ UNCHANGED <<hour, allowed, cookie, tabs, signed>>

SessionsNext ==
    \/ Hours
    \/ \E list \in SUBSET Accounts : Configure(list)
    \/ \E w \in Accounts : Request(w)
    \/ \E t \in Tabs :
         \/ \E w \in Accounts, client \in {"hasWalletSession", "ensureWalletSession"} : GetSession(t, w, client)
         \/ ReceiveKnown(t) \/ ReceiveUnknown(t) \/ createWalletAuthChallenge(t) \/ signMessage(t)
         \/ issueWalletAuthSession(t) \/ ReceiveSession(t) \/ GiveUp(t)

SessionsSpec == SessionsInit /\ [][SessionsNext]_sessionVars

-----------------------------------------------------------------------------
(* A request is let through for a wallet only while the wallet is on the     *)
(* list and its own signature is less than a challenge's and a session's     *)
(* life old, whatever the tabs did with each other's cookie.                 *)
SpeaksOnlyForSigners ==
    \A w \in spoken :
        /\ w \in allowed
        /\ signed[w] > 0 /\ hour < signed[w] + ChallengeTtl + CookieTtl
=============================================================================
