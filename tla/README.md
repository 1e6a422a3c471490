# Lock In, verified

TLA+ models, TLC runs and TLAPS proofs for Lock In: people stake the same amount on a goal, those who
reach it share the pool. The repository holds two escrow contracts, the backends that attest what players
did, and a web client. This directory holds what has been specified, checked and proved of it. All paths
below are relative to the repository root.

## 1. The system

| Component | State | Operations | What is hard about it |
|---|---|---|---|
| Duolingo escrow, `contracts/LockInDuolingoEscrow.sol` | Locks, who joined/completed/claimed, identity maps, used nullifiers, pause ledger, token balance | create, join, submit a final, cancel, cancel by owner, finalize, claim, three pauses, signer | order of claims and rounding; one balance for all Locks; deadlines; pauses that overlap a Lock; settlement that nobody may block |
| Duolingo financial backend, `app/api/duolingo/escrow/{session,verify}/route.ts`, `src/duolingo-escrow-*.ts`, `src/duolingo-proof-policy.ts` | three tables: sessions, baselines, finals; requests in progress | open a session, verify a baseline, verify a final | awaits between reads and writes; two requests on one session; lost replies; expiries; unpinned chain reads |
| Strava escrow, `contracts/LockInEscrow.sol` | as above, with day bitmaps, scores, player handles, access nonces | create, join, submit a day, high five, cancel, finalize, claim, handles, pauses | several completions per player; days and Locks that overlap; global scores; the same pause ledger |
| Strava connection, `src/strava-oauth.ts`, `src/strava-token-store.ts`, `app/api/strava/*` | one row of tokens per wallet, consumed OAuth states; grants at Strava | authorize, callback, refresh, disconnect | refresh tokens rotate; callback, refresh and disconnect share a row; network failures |
| Strava check-in, `app/api/strava/checkin/route.ts`, `src/strava-activities.ts` | none | select a run, sign a completion | policy, runs and signature are of different moments; one page of activities is read |
| Admission, `app/api/access/route.ts` | none (nonces are consumed on chain) | sign an access attestation | decided on one block, used minutes later; a create attestation names no Lock |
| Wallet sessions, `src/wallet-auth-server.ts`, `-client.ts` | one cookie in the browser, nothing on the server | challenge, sign, session | tabs share the cookie; answers come late |
| Rate limiter, `src/rate-limit.ts` | fixed windows in a bounded map | check | eviction of live windows, cold starts |
| Leaderboard, `app/api/social/leaderboard/route.ts`, `src/social-score.ts` | a cached board | GET | events read in pages while blocks are added |
| Duolingo preview, `app/api/duolingo/{session,verify,run}`, `src/duolingo-preview-store.ts` | sessions, one run per wallet | baseline, final, start over | tabs interleave at every await |
| Health and product flags, `app/api/health/route.ts`, `src/product-flags.ts`, `components/use-release-health.ts` | a cached answer, a read in flight | GET, poll | switches turn while they are read; answers arrive in any order |
| Client, `components/` | a pending-transaction record, the wallet chooser | everything the player presses | it may be reloaded at any time; the wallet answers when it likes |
| Owner's scripts, `scripts/set-pauses.ts`, `canary.ts`, `cancel-pact.ts` | none | plan and send switches, reconcile, plan a cancellation | one transaction per switch, interrupted anywhere |
| Retired zkTLS path, deployment | see section 6 | | nothing settles on them |

How they interact: the client opens a session at the backend and shows the player Reclaim's page; Reclaim
captures a proof of the account's XP; the client polls `verify`, which checks the proof, consumes the session,
writes a row and replies with a signed attestation; the client presents that attestation to the contract,
with the stake (baseline) or alone (final). The contract believes the signature: it never sees XP. So the
money depends on the contract alone, and WHO deserves it depends on contract, backend and database together.
After the deadline anybody finalizes and winners claim.

What makes each part correct:

- contract: every unit staked is paid to the right wallets, exactly once, whatever the order of calls;
  outcomes do not change after the deadline; every Lock can always be settled; a proof has one effect and an
  account plays for one wallet of a Lock; a Lock hurt by a completion pause is refunded.
- backend with contract: a completion on chain was earned, on the staked account, between one immutable
  baseline and a later proof taken during the challenge; a session is good for one attestation; no failure
  leaves a stake without its baseline.
- Strava connection: an athlete backs one wallet, an authorisation is used once, a disconnected athlete is
  forgotten, and runs are signed for the athlete who ran them (the last does not always hold, section 5).
- Strava escrow with its routes: every completed day is a real run of its own, inside that day; a wallet plays
  as the one identity its days were signed with, and no identity plays for two wallets of a Lock; days, counts,
  finishers and scores agree; one admission buys one stake. An identity is the athlete that the wallet's row
  names. Whoever ran, like whoever the row names, is an athlete that authorised this wallet, but the two need
  not be the same athlete (`strava_identity`, section 5).
- pages and scripts: what they recompute is what the contract would decide; they never offer what has long
  been paused, send twice, or leave players able to stake and unable to prove.
- limiter, sessions, preview, board: a limit is a limit, a session speaks for whoever signed, a proof is
  written once, the board is the contracts' state at one block.

`PROJECT.json` lists the hazards behind these with their lines, and the properties that watch each.

## 2. Modules

| Module | Stands for |
|---|---|
| `CompletionPauses` | the pause ledger both contracts carry (`setCompletionPaused`, `_completionPauseAffected`) with the search's result as a definition |
| `PauseSearch` | that search as a loop, one action per round |
| `DuolingoEscrow` | the contract, one action per external function; `Spec`, and `FairSpec` with fairness |
| `DuolingoEscrowProperties` | its type invariant, safety, action and liveness properties, and the refinement mapping to `Settlement` |
| `Settlement` | what a Lock promises (the repository's README, section Settlement): an abstract specification of one Lock |
| `DuolingoLock` | backend, database, clients and the contract composed: it EXTENDS `DuolingoEscrow` and reuses its actions |
| `DuolingoLockProperties` | what they guarantee together, and two sentences of the code that do not hold |
| `StravaEscrow` | `LockInEscrow.sol`, the Locks: days, counts, scores, access nonces, money |
| `StravaActivities` | which run counts for a Lock day, as pure operators |
| `StravaLock` | athletes, connections, admission and check-in with `StravaEscrow`: only what the two routes signed reaches the contract |
| `StravaLockProperties` | what they guarantee together, and the refinement mapping to `Settlement` |
| `LockViews` | what the Lock page, the list of open Locks, `canary.ts` and `cancel-pact.ts` compute from the contract's fields |
| `StravaConnection` | OAuth states, token rows, the grants at Strava, and the requests on them |
| `OwnerScripts` | `set-pauses.ts`, call by call |
| `RateLimiter`, `WalletSessions`, `Preview` | `src/rate-limit.ts`; challenge, session and cookie; the preview's routes and tables |
| `WalletConnect`, `LockPage` | connecting a wallet; sending transactions over reloads |
| `SocialBoard` | the handles of `LockInEscrow.sol` and the leaderboard rebuilt from events |
| `ReleaseHealth` | the health route with its cache and shared read, and the page that polls it |
| `MCDuolingoEscrow`, `MCDuolingoLock`, `MCStravaConnection`, `MCStravaLock`, `MCPreview`, `MCServices` | model values, bounds, symmetry |
| `CompletionPausesProofs`, `SumProofs`, `DuolingoEscrowProofs`, `DuolingoLockProofs`, `StravaLockProofs`, `StravaSettlementProofs`, `StravaConnectionProofs`, `ServicesProofs` | theorems |

### The contract (`DuolingoEscrow`)

Variables carry the contract's names. A revert leaves the chain as it was, so the conditions of the
reverts are guards. Abstractions, all in the data:

- The hash of a configuration IS the configuration, `createNonce` included; only equality of hashes matters.
  The limits of `_validateConfiguration` on single fields are the set `Configurations`, its relations between
  fields and with the clock are `configurationOK`.
- A signature is the account (and Lock) it covers plus the key that made it. `Spec` runs against ANY
  attestation a signing key could make for a wallet (`AnyBaseline`, `AnyFinal`): any identity and nullifier
  the wallet can prove, any window. `DuolingoLock` narrows it to what the backend really signs.
- Mappings address -> bool are sets. `vault` is the token balance held for players; the token is an ERC-20
  that moves exactly what it is told, which `_pullStake` and `_pushPayout` enforce. `payout` is the history of
  the PayoutClaimed events.
- The contract's clock is `now`; any number of transactions share a timestamp.
- The field `completionPauseGenerationAtCreation` is written once and never read, and is left out, like the
  policy hash, which is one constant. Amounts do not overflow (at most 100 players of at most 1 USDC in
  uint256), so no width is kept.
- Ownership transfer and `renounceOwnership` (disabled) are OpenZeppelin's and left out.

### The pauses (`CompletionPauses`, `PauseSearch`)

Generations are positions of two sequences, starts and ends; an open pause has a start only. `DuolingoEscrow`
uses the search's specification (`IsFirstEndedAfter`); `PauseSearch` shows the loop meets it, so the contract's
model does not repeat the loop. The deployed history always begins with the pause of the constructor.

### The backend (`DuolingoLock`)

A request is a handler with a program counter; every await of the routes is a step boundary:

| Code | Action |
|---|---|
| session route, chain read and checks | `OpenCreate`, `OpenJoin`, `OpenFinal` |
| `saveEscrowSession` | `SaveSession` |
| verify route, `loadEscrowSession` | `BeginVerify` |
| `fetchStatusUrl` and proof validation | `FetchProof` (no proof yet: the "pending" reply, `EndRequest`) |
| `consumeAndSaveBaseline` and the reply | `RecordBaseline`, or `RefuseBaseline` when it recorded nothing |
| `readEscrowPact`'s parallel reads | `ReadPact`, `ReadPlayer`, in either order, of any blocks |
| `loadEscrowBaseline` and the checks of the delta | `CheckFinal` |
| `consumeAndSaveFinal` and the reply | `RecordFinal` |
| any throw, time limit or crash | `EndRequest`, at any step |

- One SQL statement is one step (Postgres). The CTE consumes the session even when its INSERT conflicts, so
  `RefuseBaseline` consumes it too.
- An attestation is signed with a time between the handler's last look at the clock and now. Its reply
  may be lost: `delivered` is FALSE, and the contract never sees it (`received`).
- Reclaim and Duolingo are external: at most one proof per session, bound to its wallet, account and context,
  stating the account's XP at capture time (`Capture`); XP only grows (`Practise`), also between a baseline
  and the start of the Lock, and such XP counts, as in the code.
- The HMAC identity of an account is the account. `createNonce` is random and so unused (`freshNonce`).
- The two reads of `joined`/`completed`/`participantIdentity` are one view: a wallet's identity is set at
  the join and never changes, and `completed` only grows after it. In the session route the whole read is one
  step: nothing is signed there, and everything is read again in the verify route.
- Backend and chain share one clock. Initially the owner has opened all three pauses; the owner then only
  pauses and unpauses completion. The other settings and `cancelPactByOwner` are covered by the
  contract's own runs.
- Left out: the wallet allow list, rate limits, the 24 h prune (such sessions are invisible to every read
  long before), and the raw profile id that consumption nulls (a handler works on the copy it loaded).

### The Strava connection (`StravaConnection`)

The same shape: a request with a step, every SQL statement and every call to Strava an action, `EndRequest`
for any check that fails, error or crash. A reply of Strava that is lost is the call's action
followed by `EndRequest`.

| Code | Action |
|---|---|
| authorize route, `issueStravaState` | `issueStravaState` |
| callback route, `verifyStravaState` | `verifyStravaState` |
| `consumeStravaState`, its two statements | `pruneStates`, `consumeStravaState` (then the scope check: `EndRequest`) |
| `exchangeStravaCode`, `saveStravaConnection` | the same names; the unique index on the athlete is the guard `athleteFree` |
| `getUsableStravaAccessToken`, for check-in or disconnect | `readConnection`, `refreshStravaTokens`, `rotateTokens` |
| check-in: read the runs, sign | `checkin` |
| DELETE connection | `revokeStravaGrant` or `skipRevoke` (its `catch`), `deleteStravaConnection` |

- Strava is external. It keeps at most one grant per athlete; issuing a token pair repeats the refresh token or
  replaces it (the code's comments allow both), and a revocation kills all of the grant's tokens. An
  authorisation code is good for one exchange, and who comes back with a state is not tied to the wallet.
- Whether a stored access token has more than a minute left is a choice at each read: it lives for hours, the
  model's clock counts the ten minutes of a state.
- The application's clock and the database's are one. Encryption of the tokens is left out, and so is the
  read-only status endpoint.
- `uses` is history: when each state was accepted.

### The Strava Lock (`StravaEscrow`, `StravaActivities`, `StravaLock`)

| Code | Action |
|---|---|
| `createPact`, `joinPact`, `submitCompletion`, `highFive`, `cancelPact`, `cancelPactByOwner`, `finalizePact`, `claim`, the setters | the same names in `StravaEscrow` |
| POST access, create and join | `AdmitCreate`, `AdmitJoin` |
| POST checkin, `loadProofPolicy` | `LoadPolicy` |
| `getUsableStravaAccessToken`: the wallet's row as it is by then | `ReadConnection` |
| then activities, selection, signer and signature | `CheckIn` |
| any throw, time limit or crash | `EndRequest` |
| callback, disconnect and `rotateTokens`, seen from here | `Connect`, `Disconnect`, `RotateTokens` (the requests behind them are `StravaConnection`'s) |

- The contract is abstracted like the Duolingo one. A configuration carries no nonce, so two Locks can have
  one hash. There is one mission type. A bitmap is the set of its days. `completionsAccepted` is the history of
  the CompletionAccepted events.
- Admission reads one block and nothing after it, so a request is one step; that its block is old by the time
  its signature is used is the use of `accesses` at any later time. `CheckIn` is one step because nothing
  after Strava's answer reads anything the answer could be stale against.
- A row is the athlete it names and the athlete whose tokens it holds. `CheckIn` takes the runs from the tokens
  and the label from the row, as the route does; `RotateTokens` is what sets the two apart: a refresh begun
  under an earlier row writes to the row of now. It may come at any time and with the tokens of any athlete
  that ever authorised the wallet (`authorized`, a history variable), which is more than the requests of
  `StravaConnection` can do, so what holds here holds there.
- An activity is a record of what the rules look at. `pages` is what the one page that is read may hold: any
  `PageSize` of the activities asked for, or all of them.
- An attestation may be used late, again, or never. Expired ones are forgotten, which no action could tell.
- Backend and chain share a clock; pseudonyms are what they stand for.

### Views (`LockViews`)

Each view is an operator on the contract's state with the page's or script's own comparisons, and
`PagesMatchContract` compares it with the guards of the contract's actions. Settling, cancelling, claiming and
a high five are offered exactly when the call would succeed. Joining and checking in also depend on
`actions`, the page's last answer of `/api/health`: product flags, every health check and a cached reply, both
false on failure (`pact-dashboard.tsx:121-131`). What that answer can be is `ReleaseHealth`'s subject; here it is an
input that may be anything (`ProductActions`). An offered join or check-in passes every guard of the contract
but its pause switch, and whenever the answer allows it and the call would pass it is offered; with flags or
health closed the page offers nothing although the contract would accept, and an old answer may offer what
the contract's switch has just closed. `CanaryReconciles` compares `canary.ts`'s sums over Locks with the
contract's balance. Tokens sent to the contract unasked (`Surpluses`) belong to no Lock, and no function of the
contract looks at them; reconciliation passes exactly when there are none.

### The smaller parts

- `RateLimiter`: one map of one warm instance, with its insertion order as a relation between its keys; a full map
  keeps its youngest entries. `ColdStart` empties it.
- `WalletSessions`: a signed payload is its fields. Tabs, their answers in flight and the shared cookie; an
  allow list that operators change.
- `Preview`: one wallet, several tabs; every round trip of the three routes is a step, and every call may die.
- `WalletConnect`: page, prompt and library finish in any order; timers, rejected prompts; an account that comes,
  goes, moves to another address or is reconnecting by itself, and that the page renders and then reacts to at
  some later moment; wallets that announce themselves until `providers.tsx`'s discovery settles, which gives an
  open chooser new connectors: its scans are cancelled, its list is emptied, and it starts again.
- `LockPage`: two flows at a time, the record in local storage, receipts that fail, reloads, and prompts that
  outlive the page which opened them. The two pages (Strava, Duolingo) differ in what may start together.
- `SocialBoard`: the log of events is the chain, one event per block; the head is read first, then each escrow's
  events by a load of its own, from that escrow's deployment block, in one call or in pages; the board waits
  for both.
- `ReleaseHealth`: the read of the chain takes up to `MaxRead` seconds and sees each switch at a moment of its
  own; whether the other checks pass is a choice. Answers are shown as they arrive: an older one may replace a
  newer one, and `OfferedWasOpen` bounds what is shown by when THAT answer was asked for, not by the last ask.
- `OwnerScripts`: the plan, its transactions one by one, an interruption after any of them, an atomic batch, and
  other owner transactions in between.

## 3. Runs

| Run | What it shows | Instance |
|---|---|---|
| `duolingo_escrow` | types, counters against sets, pool conservation, fair shares, `PlayedMeansUnpaused`, `OutcomeFrozenAtDeadline`, and `ImplementsSettlement` | 3 wallets, stake 3 (2 winners of 9 do not divide evenly), 1 Lock, 4 time units, 2 pauses |
| `evidence` | `Solvent`, one effect per proof, one player per account | 2 wallets, 2 Locks, 2 accounts either wallet can prove, 3 nullifiers, 2 signer keys |
| `live` | every stake is eventually settled and paid | 2 wallets, 1 Lock, 4 time units, 2 pauses |
| `duolingo_lock` | `CompletionsAreEarned`, `EveryStakeHasItsBaseline`, with failures and lost replies | 2 wallets, one of them with two accounts, 3 sessions, 3 time units, one request at a time |
| `races` | two requests on one session: one attestation, no burned session without its row, immutable rows | as above, 2 requests, 2 time units |
| `new_baseline`, `grace` | expected violations, see section 5 | |
| `strava_connection` | `OneWalletPerAthlete`, `StateUsedOnceInItsWindow`, `ForgottenStaysForgotten` | 2 wallets, 2 athletes, 2 requests, 2 states, 3 token pairs, 2 instants |
| `strava_identity` | expected violation, see section 5 | as above |
| `strava_lock` | types, counters, one admission one stake, runs behind days, scores, athletes, what pages and canary show, the frozen outcome, `ImplementsSettlement` for each Lock | 2 wallets, 2 athletes, a Lock of 2 days and one of 1 day that overlaps both, days of 2 units, 6 units, 2 pauses, 2 activities, 1 check-in in progress, 3 admissions, any answer of the health route, a surplus of 0 or 1 |
| `services` | pauses: the search answers like a scan and halves; script: `ProofPathBeforeExposure`; limiter: `LimitsAreKept`; preview: `OneSessionOneWrite`; sessions: `SpeaksOnlyForSigners`; chooser: `ChooserFollowsTheWallet`; page: `OneTransactionAtATime`; board: `BoardMatchesContract`; health: `OfferedWasOpen` | pauses: 5 units, 3 pauses; limiter: 3 clients, limit 1, 2 windows; preview: 2 accounts, 2 sessions, 2 calls; sessions: 2 wallets, 2 tabs; 2 wallets that may announce themselves and a legacy one, 2 addresses, 4 attempts; 3 transactions; board: 2 players, 2 handles, pages of 2 blocks, 3 blocks, the Duolingo escrow deployed in block 1 or 2; health: 2 actions, 2 polls, 4 seconds |
| `preview_restart` | expected violation, see section 5 | 1 account, 2 targets, 2 calls, 3 sessions |

Why the bounds are enough for what is asked: fairness of shares needs a pool that the number of winners
does not divide and at least two claim orders; a pause can precede, overlap, follow or touch a window, which
needs two pauses and both window ends inside the clock's range; mixing Locks up needs two of them, mixing
identities up two accounts and two wallets; a race on a session needs two requests, and a full story needs
three sessions (creator, joiner, final). Every interval of the code (start delay, duration, grace, ages) is
1 or 2 units, so every comparison is exercised below, at and above its boundary. `races` has the constraint
`OneSessionAtATime`: requests overlap only on one and the same session; those on different sessions share
nothing but the contract. Its wallets have one account each. For the Strava row the interesting stories are
a request overtaken by one other request: two requests; a connection, its refresh and a reconnection issue
three token pairs; a state lives for the instant it was issued in and expires with the next.

`strava_lock` starts from two states. From deployment (`DeploymentBounds`) Locks are admitted, created, joined,
cancelled and refunded. From registration (`RegistrationBounds`) both wallets are in both Locks, a state the
first story's actions lead to, and what follows is runs, check-ins and settlement; a day of one Lock and a day
of the other share hours, a UTC day touches two Lock days, rows change athlete, and a late refresh can leave
one athlete's tokens on the row of the other. Both
bounds are state constraints, spelled out with their reasons in `MCStravaLock`; an activity is recorded at
its start (`UploadDelay` 0) and shows up late to the extent that the check-in comes late. What the bounds
cut off, such as any number of activities, delays and check-ins at once, is what the theorems of section 4
cover. `services` puts nine parts without common state into one run: `focus` says which of them moves.

Deadlock checking is off: the clocks end, the number of Locks, sessions and states is bounded, and nobody has to act; progress is what `live` checks. Symmetry is used in safety runs only, over sets whose members
nothing distinguishes.

Fairness (`FairSpec`): blocks keep coming; somebody finalizes a Lock that can be finalized (it is
permissionless and the client offers it to everybody); a wallet entitled to a payout claims it. Nothing is
assumed of the owner, of joiners or of finals, so liveness holds with completion paused for ever.
`EveryStakeIsSettled` is stated for Locks whose deadline lies inside the clock's range.

### The refinement

`ImplementsSettlement` maps Lock 1 to `Settlement`: stake, players, finishers and payments are read off,
the outcome is open / refund / split. Joins and finals map to Enter and Finish, `finalizePact` to Settle,
`claim` to Pay, everything else stutters. The abstract Pay allows any fair amounts that add up to the pool;
the contract's running division is one way to do it. A bug that admits players after a final, pays twice or
leaves dust breaks it. `strava_lock` maps both Locks of `LockInEscrow.sol` to the same promise, one instance
each; there a player has finished when the count of days reaches the requirement.

## 4. Proofs

TLAPS checks, for every value of the constants that meets the assumptions:

| Module | Theorems |
|---|---|
| `CompletionPausesProofs` | in an ordered ledger of any length the first pause that ended after `t` exists and is unique; looking at it alone (then at the open one) decides whether ANY pause overlaps a window (`SearchDecidesOverlap`); pausing or unpausing after a window has closed does not change the answer (`SwitchCannotReopenWindow`) |
| `SumProofs` | lemmas: what `MapThenSumSet` sums over a finite set, and how a sum changes |
| `DuolingoEscrowProofs` | `EscrowTypeOK`, `CountersAlwaysMatch`, `IdentitiesStayUnique`, `PlayedLocksWereUnpaused`, `OutcomeIsDecidedAtDeadline`; the money: `PoolsAreConserved`, `SharesAreFair`, `VaultIsSolvent`; `ProofsCountOnce`; the refinement `EscrowImplementsSettlement` |
| `DuolingoLockProofs` | `BackendTypesHold`, `SessionsAreWorthOneAttestation`, `BurnedSessionsLeaveBaselines`, `BaselinesNeverChange`, `StakesHaveTheirBaseline`, `CompletionsWereEarned` |
| `StravaLockProofs` | `StravaLockTypeOK`, `DaysAndCountersAlwaysMatch`, `AthletesStayWithOnePlayer`, `EveryDayHasItsRun`, `UtcDaysScoreOnce` |
| `StravaSettlementProofs` | `OutcomeIsDecidedAtDeadline`, `AdmissionsCountOnce`, `CanaryAlwaysReconciles`, `StravaImplementsSettlement`, `PagesAlwaysMatchContract` |
| `StravaConnectionProofs` | `ConnectionInvHolds`, `AthletesBackOneWallet`, `StatesAreUsedOnce`, `ForgottenRowsStayForgotten` |
| `ServicesProofs` | the search: `SearchTypeOK`, `PausesStayInOrder`, `LoopStaysInvariant`, `SearchIsCorrect`, `EveryPauseIsFound`, `RoundsHalve`; `ExposureNeedsProofPath`, `OneWritePerSession`, `RequestsSpeakForSigners`, `PageFollowsTheWallet`, `OnePendingTransaction`, `BoardShowsTheContracts`, `OfferWasRecentlyOpen`, `LimiterKeepsLimits` |

Every safety invariant and action property that a passing run checks is stated by one of these theorems.

The inductive invariants, and why the properties need them:

- `Inv` (`DuolingoEscrow`). `TypeOK` is not inductive by itself: that `claimsRemaining` and `remainingPool` stay
  natural numbers needs that a claim finds a positive divisor, which needs that the counters equal the
  cardinalities of the sets they count, which needs that only joined wallets complete and only eligible ones
  claim, and that a Lock that does not exist yet is still the zero record. `AccountInv` says all this Lock by
  Lock, with the identity maps inverse to one another; `Inv` adds the ordered pause ledger. Each action has a
  lemma, most of them through `OneLockStep`: an action touches one Lock, so the others keep their part.
  `PlayedLate` adds that a Lock settled as played was settled at or after its deadline, so every later pause
  starts too late to overlap; `RealTerms` that a Lock that exists has terms from `Configurations`.
- Sums are folds over a set in an order `CHOOSE` picks. `SumProofs` shows that a finite set has exactly one table
  of partial sums that does not depend on the order (`IsAdditive`), by looking at a smallest subset for which it
  would fail (an induction theorem of the library takes the induction hypothesis as an operator, which the
  provers cannot instantiate). So a sum changes by as much as the one value that a step changes
  (`SumOfOneChange`), which is all the proofs about money, nonces and nullifiers need.
- `Money`. The share is recomputed at every claim, so that payouts are fair is about every order of claims. The
  invariant that survives a claim is a corridor: with n claims left and quota q (the pool divided by ALL
  winners), the remaining pool lies between n * q and n * q + n, so its n-th part is q or q + 1; when the pool
  divides evenly it is exactly n * q, so a refund is the stake. At n = 0 nothing is left.
- `Solvent`, `ProofsSpent`, `NoncesSpent`, `Balanced` are inductive together with `Inv` (or `LockInv`): each step
  changes the vault, or the set of what is used up, by what one Lock owes, or counts, more.
- The outcome. From the deadline on no final is accepted (the comparison is strict), nobody joins (that ended
  with the start), and `SwitchCannotReopenWindow` says the owner's switches do not touch the window's verdict.
  For the Strava Lock the last day's grace ends at the deadline, so every day's `dayOpen` is over by then.
- The refinements map each action to a step of `Settlement` or a stutter. Enter and Finish need that nobody
  joins once somebody finished (`StartedBeforeFinished`, `StartedBeforeRun`: the clock has passed the start);
  Settle that the outcome is the one the players' numbers call for; Pay is fair by `Money`.
- `LockInv` (`StravaLock`): `EscrowInv` (types and, Lock by Lock, days against counts against finishers against
  claims), the ordered ledger, the types of activities, connections and requests, and what a signed
  attestation names; `Connections`, that whoever a row names, whoever's tokens it holds, and both as a check-in
  took them, have authorised the wallet. `RunInv` adds that every live completion attestation describes a real
  run (`SignedRuns`) and every accepted day the run it was accepted with (`AcceptedDays`): activities and
  authorisations are only ever added, so a run remains what it was, however rows and tokens move. That label and
  runner are one athlete is no part of it, because it does not hold. `ScoreInv` says the score's counters count the
  UTC days of the accepted runs. `Room` (every id given out names a Lock within its limits) is what the canary's
  capacity check and the pages need besides; the pages also need that a Lock is split only after its deadline
  (`SplitOnlyAfterDeadline`). Their equivalences then follow state by state.
- `BackedInv` (`DuolingoLock`): on chain, every stake rests on a recorded baseline and every completion on a
  final session that has `Earned` it; in the backend, what each request holds at each of its steps is
  bound to its session and wallet, and each attestation to the row that was written with it. The argument is
  `Forward`: sessions, proofs, baselines and attestations are only ever added to, so what was earned stays
  earned, and a request that reads old state can only be refused, not believed.
- `ConnectionInv` (`StravaConnection`): what each request holds at each step, and, for the OAuth states, that
  one which is not on record as used and still in its window was not accepted in it. Pruning removes
  records of closed windows only, which is why a state can be accepted again only after its window.
- `IInv` (`PauseSearch`): types, order of the ledger and the loop's bounds; at the end low and high have met.
- `ScriptInv`: what is left of a plan is in the plan's order and is exactly what is not done yet, and the proof
  path is never on the wrong side of the exposure.
- `PreviewInv`: a session's count of writes follows its row (`rowHolds`), what each call has read by its step
  (`callHolds`), and the final behind a passed run (`passedHolds`); pruned rows keep their proof.
- `SessionInv`: every token, in the cookie or on its way in a tab, is of a wallet that signed shortly before it
  was issued. `ConnectInv`: the page is locked exactly while the newest attempt's prompt is open, and the newest
  scan is either shown, on its way, or the chooser is closed. `PageInv`: the record names the one transaction a
  flow or the recovery waits for, and each page has a lock of its own that keeps its flows apart.
- `BoardInv`: the contracts' state at every block is what the events up to it say, each load has read the log from
  its escrow's first block up to where it stands, and that escrow has no event before it; so the board is
  that of the block both were bounded by.
- `HealthInv`: each answer, kept, in flight or shown, carries the moment from which on all it offers was open.
- `LimiterInv`: since a client's last eviction it was granted at most its count in its window and at most
  the limit before it, and nothing after it; so two windows' worth is the most that one window's time can hold.

Assumptions: `PauseBounds`, `EscrowConstants`, `BackendConstants`, `StravaConstants`, `PageIsPositive`,
`StravaLockConstants`, `StravaBounds`, `SurplusAssumption`, `PreviewAssumption`, `WalletSessionAssumption`, `ConnectAssumption`,
`BoardAssumption`, `HealthAssumption`, `LimiterAssumption`; TLC evaluates each in the runs that extend its
module. Most say that a bound is a number and a set finite (wallets, ids of Locks, the limiter's clients). The
others are the code's: a Lock's minimum of players is not above its maximum (`LockInEscrow.sol:735`), the
grace is not longer than a day (`LockInEscrow.sol:46`), a wallet that announces itself is not the legacy
provider, a challenge does not outlive a session, pruning comes after expiry, the limiter's limit, window and
size are at least 1 (`rate-limit.ts:40-44`).

`operations` (`OwnerScripts`), `eventsOf` (`SocialBoard`) and the limiter's map are stated with sets and
concatenation where the code filters a list: the prover has no rules for `SelectSeq`.

Only model-checked:

- liveness (`EveryStakeIsSettled`) and ENABLED, which are out of the prover's reach;
- the runs of section 5, whose properties do not hold.

## 5. Where the code and its words disagree

- `new_baseline`. A player proves a join baseline; the row is written, the reply is lost (or the attestation
  expires while the token approval is pending). The message says "Start a new one to try again"
  (`app/api/duolingo/escrow/verify/route.ts:154`; `components/duolingo/duolingo-lock.tsx:116` gives the same
  advice). Every new baseline of that wallet for that Lock is refused by the same primary key. No money is
  at risk, but the player cannot join that Lock any more. A create session has a fresh nonce each time and is
  not affected.
- `grace`. "a final proof captured during the challenge may still be submitted up to an hour after it ends"
  (`src/duolingo-escrow-chain.ts:42-43`). The proof's session expires after 30 minutes and no new one can be
  opened after the end, so for part of that hour the proof cannot be verified although the contract would
  still take the final. The model gives sessions a life as long as the grace period and still finds it.
- `strava_identity`. "Identity is the athlete, so one Strava account maps to one participant per Lock"
  (`src/strava-activities.ts:182`). A check-in reads a wallet's row and refreshes its token; meanwhile the wallet
  reconnects with another Strava account; the refresh then writes the first athlete's tokens to the row that
  now names the second (`src/strava-token-store.ts:179-186`). Later check-ins read the first athlete's runs and
  sign them as the second's. It takes one wallet, two Strava accounts and a slow request. The properties of
  `strava_lock` are those that hold nevertheless: `OneAthleteOnePlayer` is about the identities on chain, and
  `EveryDayIsARunOfItsOwn` leaves open which of the wallet's athletes ran.
- `preview_restart`. "The whole claim of DUOLINGO_ZKTLS_DELTA_V1 is that a delta was measured between two
  proofs the athlete could not tamper with" (`src/duolingo-preview-store.ts:7-8`). A final is checked against the run
  read some awaits earlier and recorded on whatever run the wallet has by then (`:180-187`); a new baseline
  recorded in between reads passed with XP it never earned. Nothing is staked on a preview.

Three further things the models reach, for which no property is stated. A state can be accepted once more after
its window, when its record is pruned between the check of its expiry and the insert
(`src/strava-token-store.ts:98`), although the comment there says of two callbacks with one state that "exactly
one of them can proceed" (`:89-90`); `StateUsedOnceInItsWindow` counts the uses inside the window only. A live
grant can be left at Strava without a row, when a refresh fails or its reply is lost on the way to the
revocation, although the comment there says that "there is nothing live to revoke"
(`app/api/strava/connection/route.ts:60-62`): the athlete asked to be forgotten here, and the route deliberately
deletes the row even when Strava was not told. And the Duolingo page's recovery after a reload drops the record
of a transaction whose receipt could not be had (`components/duolingo/escrow-shared.ts:225`):
`OneTransactionAtATime` holds up to that step, and the contract refuses the second join or final.

## 6. Not modelled

- The retired zkTLS path (`src/reclaim-onchain.ts`, `src/strava-proof-policy.ts`, `src/proof-session-store.ts`,
  `contracts/verifiers/`): no route uses it any more, and what is left parses proofs without a state.
- Deployment, migrations, key generation and `check-production.ts`, which run once by hand or only read; the
  canary's own transactions, which are a player's.
- Rendering, forms and wording; the crew route, ranks, sharing; the read-only status endpoints and the Duolingo
  health route, which keep nothing.
- Cryptography (ECDSA, HMAC, EIP-712 encoding, token encryption) is taken as what it promises. So are
  OpenZeppelin's ownership hand-over and reentrancy guard, the token, and Reclaim's verification of a proof.
- Clock skew between backend and chain: both share one clock; the contract's tolerance for a skewed one
  (`MaxClockSkew`) is a guard that no promise of the code ties down.
- The Duolingo routes' allow list and rate limits and the 24 h prune of expired sessions; Strava's rate limits; a
  second mission type; the leaderboard's shared load, which only saves reads.
