----------------------- MODULE StravaConnectionProofs -----------------------
(***************************************************************************)
(* What is proved of the Strava connection, for any number of wallets,     *)
(* athletes, OAuth states, token pairs and requests in progress.           *)
(***************************************************************************)
EXTENDS StravaConnection, Integers, FiniteSetTheorems, SequenceTheorems, TLAPS

-----------------------------------------------------------------------------
(* The inductive invariant.                                                *)

RequestOK(r) ==
    \/ r = Idle
    \/ r \in [step : {"pruning", "consuming", "exchanging"}, state : DOMAIN states,
              wallet : Wallets, athlete : Athletes]
    \/ r \in [step : {"saving"}, wallet : Wallets, athlete : Athletes, tokens : Tokens]
    \/ r \in [step : {"refreshing", "rotating", "using", "signed"},
              purpose : {"checkin", "disconnect"},
              wallet : Wallets, athlete : Athletes, tokens : Tokens]
    \/ r \in [step : {"deleting"}, wallet : Wallets]

RequestsOK == DOMAIN requests = Requests /\ \A h \in Requests : RequestOK(requests[h])

RowType == {NoRow} \cup [connected : {TRUE}, athlete : Athletes, tokens : Tokens]

GrantsOK ==
    /\ DOMAIN grants = Athletes
    /\ \A a \in Athletes :
          /\ DOMAIN grants[a] = {"issued", "refresh", "access"}
          /\ grants[a].issued \in Nat /\ grants[a].refresh \in Nat
          /\ grants[a].refresh <= grants[a].issued /\ grants[a].issued <= MaxTokens

(* A state that is not on record as used was not accepted in its window,   *)
(* as long as that window is open; and never was twice.                    *)
inWindow(s) == {k \in DOMAIN uses[s] : uses[s][k] <= states[s].expiresAt}

WindowsOK ==
    \A s \in DOMAIN states :
        /\ \A j, k \in inWindow(s) : j = k
        /\ states[s].expiresAt >= now /\ s \notin usedStates => inWindow(s) = {}

StatesOK ==
    /\ now \in 0 .. MaxTime
    /\ states \in Seq([wallet : Wallets, expiresAt : 0 .. MaxTime + StateTtl])
    /\ Len(states) <= MaxStates
    /\ usedStates \subseteq DOMAIN states
    /\ uses \in [1 .. MaxStates -> Seq(Nat)]

(* A state that was never issued was never accepted.                       *)
UnissuedUnused == \A s \in 1 .. MaxStates : s \notin DOMAIN states => uses[s] = <<>>

ConnectionInv ==
    /\ StatesOK /\ WindowsOK /\ UnissuedUnused
    /\ rows \in [Wallets -> RowType] /\ OneWalletPerAthlete
    /\ GrantsOK /\ RequestsOK

-----------------------------------------------------------------------------

LEMMA StateFacts ==
  ASSUME StatesOK, NEW s \in DOMAIN states
  PROVE  s \in 1 .. MaxStates /\ states[s].wallet \in Wallets /\ states[s].expiresAt \in Nat
<1>1. PICK S : S = [wallet : Wallets, expiresAt : 0 .. MaxTime + StateTtl]
  OBVIOUS
<1>2. states \in Seq(S) /\ Len(states) <= MaxStates
  BY <1>1 DEF StatesOK
<1>3. s \in 1 .. MaxStates /\ states[s] \in S
  BY <1>2, StravaBounds
<1>4. states[s].wallet \in Wallets /\ states[s].expiresAt \in 0 .. MaxTime + StateTtl
  BY <1>1, <1>3
<1>. QED
  BY <1>3, <1>4, StravaBounds

(* What a request holds at each of its steps.                              *)
LEMMA RequestHolds ==
  ASSUME NEW r, RequestOK(r)
  PROVE  /\ r.step \in {"pruning", "consuming", "exchanging"} =>
               r \in [step : {"pruning", "consuming", "exchanging"}, state : DOMAIN states,
                      wallet : Wallets, athlete : Athletes]
         /\ r.step = "saving" =>
               r \in [step : {"saving"}, wallet : Wallets, athlete : Athletes, tokens : Tokens]
         /\ r.step \in {"refreshing", "rotating", "using", "signed"} =>
               r \in [step : {"refreshing", "rotating", "using", "signed"},
                      purpose : {"checkin", "disconnect"},
                      wallet : Wallets, athlete : Athletes, tokens : Tokens]
         /\ r.step = "deleting" => r \in [step : {"deleting"}, wallet : Wallets]
BY DEF RequestOK, Idle

(* A wallet has no row, or one with an athlete and tokens.                 *)
LEMMA RowHolds ==
  ASSUME NEW row \in RowType, row.connected
  PROVE  row \in [connected : {TRUE}, athlete : Athletes, tokens : Tokens]
<1>1. ~NoRow.connected
  BY DEF NoRow
<1>. QED
  BY <1>1 DEF RowType

LEMMA RequestsFrame ==
  ASSUME RequestsOK, DOMAIN states \subseteq DOMAIN states', NEW h \in Requests, NEW r,
         requests' = [requests EXCEPT ![h] = r], RequestOK(r)
  PROVE  RequestsOK'
<1>1. ASSUME NEW q, RequestOK(q) PROVE RequestOK(q)'
  BY <1>1 DEF RequestOK
<1>2. ASSUME NEW g \in Requests PROVE RequestOK(requests[g])'
  <2>1. PICK q : q = requests'[g]
    OBVIOUS
  <2>2. q = (IF g = h THEN r ELSE requests[g])
    BY <2>1 DEF RequestsOK
  <2>3. RequestOK(q)
    BY <2>2 DEF RequestsOK
  <2>4. RequestOK(q)'
    BY <1>1, <2>3
  <2> QED BY <2>1, <2>4
<1>. QED
  BY <1>2 DEF RequestsOK

(* Steps that only move a request on.                                      *)
LEMMA RequestStep ==
  ASSUME ConnectionInv, UNCHANGED <<now, states, usedStates, uses, rows, grants>>,
         NEW h \in Requests, NEW r, requests' = [requests EXCEPT ![h] = r], RequestOK(r)
  PROVE  ConnectionInv'
<1>1. RequestsOK'
  BY RequestsFrame DEF ConnectionInv
<1>. QED
  BY <1>1 DEF ConnectionInv, StatesOK, WindowsOK, inWindow, UnissuedUnused, OneWalletPerAthlete, GrantsOK

(* A token pair is issued.                                                 *)
LEMMA IssueKeepsGrants ==
  ASSUME GrantsOK, NEW a \in Athletes, NEW t \in Tokens, issue(a, t)
  PROVE  GrantsOK'
<1>1. t.number \in Nat /\ t.number <= MaxTokens /\ MaxTokens \in Nat
  BY StravaBounds DEF Tokens
<1>2. PICK g : g = [issued |-> IF t.number > grants[a].issued THEN t.number ELSE grants[a].issued,
                    refresh |-> t.number, access |-> grants[a].access \cup {t.number}]
  OBVIOUS
<1>3. grants' = [grants EXCEPT ![a] = g]
  BY <1>2 DEF issue
<1>4. /\ DOMAIN g = {"issued", "refresh", "access"}
      /\ g.issued \in Nat /\ g.refresh \in Nat /\ g.refresh <= g.issued /\ g.issued <= MaxTokens
  BY <1>1, <1>2 DEF GrantsOK
<1>. QED
  BY <1>3, <1>4 DEF GrantsOK

LEMMA WithdrawKeepsGrants ==
  ASSUME GrantsOK, NEW t \in Tokens, withdraw(t)
  PROVE  GrantsOK'
<1>1. PICK a \in Athletes : a = t.athlete
  BY DEF Tokens
<1>2. PICK g : g = [grants[a] EXCEPT !.refresh = 0, !.access = {}]
  OBVIOUS
<1>3. grants' = [grants EXCEPT ![a] = g]
  BY <1>1, <1>2 DEF withdraw, GrantsOK
<1>4. /\ DOMAIN g = {"issued", "refresh", "access"}
      /\ g.issued = grants[a].issued /\ g.refresh = 0
  BY <1>2 DEF GrantsOK
<1>. QED
  BY <1>3, <1>4 DEF GrantsOK

(* Steps on a request and the grants at Strava.                            *)
LEMMA GrantStep ==
  ASSUME ConnectionInv, UNCHANGED <<now, states, usedStates, uses, rows>>, GrantsOK',
         NEW h \in Requests, NEW r, requests' = [requests EXCEPT ![h] = r], RequestOK(r)
  PROVE  ConnectionInv'
<1>1. RequestsOK'
  BY RequestsFrame DEF ConnectionInv
<1>. QED
  BY <1>1 DEF ConnectionInv, StatesOK, WindowsOK, inWindow, UnissuedUnused, OneWalletPerAthlete

(* Steps on a request and the rows.                                        *)
LEMMA RowStep ==
  ASSUME ConnectionInv, UNCHANGED <<now, states, usedStates, uses, grants>>,
         rows' \in [Wallets -> RowType], OneWalletPerAthlete',
         NEW h \in Requests, NEW r, requests' = [requests EXCEPT ![h] = r], RequestOK(r)
  PROVE  ConnectionInv'
<1>1. RequestsOK'
  BY RequestsFrame DEF ConnectionInv
<1>. QED
  BY <1>1 DEF ConnectionInv, StatesOK, WindowsOK, inWindow, UnissuedUnused, GrantsOK

-----------------------------------------------------------------------------
(* The steps.                                                              *)

LEMMA InitConnection == Init => ConnectionInv
<1> SUFFICES ASSUME Init PROVE ConnectionInv
  OBVIOUS
<1>1. StatesOK /\ UnissuedUnused
  BY StravaBounds DEF Init, StatesOK, UnissuedUnused
<1>2. WindowsOK
  BY DEF Init, WindowsOK
<1>3. rows \in [Wallets -> RowType] /\ OneWalletPerAthlete
  BY DEF Init, RowType, OneWalletPerAthlete, NoRow
<1>4. GrantsOK
  BY StravaBounds DEF Init, GrantsOK
<1>5. RequestsOK
  BY DEF Init, RequestsOK, RequestOK
<1>. QED
  BY <1>1, <1>2, <1>3, <1>4, <1>5 DEF ConnectionInv

LEMMA TickKeepsInv ==
  ASSUME ConnectionInv, Tick PROVE ConnectionInv'
<1>1. /\ now' = now + 1 /\ now' \in 0 .. MaxTime /\ now \in Nat
      /\ UNCHANGED <<states, usedStates, uses, rows, grants, requests>>
  BY StravaBounds DEF Tick, ConnectionInv, StatesOK
<1>2. WindowsOK'
  <2>1. \A s \in DOMAIN states : states[s].expiresAt \in Nat
    BY StateFacts DEF ConnectionInv
  <2> QED BY <1>1, <2>1 DEF ConnectionInv, WindowsOK, inWindow
<1>3. RequestsOK'
  BY <1>1 DEF ConnectionInv, RequestsOK, RequestOK
<1>. QED
  BY <1>1, <1>2, <1>3 DEF ConnectionInv, StatesOK, UnissuedUnused, OneWalletPerAthlete, GrantsOK

LEMMA AuthorizeKeepsInv ==
  ASSUME ConnectionInv, NEW w \in Wallets, issueStravaState(w) PROVE ConnectionInv'
<1>1. /\ Len(states) < MaxStates
      /\ UNCHANGED <<now, usedStates, uses, rows, grants, requests>>
  BY DEF issueStravaState
<1>2. PICK new : new = [wallet |-> w, expiresAt |-> now + StateTtl]
  OBVIOUS
<1>3. states' = Append(states, new)
  BY <1>2 DEF issueStravaState
<1>4. new \in [wallet : Wallets, expiresAt : 0 .. MaxTime + StateTtl]
  BY <1>2, StravaBounds DEF ConnectionInv, StatesOK
<1>5. PICK n \in Nat : n = Len(states) + 1
  BY DEF ConnectionInv, StatesOK
<1>6. /\ states' \in Seq([wallet : Wallets, expiresAt : 0 .. MaxTime + StateTtl])
      /\ Len(states') = n /\ DOMAIN states' = DOMAIN states \cup {n} /\ n \notin DOMAIN states
      /\ \A s \in DOMAIN states : states'[s] = states[s]
      /\ DOMAIN states \subseteq 1 .. MaxStates
  BY <1>1, <1>3, <1>4, <1>5, StravaBounds DEF ConnectionInv, StatesOK
<1>7. n \in 1 .. MaxStates
  BY <1>1, <1>5, StravaBounds DEF ConnectionInv, StatesOK
<1>8. StatesOK'
  BY <1>1, <1>6, <1>7, StravaBounds DEF ConnectionInv, StatesOK
<1>9. uses[n] = <<>>
  BY <1>6, <1>7 DEF ConnectionInv, UnissuedUnused
<1>10. WindowsOK'
  <2> SUFFICES ASSUME NEW s \in DOMAIN states'
               PROVE  /\ \A j, k \in inWindow(s)' : j = k
                      /\ states'[s].expiresAt >= now /\ s \notin usedStates => inWindow(s)' = {}
    BY <1>1 DEF WindowsOK, inWindow
  <2>1. CASE s \in DOMAIN states
    BY <1>1, <1>6, <2>1 DEF ConnectionInv, WindowsOK, inWindow
  <2>2. CASE s = n
    BY <1>1, <1>9, <2>2 DEF inWindow
  <2> QED BY <1>6, <2>1, <2>2
<1>11. UnissuedUnused'
  BY <1>1, <1>6 DEF ConnectionInv, UnissuedUnused
<1>12. RequestsOK'
  BY <1>1, <1>6 DEF ConnectionInv, RequestsOK, RequestOK
<1>. QED
  BY <1>1, <1>8, <1>10, <1>11, <1>12 DEF ConnectionInv, OneWalletPerAthlete, GrantsOK

LEMMA VerifyKeepsInv ==
  ASSUME ConnectionInv, NEW h \in Requests, NEW s \in DOMAIN states, NEW a \in Athletes,
         verifyStravaState(h, s, a)
  PROVE  ConnectionInv'
<1>1. PICK r : r = [step |-> "pruning", state |-> s, wallet |-> states[s].wallet, athlete |-> a]
  OBVIOUS
<1>2. states[s].wallet \in Wallets
  BY StateFacts DEF ConnectionInv
<1>3. RequestOK(r)
  BY <1>1, <1>2 DEF RequestOK
<1>. QED
  BY <1>1, <1>3, RequestStep DEF verifyStravaState

LEMMA PruneKeepsInv ==
  ASSUME ConnectionInv, NEW h \in Requests, pruneStates(h) PROVE ConnectionInv'
<1>1. /\ usedStates' = {s \in usedStates : states[s].expiresAt >= now}
      /\ requests[h].step = "pruning"
      /\ UNCHANGED <<now, states, uses, rows, grants>>
  BY DEF pruneStates
<1>2. PICK q : q = requests[h]
  OBVIOUS
<1>3. q \in [step : {"pruning", "consuming", "exchanging"}, state : DOMAIN states,
             wallet : Wallets, athlete : Athletes]
  BY <1>1, <1>2, RequestHolds DEF ConnectionInv, RequestsOK
<1>4. PICK r : r = [q EXCEPT !.step = "consuming"]
  OBVIOUS
<1>5. RequestOK(r) /\ requests' = [requests EXCEPT ![h] = r]
  BY <1>2, <1>3, <1>4 DEF RequestOK, pruneStates
<1>6. RequestsOK'
  BY <1>1, <1>5, RequestsFrame DEF ConnectionInv
<1>7. StatesOK'
  BY <1>1 DEF ConnectionInv, StatesOK
<1>8. WindowsOK'
  BY <1>1 DEF ConnectionInv, WindowsOK, inWindow
<1>. QED
  BY <1>1, <1>6, <1>7, <1>8 DEF ConnectionInv, UnissuedUnused, OneWalletPerAthlete, GrantsOK

LEMMA ConsumeKeepsInv ==
  ASSUME ConnectionInv, NEW h \in Requests, consumeStravaState(h) PROVE ConnectionInv'
<1>1. requests[h].step = "consuming" /\ UNCHANGED <<now, states, rows, grants>>
  BY DEF consumeStravaState
<1>2. PICK q : q = requests[h]
  OBVIOUS
<1>3. q \in [step : {"pruning", "consuming", "exchanging"}, state : DOMAIN states,
             wallet : Wallets, athlete : Athletes]
  BY <1>1, <1>2, RequestHolds DEF ConnectionInv, RequestsOK
<1>4. PICK s \in DOMAIN states : s = q.state
  BY <1>3
<1>5. /\ s \notin usedStates /\ usedStates' = usedStates \cup {s}
      /\ uses' = [uses EXCEPT ![s] = Append(@, now)]
  BY <1>2, <1>4 DEF consumeStravaState, unused
<1>6. PICK r : r = [q EXCEPT !.step = "exchanging"]
  OBVIOUS
<1>7. RequestOK(r) /\ requests' = [requests EXCEPT ![h] = r]
  BY <1>2, <1>3, <1>6 DEF RequestOK, consumeStravaState
<1>8. RequestsOK'
  BY <1>1, <1>7, RequestsFrame DEF ConnectionInv
<1>9. /\ now \in Nat /\ uses \in [1 .. MaxStates -> Seq(Nat)]
      /\ \A t \in DOMAIN states : t \in 1 .. MaxStates /\ states[t].expiresAt \in Nat
  BY StateFacts, StravaBounds DEF ConnectionInv, StatesOK
<1>10. /\ uses' \in [1 .. MaxStates -> Seq(Nat)]
       /\ uses'[s] = Append(uses[s], now)
       /\ \A t \in 1 .. MaxStates : t # s => uses'[t] = uses[t]
  <2>1. Append(uses[s], now) \in Seq(Nat)
    BY <1>9
  <2> QED BY <1>5, <1>9, <2>1
<1>11. StatesOK'
  BY <1>1, <1>5, <1>10 DEF ConnectionInv, StatesOK
<1>12. WindowsOK'
  <2> SUFFICES ASSUME NEW t \in DOMAIN states
               PROVE  /\ \A j, k \in inWindow(t)' : j = k
                      /\ states[t].expiresAt >= now /\ t \notin usedStates' => inWindow(t)' = {}
    BY <1>1 DEF WindowsOK, inWindow
  <2>1. CASE t # s
    BY <1>1, <1>5, <1>9, <1>10, <2>1 DEF ConnectionInv, WindowsOK, inWindow
  <2>2. CASE t = s
    <3>1. PICK n \in Nat : n = Len(uses[s])
      BY <1>9
    <3>2. /\ DOMAIN uses[s] = 1 .. n /\ DOMAIN uses'[s] = 1 .. n + 1
          /\ uses'[s][n + 1] = now /\ \A k \in 1 .. n : uses'[s][k] = uses[s][k]
      BY <1>9, <1>10, <3>1
    <3>3. CASE now <= states[s].expiresAt
      <4>1. inWindow(s) = {}
        BY <1>5, <1>9, <3>3 DEF ConnectionInv, WindowsOK
      <4>2. \A j \in inWindow(s)' : j = n + 1
        BY <1>1, <3>2, <4>1 DEF inWindow
      <4> QED BY <1>5, <2>2, <4>2
    <3>4. CASE now > states[s].expiresAt
      <4>1. \A j \in inWindow(s)' : j \in inWindow(s)
        BY <1>1, <1>9, <3>2, <3>4 DEF inWindow
      <4> QED BY <1>5, <2>2, <4>1 DEF ConnectionInv, WindowsOK
    <3> QED BY <1>9, <3>3, <3>4
  <2> QED BY <2>1, <2>2
<1>13. UnissuedUnused'
  BY <1>1, <1>10 DEF ConnectionInv, UnissuedUnused
<1>. QED
  BY <1>1, <1>8, <1>11, <1>12, <1>13 DEF ConnectionInv, OneWalletPerAthlete, GrantsOK

LEMMA ExchangeKeepsInv ==
  ASSUME ConnectionInv, NEW h \in Requests, exchangeStravaCode(h) PROVE ConnectionInv'
<1>1. PICK q : q = requests[h]
  OBVIOUS
<1>2. q \in [step : {"pruning", "consuming", "exchanging"}, state : DOMAIN states,
             wallet : Wallets, athlete : Athletes]
  BY <1>1, RequestHolds DEF exchangeStravaCode, ConnectionInv, RequestsOK
<1>3. PICK t \in Tokens :
          /\ issue(q.athlete, t)
          /\ requests' = [requests EXCEPT ![h] =
                [step |-> "saving", wallet |-> q.wallet, athlete |-> q.athlete, tokens |-> t]]
  BY <1>1 DEF exchangeStravaCode, ConnectionInv, RequestsOK
<1>4. PICK r : r = [step |-> "saving", wallet |-> q.wallet, athlete |-> q.athlete, tokens |-> t]
  OBVIOUS
<1>5. RequestOK(r)
  BY <1>2, <1>4 DEF RequestOK
<1>6. GrantsOK'
  BY <1>2, <1>3, IssueKeepsGrants DEF ConnectionInv
<1>. QED
  BY <1>3, <1>4, <1>5, <1>6, GrantStep DEF exchangeStravaCode

LEMMA SaveKeepsInv ==
  ASSUME ConnectionInv, NEW h \in Requests, saveStravaConnection(h) PROVE ConnectionInv'
<1>1. PICK q : q = requests[h]
  OBVIOUS
<1>2. q \in [step : {"saving"}, wallet : Wallets, athlete : Athletes, tokens : Tokens]
  BY <1>1, RequestHolds DEF saveStravaConnection, ConnectionInv, RequestsOK
<1>3. PICK row : row = Row(q.athlete, q.tokens)
  OBVIOUS
<1>4. /\ rows' = [rows EXCEPT ![q.wallet] = row]
      /\ \A v \in Wallets \ {q.wallet} : rows[v].connected => rows[v].athlete # q.athlete
  BY <1>1, <1>3 DEF saveStravaConnection, athleteFree
<1>5. row \in RowType /\ row.athlete = q.athlete
  BY <1>2, <1>3 DEF RowType, Row
<1>6. rows' \in [Wallets -> RowType]
  BY <1>2, <1>4, <1>5 DEF ConnectionInv
<1>7. OneWalletPerAthlete'
  BY <1>2, <1>4, <1>5 DEF ConnectionInv, OneWalletPerAthlete
<1>8. RequestOK(Idle)
  BY DEF RequestOK
<1>. QED
  BY <1>6, <1>7, <1>8, RowStep DEF saveStravaConnection

LEMMA ReadKeepsInv ==
  ASSUME ConnectionInv, NEW h \in Requests, NEW w \in Wallets,
         NEW purpose \in {"checkin", "disconnect"}, NEW fresh \in BOOLEAN,
         readConnection(h, w, purpose, fresh)
  PROVE  ConnectionInv'
<1>1. rows[w].athlete \in Athletes /\ rows[w].tokens \in Tokens
  <2>1. rows[w] \in RowType /\ rows[w].connected
    BY DEF readConnection, ConnectionInv
  <2> QED BY <2>1, RowHolds
<1>2. PICK step : step = IF fresh THEN "using" ELSE "refreshing"
  OBVIOUS
<1>3. PICK r : r = [step |-> step, purpose |-> purpose,
                    wallet |-> w, athlete |-> rows[w].athlete, tokens |-> rows[w].tokens]
  OBVIOUS
<1>4. RequestOK(r)
  BY <1>1, <1>2, <1>3 DEF RequestOK
<1>. QED
  BY <1>2, <1>3, <1>4, RequestStep DEF readConnection

LEMMA RefreshKeepsInv ==
  ASSUME ConnectionInv, NEW h \in Requests, refreshStravaTokens(h) PROVE ConnectionInv'
<1>1. PICK q : q = requests[h]
  OBVIOUS
<1>2. q \in [step : {"refreshing", "rotating", "using", "signed"},
             purpose : {"checkin", "disconnect"},
             wallet : Wallets, athlete : Athletes, tokens : Tokens]
  BY <1>1, RequestHolds DEF refreshStravaTokens, ConnectionInv, RequestsOK
<1>3. PICK t \in Tokens :
          /\ issue(q.tokens.athlete, t)
          /\ requests' = [requests EXCEPT ![h].step = "rotating", ![h].tokens = t]
  BY <1>1 DEF refreshStravaTokens
<1>4. PICK r : r = [q EXCEPT !.step = "rotating", !.tokens = t]
  OBVIOUS
<1>5. RequestOK(r) /\ requests' = [requests EXCEPT ![h] = r]
  BY <1>1, <1>2, <1>3, <1>4 DEF RequestOK, ConnectionInv, RequestsOK
<1>6. q.tokens.athlete \in Athletes
  BY <1>2 DEF Tokens
<1>7. GrantsOK'
  BY <1>3, <1>6, IssueKeepsGrants DEF ConnectionInv
<1>. QED
  BY <1>5, <1>7, GrantStep DEF refreshStravaTokens

LEMMA RotateKeepsInv ==
  ASSUME ConnectionInv, NEW h \in Requests, rotateTokens(h) PROVE ConnectionInv'
<1>1. PICK q : q = requests[h]
  OBVIOUS
<1>2. q \in [step : {"refreshing", "rotating", "using", "signed"},
             purpose : {"checkin", "disconnect"},
             wallet : Wallets, athlete : Athletes, tokens : Tokens]
  BY <1>1, RequestHolds DEF rotateTokens, ConnectionInv, RequestsOK
<1>3. PICK w \in Wallets : w = q.wallet
  BY <1>2
<1>4. PICK row : row = IF rows[w].connected THEN Row(rows[w].athlete, q.tokens) ELSE rows[w]
  OBVIOUS
<1>5. rows' = [rows EXCEPT ![w] = row]
  BY <1>1, <1>3, <1>4 DEF rotateTokens, ConnectionInv
<1>6. /\ row \in RowType /\ row.connected = rows[w].connected
      /\ rows[w].connected => row.athlete = rows[w].athlete
  <2>1. rows[w] \in RowType
    BY DEF ConnectionInv
  <2>2. CASE rows[w].connected
    <3>1. rows[w] \in [connected : {TRUE}, athlete : Athletes, tokens : Tokens]
      BY <2>1, <2>2, RowHolds
    <3>2. row = [connected |-> TRUE, athlete |-> rows[w].athlete, tokens |-> q.tokens]
      BY <1>4, <2>2 DEF Row
    <3>3. row \in RowType
      BY <1>2, <3>1, <3>2 DEF RowType
    <3> QED BY <3>1, <3>2, <3>3
  <2>3. CASE ~rows[w].connected
    BY <1>4, <2>1, <2>3
  <2> QED BY <2>2, <2>3
<1>7. rows' \in [Wallets -> RowType]
  BY <1>5, <1>6 DEF ConnectionInv
<1>8. OneWalletPerAthlete'
  BY <1>5, <1>6 DEF ConnectionInv, OneWalletPerAthlete
<1>9. PICK r : r = [q EXCEPT !.step = "using"]
  OBVIOUS
<1>10. RequestOK(r) /\ requests' = [requests EXCEPT ![h] = r]
  BY <1>1, <1>2, <1>9 DEF RequestOK, rotateTokens
<1>. QED
  BY <1>7, <1>8, <1>10, RowStep DEF rotateTokens

LEMMA CheckinKeepsInv ==
  ASSUME ConnectionInv, NEW h \in Requests, checkin(h) PROVE ConnectionInv'
<1>1. PICK q : q = requests[h]
  OBVIOUS
<1>2. q \in [step : {"refreshing", "rotating", "using", "signed"},
             purpose : {"checkin", "disconnect"},
             wallet : Wallets, athlete : Athletes, tokens : Tokens]
  BY <1>1, RequestHolds DEF checkin, ConnectionInv, RequestsOK
<1>3. PICK r : r = [q EXCEPT !.step = "signed"]
  OBVIOUS
<1>4. RequestOK(r) /\ requests' = [requests EXCEPT ![h] = r]
  BY <1>1, <1>2, <1>3 DEF RequestOK, checkin
<1>. QED
  BY <1>4, RequestStep DEF checkin

LEMMA RevokeKeepsInv ==
  ASSUME ConnectionInv, NEW h \in Requests, revokeStravaGrant(h) PROVE ConnectionInv'
<1>1. PICK q : q = requests[h]
  OBVIOUS
<1>2. q \in [step : {"refreshing", "rotating", "using", "signed"},
             purpose : {"checkin", "disconnect"},
             wallet : Wallets, athlete : Athletes, tokens : Tokens]
  BY <1>1, RequestHolds DEF revokeStravaGrant, ConnectionInv, RequestsOK
<1>3. PICK r : r = [step |-> "deleting", wallet |-> q.wallet]
  OBVIOUS
<1>4. RequestOK(r) /\ requests' = [requests EXCEPT ![h] = r]
  BY <1>1, <1>2, <1>3 DEF RequestOK, revokeStravaGrant, ConnectionInv, RequestsOK
<1>5. GrantsOK'
  <2>1. CASE UNCHANGED grants
    BY <2>1 DEF ConnectionInv, GrantsOK
  <2>2. CASE withdraw(q.tokens)
    BY <1>2, <2>2, WithdrawKeepsGrants DEF ConnectionInv
  <2> QED BY <1>1, <2>1, <2>2 DEF revokeStravaGrant
<1>. QED
  BY <1>4, <1>5, GrantStep DEF revokeStravaGrant

LEMMA SkipKeepsInv ==
  ASSUME ConnectionInv, NEW h \in Requests, NEW w \in Wallets, skipRevoke(h, w)
  PROVE  ConnectionInv'
<1>1. PICK r : r = [step |-> "deleting", wallet |-> w]
  OBVIOUS
<1>2. RequestOK(r)
  BY <1>1 DEF RequestOK
<1>. QED
  BY <1>1, <1>2, RequestStep DEF skipRevoke

LEMMA DeleteKeepsInv ==
  ASSUME ConnectionInv, NEW h \in Requests, deleteStravaConnection(h) PROVE ConnectionInv'
<1>1. PICK w \in Wallets : w = requests[h].wallet
  <2>1. PICK q : q = requests[h]
    OBVIOUS
  <2>2. q \in [step : {"deleting"}, wallet : Wallets]
    BY <2>1, RequestHolds DEF deleteStravaConnection, ConnectionInv, RequestsOK
  <2> QED BY <2>1, <2>2
<1>2. rows' = [rows EXCEPT ![w] = NoRow]
  BY <1>1 DEF deleteStravaConnection
<1>3. NoRow \in RowType /\ ~NoRow.connected
  BY DEF RowType, NoRow
<1>4. rows' \in [Wallets -> RowType]
  BY <1>2, <1>3 DEF ConnectionInv
<1>5. OneWalletPerAthlete'
  BY <1>2, <1>3 DEF ConnectionInv, OneWalletPerAthlete
<1>6. RequestOK(Idle)
  BY DEF RequestOK
<1>. QED
  BY <1>4, <1>5, <1>6, RowStep DEF deleteStravaConnection

LEMMA EndKeepsInv ==
  ASSUME ConnectionInv, NEW h \in Requests, EndRequest(h) PROVE ConnectionInv'
<1>1. RequestOK(Idle)
  BY DEF RequestOK
<1>. QED
  BY <1>1, RequestStep DEF EndRequest

LEMMA StepKeepsInv == ConnectionInv /\ [Next]_vars => ConnectionInv'
<1> SUFFICES ASSUME ConnectionInv, [Next]_vars PROVE ConnectionInv'
  OBVIOUS
<1>1. ASSUME NEW h \in Requests, Callback(h) PROVE ConnectionInv'
  BY <1>1, VerifyKeepsInv, PruneKeepsInv, ConsumeKeepsInv, ExchangeKeepsInv, SaveKeepsInv DEF Callback
<1>2. ASSUME NEW h \in Requests, Connection(h) PROVE ConnectionInv'
  BY <1>2, ReadKeepsInv, RefreshKeepsInv, RotateKeepsInv, CheckinKeepsInv, RevokeKeepsInv,
     SkipKeepsInv, DeleteKeepsInv DEF Connection
<1>3. CASE UNCHANGED vars
  BY <1>3 DEF vars, ConnectionInv, StatesOK, WindowsOK, inWindow, UnissuedUnused,
     OneWalletPerAthlete, GrantsOK, RequestsOK, RequestOK
<1>. QED
  BY <1>1, <1>2, <1>3, EndKeepsInv, AuthorizeKeepsInv, TickKeepsInv DEF Next

-----------------------------------------------------------------------------
(* The theorems.                                                           *)

(* The invariant holds of every reachable state of the connection.         *)
THEOREM ConnectionInvHolds == Spec => []ConnectionInv
<1>. QED
  BY InitConnection, StepKeepsInv, PTL DEF Spec

(* No athlete backs the rows of two wallets, whichever callbacks,          *)
(* refreshes and disconnects interleave.                                   *)
THEOREM AthletesBackOneWallet == Spec => []OneWalletPerAthlete
<1>1. ConnectionInv => OneWalletPerAthlete
  BY DEF ConnectionInv
<1>. QED
  BY <1>1, ConnectionInvHolds, PTL

(* A signed OAuth state is accepted at most once before it expires.        *)
THEOREM StatesAreUsedOnce == Spec => []StateUsedOnceInItsWindow
<1>1. ConnectionInv => StateUsedOnceInItsWindow
  <2> SUFFICES ASSUME ConnectionInv, NEW s \in DOMAIN states
               PROVE  Cardinality(inWindow(s)) <= 1
    BY DEF StateUsedOnceInItsWindow, inWindow
  <2>1. CASE inWindow(s) = {}
    BY <2>1, FS_EmptySet
  <2>2. CASE inWindow(s) # {}
    <3>1. PICK k : k \in inWindow(s)
      BY <2>2
    <3>2. inWindow(s) = {k}
      BY <3>1 DEF ConnectionInv, WindowsOK
    <3> QED BY <3>2, FS_Singleton
  <2> QED BY <2>1, <2>2
<1>. QED
  BY <1>1, ConnectionInvHolds, PTL

(* Only a new authorisation of a wallet brings back a row that is gone; a  *)
(* refresh in flight never does.                                           *)
THEOREM ForgottenRowsStayForgotten == Spec => ForgottenStaysForgotten
<1> DEFINE Forgotten ==
      \A w \in Wallets : ~rows[w].connected /\ rows'[w].connected =>
          \E h \in Requests : requests[h].step = "saving" /\ requests[h].wallet = w
<1>1. ConnectionInv /\ [Next]_vars => [Forgotten]_vars
  <2> SUFFICES ASSUME ConnectionInv, Next, NEW w \in Wallets,
                      ~rows[w].connected, rows'[w].connected
               PROVE  \E h \in Requests : requests[h].step = "saving" /\ requests[h].wallet = w
    OBVIOUS
  <2>1. DOMAIN rows = Wallets /\ rows' # rows
    BY DEF ConnectionInv
  <2>2. PICK h \in Requests : saveStravaConnection(h) \/ rotateTokens(h) \/ deleteStravaConnection(h)
    BY <2>1 DEF Next, Callback, Connection, EndRequest, issueStravaState, Tick, verifyStravaState,
       pruneStates, consumeStravaState, exchangeStravaCode, readConnection, refreshStravaTokens,
       checkin, revokeStravaGrant, skipRevoke
  <2>3. CASE saveStravaConnection(h)
    BY <2>1, <2>3 DEF saveStravaConnection
  <2>4. CASE rotateTokens(h)
    BY <2>1, <2>4 DEF rotateTokens
  <2>5. CASE deleteStravaConnection(h)
    BY <2>1, <2>5 DEF deleteStravaConnection, NoRow
  <2> QED BY <2>2, <2>3, <2>4, <2>5
<1>. QED
  BY <1>1, ConnectionInvHolds, PTL DEF Spec, ForgottenStaysForgotten
=============================================================================
