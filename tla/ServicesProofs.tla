--------------------------- MODULE ServicesProofs ---------------------------
(***************************************************************************)
(* The smaller parts, each with the inductive invariant that its property  *)
(* needs: the binary search over pauses, the owner's scripts, the preview, *)
(* the wallet's session and connection, the Lock page, the leaderboard,    *)
(* the release switches and the rate limiter.                              *)
(***************************************************************************)
EXTENDS PauseSearch, CompletionPausesProofs, OwnerScripts, RateLimiter, Preview,
        WalletSessions, WalletConnect, LockPage, SocialBoard, ReleaseHealth,
        Integers, SumProofs, FiniteSetTheorems, TLAPS

-----------------------------------------------------------------------------
(* The search for a pause: correct for every history and every search key,  *)
(* and every round halves the work.                                         *)

FoundAtEnd == phase = "found" => low = high

IInv == TypeOK /\ PausesInOrder /\ LoopInvariant /\ FoundAtEnd

LEMMA InitIInv == Init => IInv
<1> SUFFICES ASSUME Init PROVE IInv
  OBVIOUS
<1>1. LedgerOK
  BY LedgerInit DEF Init
<1>2. TypeOK
  BY <1>1, PauseBounds DEF Init, TypeOK, LedgerOK
<1>3. LoopInvariant
  BY DEF Init, LoopInvariant
<1>4. FoundAtEnd
  BY DEF Init, FoundAtEnd
<1> QED BY <1>1, <1>2, <1>3, <1>4 DEF IInv, LedgerOK

(* The middle of a non-empty range lies in it.                             *)
LEMMA MiddleInRange ==
  ASSUME low \in Nat, high \in Nat, low < high
  PROVE  middle \in Nat /\ low <= middle /\ middle < high
BY DEF middle

LEMMA NextIInv == IInv /\ [Next]_vars => IInv'
<1> SUFFICES ASSUME IInv, [Next]_vars PROVE IInv'
  OBVIOUS
<1>1. LedgerOK /\ startsAt \in Nat /\ low \in Nat /\ high \in Nat /\ low >= 1 /\ high >= 1
  BY PauseBounds DEF IInv, TypeOK, LedgerOK
<1>2. ASSUME OwnerOrBlock PROVE IInv'
  <2>1. LedgerOK'
    BY <1>1, <1>2, LedgerSwitch, LedgerTick DEF OwnerOrBlock
  <2>2. phase' = "idle" /\ UNCHANGED <<startsAt, low, high>>
    BY <1>2 DEF OwnerOrBlock
  <2> QED BY <2>1, <2>2 DEF IInv, TypeOK, LedgerOK, LoopInvariant, FoundAtEnd
<1>3. ASSUME UNCHANGED <<now, pauseVars>>, IInv
      PROVE  LedgerOK' /\ closedCount' = closedCount
             /\ completionPauseEndedAt' = completionPauseEndedAt
  BY <1>1, <1>3, LedgerStutter DEF pauseVars, closedCount, completionPauseGeneration
<1>4. ASSUME NEW t \in 0 .. MaxTime, Begin(t) PROVE IInv'
  <2>1. LedgerOK' /\ closedCount' = closedCount /\ closedCount \in Nat
    BY <1>1, <1>3, <1>4, LedgerShape DEF Begin, LedgerOK
  <2>2. /\ phase' = "searching" /\ startsAt' = t /\ low' = 1
        /\ high' = closedCount + 1
    BY <1>4 DEF Begin
  <2>3. TypeOK'
    BY <2>1, <2>2 DEF TypeOK, LedgerOK
  <2>4. LoopInvariant'
    BY <2>1, <2>2 DEF LoopInvariant
  <2> QED BY <2>1, <2>2, <2>3, <2>4 DEF IInv, LedgerOK, FoundAtEnd
<1>5. ASSUME Halve PROVE IInv'
  <2>1. /\ LedgerOK' /\ closedCount' = closedCount
        /\ completionPauseEndedAt' = completionPauseEndedAt
    BY <1>3, <1>5 DEF Halve
  <2>2. /\ phase = "searching" /\ phase' = phase /\ startsAt' = startsAt /\ low < high
        /\ middle \in Nat /\ low <= middle /\ middle < high
    BY <1>1, <1>5, MiddleInRange DEF Halve
  <2>3. /\ closedCount \in Nat /\ high <= closedCount + 1
        /\ \A j \in 1 .. closedCount : completionPauseEndedAt[j] \in Nat
        /\ \A j \in 1 .. low - 1 : completionPauseEndedAt[j] <= startsAt
        /\ \A j \in high .. closedCount : completionPauseEndedAt[j] > startsAt
    BY <1>1, <2>2, LedgerShape DEF IInv, LoopInvariant, LedgerOK
  <2>4. \A i, j \in 1 .. closedCount :
           i <= j => completionPauseEndedAt[i] <= completionPauseEndedAt[j]
    <3>1. ASSUME NEW i \in 1 .. closedCount, NEW j \in 1 .. closedCount, i < j
          PROVE  completionPauseEndedAt[i] <= completionPauseEndedAt[j]
      <4>1. i \in 1 .. completionPauseGeneration /\ j \in 1 .. completionPauseGeneration
        BY <1>1, LedgerShape DEF LedgerOK
      <4>2. completionPauseEndedAt[i] <= completionPauseStartedAt[j]
        BY <1>1, <3>1, <4>1 DEF LedgerOK, PausesInOrder
      <4>3. completionPauseStartedAt[j] <= completionPauseEndedAt[j]
        BY <1>1 DEF LedgerOK, PausesInOrder
      <4>4. completionPauseStartedAt[j] \in Nat
        BY <1>1, <4>1, LedgerShape DEF LedgerOK
      <4> QED BY <2>3, <4>2, <4>3, <4>4
    <3> QED BY <2>3, <3>1
  <2>5. CASE endedAfterStart(middle) /\ high' = middle /\ low' = low
    <3>1. TypeOK'
      BY <1>1, <2>1, <2>2, <2>5 DEF TypeOK, LedgerOK, IInv
    <3>2. \A j \in middle .. closedCount : completionPauseEndedAt[j] > startsAt
      BY <1>1, <2>2, <2>3, <2>4, <2>5 DEF endedAfterStart
    <3>3. LoopInvariant'
      BY <1>1, <2>1, <2>2, <2>3, <2>5, <3>2 DEF LoopInvariant
    <3> QED BY <2>1, <2>2, <3>1, <3>3 DEF IInv, LedgerOK, FoundAtEnd
  <2>6. CASE ~endedAfterStart(middle) /\ low' = middle + 1 /\ high' = high
    <3>1. TypeOK'
      BY <1>1, <2>1, <2>2, <2>6 DEF TypeOK, LedgerOK, IInv
    <3>2. \A j \in 1 .. middle : completionPauseEndedAt[j] <= startsAt
      BY <1>1, <2>2, <2>3, <2>4, <2>6 DEF endedAfterStart
    <3>3. LoopInvariant'
      BY <1>1, <2>1, <2>2, <2>3, <2>6, <3>2 DEF LoopInvariant
    <3> QED BY <2>1, <2>2, <3>1, <3>3 DEF IInv, LedgerOK, FoundAtEnd
  <2> QED BY <1>5, <2>5, <2>6 DEF Halve
<1>6. ASSUME LeaveLoop \/ Return \/ UNCHANGED vars PROVE IInv'
  <2>1. /\ LedgerOK' /\ closedCount' = closedCount
        /\ completionPauseEndedAt' = completionPauseEndedAt
    BY <1>3, <1>6 DEF LeaveLoop, Return, vars
  <2>2. /\ UNCHANGED <<startsAt, low, high>>
        /\ phase' \in {"idle", "searching", "found"}
        /\ phase' # "idle" => phase # "idle"
    BY <1>6 DEF LeaveLoop, Return, vars, IInv, TypeOK
  <2>3. TypeOK'
    BY <2>1, <2>2 DEF TypeOK, LedgerOK, IInv
  <2>4. LoopInvariant'
    BY <2>1, <2>2 DEF LoopInvariant, IInv
  <2>5. FoundAtEnd'
    <3>1. CASE LeaveLoop
      BY <1>1, <2>2, <3>1 DEF LeaveLoop, FoundAtEnd, IInv, LoopInvariant
    <3>2. CASE Return \/ UNCHANGED vars
      BY <2>2, <3>2 DEF Return, vars, FoundAtEnd, IInv
    <3> QED BY <1>6, <3>1, <3>2
  <2> QED BY <2>1, <2>3, <2>4, <2>5 DEF IInv, LedgerOK
<1> QED BY <1>2, <1>4, <1>5, <1>6 DEF Next

LEMMA AlwaysIInv == Spec => []IInv
BY InitIInv, NextIInv, PTL DEF Spec

(* The ledger and the loop keep their types.                               *)
THEOREM SearchTypeOK == Spec => []TypeOK
<1>1. IInv => TypeOK
  BY DEF IInv
<1> QED BY <1>1, AlwaysIInv, PTL

(* The pauses stay disjoint intervals in order, whatever the owner does.   *)
THEOREM PausesStayInOrder == Spec => []PausesInOrder
<1>1. IInv => PausesInOrder
  BY DEF IInv
<1> QED BY <1>1, AlwaysIInv, PTL

(* The loop keeps its invariant.                                           *)
THEOREM LoopStaysInvariant == Spec => []LoopInvariant
<1>1. IInv => LoopInvariant
  BY DEF IInv
<1> QED BY <1>1, AlwaysIInv, PTL

(* When the loop ends it has found the first closed pause that ended after *)
(* the Lock's start, whatever the history.                                 *)
THEOREM SearchIsCorrect == Spec => []SearchCorrect
<1>1. ASSUME IInv PROVE SearchCorrect
  <2>1. ASSUME phase = "found" PROVE IsFirstEndedAfter(startsAt, low)
    <3>1. low = high /\ low \in Nat /\ closedCount \in Nat
      BY <1>1, <2>1, LedgerShape DEF IInv, FoundAtEnd, TypeOK
    <3> QED BY <1>1, <2>1, <3>1 DEF IInv, LoopInvariant, IsFirstEndedAfter
  <2> QED BY <2>1 DEF SearchCorrect
<1> QED BY <1>1, AlwaysIInv, PTL

(* And what settlement concludes from it is right for every window: a Lock *)
(* is refunded exactly when some pause overlapped its submission window.   *)
THEOREM EveryPauseIsFound == Spec => []SearchFindsEveryPause
<1>1. ASSUME IInv PROVE SearchFindsEveryPause
  <2>1. \A t \in 0 .. MaxTime : t \in Nat
    BY PauseBounds
  <2> QED BY <1>1, <2>1, SearchDecidesOverlap DEF IInv, TypeOK, SearchFindsEveryPause
<1> QED BY <1>1, AlwaysIInv, PTL

(* The loop ends after logarithmically many rounds: each leaves at most    *)
(* half of the pauses to look at.                                          *)
THEOREM RoundsHalve == Spec => EveryRoundHalves
<1>1. ASSUME IInv, [Next]_vars
      PROVE  [phase = "searching" /\ phase' = "searching"
                 => 2 * (high' - low') <= high - low]_vars
  <2>1. ASSUME Next, phase = "searching", phase' = "searching"
        PROVE  2 * (high' - low') <= high - low
    <3>1. Halve
      BY <2>1 DEF Next, OwnerOrBlock, Begin, LeaveLoop, Return
    <3>2. low \in Nat /\ high \in Nat /\ low < high /\ middle = low + (high - low) \div 2
      BY <1>1, <3>1 DEF IInv, TypeOK, Halve, middle
    <3>3. \/ high' = middle /\ low' = low
          \/ low' = middle + 1 /\ high' = high
      BY <3>1 DEF Halve
    <3> QED BY <3>2, <3>3
  <2> QED BY <1>1, <2>1
<1> QED BY <1>1, AlwaysIInv, PTL DEF Spec, EveryRoundHalves

-----------------------------------------------------------------------------
(* The owner's script.                                                     *)

closing(seen, desired, x) == seen[x] = FALSE /\ desired[x] = TRUE
opening(seen, desired, x) == seen[x] = TRUE /\ desired[x] = FALSE
Exposing == {"creation", "joining"}

\* In a plan, x may come before y.
mayPrecede(seen, desired, x, y) ==
    /\ x # y
    /\ ~(x = "completion" /\ closing(seen, desired, x) /\ y \in Exposing /\ closing(seen, desired, y))
    /\ ~(y = "completion" /\ opening(seen, desired, y) /\ x \in Exposing /\ opening(seen, desired, x))

inOrder(seen, desired, plan) ==
    \A i, j \in 1..Len(plan) : i < j => mayPrecede(seen, desired, plan[i], plan[j])

ScriptTypes ==
    /\ paused \in Positions
    /\ script \in [step : {"none", "sending", "done", "failed"}, seen : Positions, desired : Positions,
                   calls : Seq(Switches), alone : BOOLEAN]

(* Wherever the plan stands, the proof path was closed after the exposure   *)
(* and opened before it; what is left to send is what is not done, in order.*)
planHolds ==
    /\ \A x \in Switches : paused[x] \in {script.seen[x], script.desired[x]}
    /\ closing(script.seen, script.desired, "completion") /\ paused["completion"] = TRUE =>
          \A x \in Exposing : closing(script.seen, script.desired, x) => paused[x] = TRUE
    /\ opening(script.seen, script.desired, "completion") /\ paused["completion"] = TRUE =>
          \A x \in Exposing : opening(script.seen, script.desired, x) => paused[x] = TRUE
    /\ script.step = "sending" =>
          \A x \in Switches : x \in ToSet(script.calls)
              <=> paused[x] = script.seen[x] /\ script.seen[x] # script.desired[x]

ScriptInv ==
    /\ ScriptTypes
    /\ inOrder(script.seen, script.desired, script.calls)
    /\ script.alone = TRUE => planHolds

LEMMA OrderOfCat ==
  ASSUME NEW seen, NEW desired, NEW s \in Seq(Switches), NEW t \in Seq(Switches),
         inOrder(seen, desired, s), inOrder(seen, desired, t),
         \A x \in ToSet(s), y \in ToSet(t) : mayPrecede(seen, desired, x, y)
  PROVE  inOrder(seen, desired, s \o t)
<1> DEFINE u == s \o t
<1>1. /\ Len(u) = Len(s) + Len(t) /\ Len(s) \in Nat /\ Len(t) \in Nat
      /\ \A i \in 1..Len(u) : u[i] = IF i <= Len(s) THEN s[i] ELSE t[i - Len(s)]
  OBVIOUS
<1> HIDE DEF u
<1>2. /\ \A i \in 1..Len(s) : s[i] \in ToSet(s)
      /\ \A i \in 1..Len(t) : t[i] \in ToSet(t)
  BY DEF ToSet
<1>3. ASSUME NEW i \in 1..Len(u), NEW j \in 1..Len(u), i < j
      PROVE  mayPrecede(seen, desired, u[i], u[j])
  <2>1. CASE j <= Len(s)
    BY <1>1, <1>3, <2>1 DEF inOrder
  <2>2. CASE i <= Len(s) /\ j > Len(s)
    BY <1>1, <1>2, <2>2
  <2>3. CASE i > Len(s)
    <3>1. /\ i - Len(s) \in 1..Len(t) /\ j - Len(s) \in 1..Len(t) /\ i - Len(s) < j - Len(s)
          /\ u[i] = t[i - Len(s)] /\ u[j] = t[j - Len(s)]
      BY <1>1, <1>3, <2>3
    <3> QED BY <3>1 DEF inOrder
  <2> QED BY <1>1, <2>1, <2>2, <2>3
<1> QED BY <1>3 DEF inOrder, u

LEMMA SetOfCat ==
  ASSUME NEW s \in Seq(Switches), NEW t \in Seq(Switches)
  PROVE  s \o t \in Seq(Switches) /\ ToSet(s \o t) = ToSet(s) \cup ToSet(t)
<1> DEFINE u == s \o t
<1>1. /\ u \in Seq(Switches) /\ Len(u) = Len(s) + Len(t) /\ Len(s) \in Nat /\ Len(t) \in Nat
      /\ \A i \in 1..Len(u) : u[i] = IF i <= Len(s) THEN s[i] ELSE t[i - Len(s)]
      /\ DOMAIN u = 1..Len(u) /\ DOMAIN s = 1..Len(s) /\ DOMAIN t = 1..Len(t)
  OBVIOUS
<1> HIDE DEF u
<1>2. ASSUME NEW x \in ToSet(u) PROVE x \in ToSet(s) \cup ToSet(t)
  <2>1. PICK i \in 1..Len(u) : x = u[i]
    BY <1>1 DEF ToSet
  <2>2. CASE i <= Len(s)
    BY <1>1, <2>1, <2>2 DEF ToSet
  <2>3. CASE i > Len(s)
    <3>1. i - Len(s) \in 1..Len(t) /\ x = t[i - Len(s)]
      BY <1>1, <2>1, <2>3
    <3> QED BY <1>1, <3>1 DEF ToSet
  <2> QED BY <1>1, <2>2, <2>3
<1>3. ASSUME NEW x \in ToSet(s) PROVE x \in ToSet(u)
  <2>1. PICK i \in 1..Len(s) : x = s[i]
    BY <1>1 DEF ToSet
  <2>2. i \in 1..Len(u) /\ u[i] = x
    BY <1>1, <2>1
  <2> QED BY <1>1, <2>2 DEF ToSet
<1>4. ASSUME NEW x \in ToSet(t) PROVE x \in ToSet(u)
  <2>1. PICK i \in 1..Len(t) : x = t[i]
    BY <1>1 DEF ToSet
  <2>2. i + Len(s) \in 1..Len(u) /\ u[i + Len(s)] = x
    BY <1>1, <2>1
  <2> QED BY <1>1, <2>2 DEF ToSet
<1> QED BY <1>1, <1>2, <1>3, <1>4 DEF u

(* The plan names the switches that are to move, each once, and in order.  *)
LEMMA PlanIsInOrder ==
  ASSUME NEW seen \in Positions, NEW desired \in Positions
  PROVE  /\ operations(seen, desired) \in Seq(Switches)
         /\ \A x \in Switches : x \in ToSet(operations(seen, desired)) <=> seen[x] # desired[x]
         /\ inOrder(seen, desired, operations(seen, desired))
<1> DEFINE closes(x) == IF ~seen[x] /\ desired[x] THEN <<x>> ELSE <<>>
           opens(x) == IF seen[x] /\ ~desired[x] THEN <<x>> ELSE <<>>
           two == closes("creation") \o closes("joining")
           three == two \o closes("completion")
           four == three \o opens("completion")
           five == four \o opens("joining")
<1>1. operations(seen, desired) = five \o opens("creation")
  BY DEF operations, closeOrder, openOrder
<1>2. \A x \in Switches : seen[x] \in BOOLEAN /\ desired[x] \in BOOLEAN
  BY DEF Positions
<1>3. ASSUME NEW x \in Switches
      PROVE  /\ closes(x) \in Seq(Switches) /\ opens(x) \in Seq(Switches)
             /\ ToSet(closes(x)) = IF closing(seen, desired, x) THEN {x} ELSE {}
             /\ ToSet(opens(x)) = IF opening(seen, desired, x) THEN {x} ELSE {}
             /\ inOrder(seen, desired, closes(x)) /\ inOrder(seen, desired, opens(x))
  <2>1. ToSet(<<x>>) = {x} /\ ToSet(<<>>) = {}
        /\ <<x>> \in Seq(Switches) /\ <<>> \in Seq(Switches)
    BY DEF ToSet
  <2>2. inOrder(seen, desired, <<x>>) /\ inOrder(seen, desired, <<>>)
    BY DEF inOrder
  <2>3. /\ closing(seen, desired, x) => closes(x) = <<x>>
        /\ ~closing(seen, desired, x) => closes(x) = <<>>
        /\ opening(seen, desired, x) => opens(x) = <<x>>
        /\ ~opening(seen, desired, x) => opens(x) = <<>>
    BY <1>2 DEF closing, opening
  <2> HIDE DEF closes, opens
  <2>4. /\ closes(x) \in Seq(Switches) /\ inOrder(seen, desired, closes(x))
        /\ ToSet(closes(x)) = IF closing(seen, desired, x) THEN {x} ELSE {}
    <3>1. CASE closing(seen, desired, x)
      BY <2>1, <2>2, <2>3, <3>1
    <3>2. CASE ~closing(seen, desired, x)
      BY <2>1, <2>2, <2>3, <3>2
    <3> QED BY <3>1, <3>2
  <2>5. /\ opens(x) \in Seq(Switches) /\ inOrder(seen, desired, opens(x))
        /\ ToSet(opens(x)) = IF opening(seen, desired, x) THEN {x} ELSE {}
    <3>1. CASE opening(seen, desired, x)
      BY <2>1, <2>2, <2>3, <3>1
    <3>2. CASE ~opening(seen, desired, x)
      BY <2>1, <2>2, <2>3, <3>2
    <3> QED BY <3>1, <3>2
  <2> QED BY <2>4, <2>5
<1>4. {"creation", "joining", "completion"} = Switches
  BY DEF Switches
<1> HIDE DEF closes, opens
<1>5. /\ two \in Seq(Switches) /\ inOrder(seen, desired, two)
      /\ ToSet(two) = {x \in Exposing : closing(seen, desired, x)}
  <2>1. two \in Seq(Switches) /\ ToSet(two) = ToSet(closes("creation")) \cup ToSet(closes("joining"))
    BY <1>3, <1>4, SetOfCat
  <2>2. \A x \in ToSet(closes("creation")), y \in ToSet(closes("joining")) :
            mayPrecede(seen, desired, x, y)
    BY <1>3, <1>4 DEF mayPrecede
  <2> QED BY <1>3, <1>4, <2>1, <2>2, OrderOfCat DEF Exposing
<1> HIDE DEF two
<1>6. /\ three \in Seq(Switches) /\ inOrder(seen, desired, three)
      /\ ToSet(three) = {x \in Switches : closing(seen, desired, x)}
  <2>1. three \in Seq(Switches) /\ ToSet(three) = ToSet(two) \cup ToSet(closes("completion"))
    BY <1>3, <1>4, <1>5, SetOfCat
  <2>2. \A x \in ToSet(two), y \in ToSet(closes("completion")) : mayPrecede(seen, desired, x, y)
    BY <1>3, <1>4, <1>5 DEF mayPrecede, Exposing, opening, closing
  <2>3. inOrder(seen, desired, three)
    BY <1>3, <1>4, <1>5, <2>2, OrderOfCat
  <2> QED BY <1>3, <1>4, <1>5, <2>1, <2>3 DEF Exposing
<1> HIDE DEF three
<1>7. /\ four \in Seq(Switches) /\ inOrder(seen, desired, four)
      /\ ToSet(four) = {x \in Switches : closing(seen, desired, x)
                            \/ (x = "completion" /\ opening(seen, desired, x))}
  <2>1. four \in Seq(Switches) /\ ToSet(four) = ToSet(three) \cup ToSet(opens("completion"))
    BY <1>3, <1>4, <1>6, SetOfCat
  <2>2. \A x \in ToSet(three), y \in ToSet(opens("completion")) : mayPrecede(seen, desired, x, y)
    BY <1>3, <1>4, <1>6 DEF mayPrecede, Exposing, opening, closing
  <2>3. inOrder(seen, desired, four)
    BY <1>3, <1>4, <1>6, <2>2, OrderOfCat
  <2> QED BY <1>3, <1>4, <1>6, <2>1, <2>3
<1> HIDE DEF four
<1>8. /\ five \in Seq(Switches) /\ inOrder(seen, desired, five)
      /\ ToSet(five) = {x \in Switches : closing(seen, desired, x)
                            \/ (x # "creation" /\ opening(seen, desired, x))}
  <2>1. five \in Seq(Switches) /\ ToSet(five) = ToSet(four) \cup ToSet(opens("joining"))
    BY <1>3, <1>4, <1>7, SetOfCat
  <2>2. \A x \in ToSet(four), y \in ToSet(opens("joining")) : mayPrecede(seen, desired, x, y)
    BY <1>3, <1>4, <1>7 DEF mayPrecede, Exposing, opening, closing
  <2>3. inOrder(seen, desired, five)
    BY <1>3, <1>4, <1>7, <2>2, OrderOfCat
  <2> QED BY <1>3, <1>4, <1>7, <2>1, <2>3
<1> HIDE DEF five
<1>9. LET six == five \o opens("creation")
      IN /\ six \in Seq(Switches) /\ inOrder(seen, desired, six)
         /\ ToSet(six) = {x \in Switches : closing(seen, desired, x) \/ opening(seen, desired, x)}
  <2>1. five \o opens("creation") \in Seq(Switches)
        /\ ToSet(five \o opens("creation")) = ToSet(five) \cup ToSet(opens("creation"))
    BY <1>3, <1>4, <1>8, SetOfCat
  <2>2. \A x \in ToSet(five), y \in ToSet(opens("creation")) : mayPrecede(seen, desired, x, y)
    BY <1>3, <1>4, <1>8 DEF mayPrecede, Exposing, opening, closing
  <2>3. inOrder(seen, desired, five \o opens("creation"))
    BY <1>3, <1>4, <1>8, <2>2, OrderOfCat
  <2> QED BY <1>3, <1>4, <1>8, <2>1, <2>3
<1> QED BY <1>1, <1>2, <1>9 DEF closing, opening

(* Another plan, or none: what was seen is what is there.                  *)
LEMMA NewRunHolds ==
  ASSUME ScriptTypes, NEW step \in {"sending", "failed"}, NEW desired \in Positions,
         NEW plan \in Seq(Switches), script' = Run(step, desired, plan), paused' = paused,
         inOrder(paused, desired, plan),
         step = "sending" =>
             \A x \in Switches : x \in ToSet(plan) <=> paused[x] # desired[x]
  PROVE  ScriptInv'
<1>1. /\ script'.step = step /\ script'.seen = paused /\ script'.desired = desired
      /\ script'.calls = plan /\ ScriptTypes'
  BY DEF Run, ScriptTypes
<1>2. \A x \in Switches : paused[x] \in BOOLEAN /\ desired[x] \in BOOLEAN
  BY DEF ScriptTypes, Positions
<1>3. "completion" \in Switches /\ Exposing \subseteq Switches
  BY DEF Switches, Exposing
<1>4. planHolds'
  BY <1>1, <1>2, <1>3 DEF planHolds, closing, opening
<1> QED BY <1>1, <1>4 DEF ScriptInv

LEMMA ScriptInvIsInductive ==
  ASSUME ScriptInv, [ScriptNext]_scriptVars
  PROVE  ScriptInv'
<1>0. /\ ScriptTypes /\ script.seen \in Positions /\ script.desired \in Positions
      /\ script.calls \in Seq(Switches) /\ inOrder(script.seen, script.desired, script.calls)
      /\ \A x \in Switches : paused[x] \in BOOLEAN /\ script.seen[x] \in BOOLEAN
                             /\ script.desired[x] \in BOOLEAN
      /\ "completion" \in Switches /\ Exposing \subseteq Switches
  BY DEF ScriptInv, ScriptTypes, Positions, Switches, Exposing
\* The run goes on to another step of its own, its calls left or given up.
<1>1. ASSUME NEW step \in {"none", "sending", "done", "failed"}, NEW plan \in {script.calls, <<>>},
             NEW alone \in BOOLEAN,
             script' = [script EXCEPT !.step = step, !.calls = plan, !.alone = alone],
             paused' \in Positions,
             alone = TRUE => script.alone = TRUE /\ paused' = paused
                             /\ (step = "sending" => script.step = "sending" /\ plan = script.calls)
      PROVE  ScriptInv'
  <2>1. /\ script'.step = step /\ script'.seen = script.seen /\ script'.desired = script.desired
        /\ script'.calls = plan /\ script'.alone = alone /\ ScriptTypes'
    <3>1. PICK c \in Seq(Switches) : c = plan
      <4>1. <<>> \in Seq(Switches)
        OBVIOUS
      <4> QED BY <1>0, <4>1
    <3>2. script' = [script EXCEPT !.step = step, !.calls = c, !.alone = alone]
      BY <1>1, <3>1
    <3> QED BY <1>0, <1>1, <3>1, <3>2 DEF ScriptTypes
  <2>2. inOrder(script.seen, script.desired, plan)
    BY <1>0 DEF inOrder
  <2>3. alone = TRUE => planHolds'
    BY <1>1, <2>1 DEF ScriptInv, planHolds
  <2> QED BY <2>1, <2>2, <2>3 DEF ScriptInv
<1>2. ASSUME NEW desired \in Positions, Plan(desired) PROVE ScriptInv'
  <2>1. /\ script' = Run("sending", desired, operations(paused, desired)) /\ paused' = paused
        /\ paused \in Positions
    BY <1>0, <1>2 DEF Plan, ScriptTypes
  <2> QED BY <1>0, <2>1, NewRunHolds, PlanIsInOrder
<1>3. ASSUME NEW desired \in Positions, Refuse(desired) PROVE ScriptInv'
  <2>1. script' = Run("failed", desired, <<>>) /\ paused' = paused
    BY <1>3 DEF Refuse
  <2>2. inOrder(paused, desired, <<>>) /\ <<>> \in Seq(Switches)
    BY DEF inOrder
  <2> QED BY <1>0, <2>1, <2>2, NewRunHolds
<1>4. CASE Send
  <2> DEFINE h == Head(script.calls)
             rest == Tail(script.calls)
             n == Len(script.calls)
  <2>1. /\ script.step = "sending" /\ n \in Nat /\ n > 0 /\ h = script.calls[1] /\ h \in Switches
        /\ rest \in Seq(Switches) /\ Len(rest) = n - 1
        /\ \A i \in 1..(n - 1) : rest[i] = script.calls[i + 1]
        /\ paused' = [paused EXCEPT ![h] = script.desired[h]]
        /\ script' = [script EXCEPT !.calls = rest]
    BY <1>0, <1>4 DEF Send
  <2> HIDE DEF h, rest
  <2>2. \A j \in 2..n : mayPrecede(script.seen, script.desired, h, script.calls[j])
    <3>1. ASSUME NEW j \in 2..n PROVE 1 \in 1..n /\ j \in 1..n /\ 1 < j
      BY <2>1
    <3> HIDE DEF n
    <3> QED BY <1>0, <2>1, <3>1 DEF inOrder, n
  <2>3. inOrder(script.seen, script.desired, rest)
    <3>1. ASSUME NEW i \in 1..(n - 1), NEW j \in 1..(n - 1), i < j
          PROVE  mayPrecede(script.seen, script.desired, rest[i], rest[j])
      <4>1. /\ i + 1 \in 1..n /\ j + 1 \in 1..n /\ i + 1 < j + 1
            /\ rest[i] = script.calls[i + 1] /\ rest[j] = script.calls[j + 1]
        BY <2>1, <3>1
      <4> QED BY <1>0, <4>1 DEF inOrder
    <3> QED BY <2>1, <3>1 DEF inOrder
  <2>4. /\ h \in ToSet(script.calls)
        /\ \A x \in ToSet(script.calls) :
              x # h => /\ x \in ToSet(rest)
                       /\ mayPrecede(script.seen, script.desired, h, x)
        /\ \A x \in ToSet(rest) : x # h /\ x \in ToSet(script.calls)
    <3>1. DOMAIN script.calls = 1..n /\ DOMAIN rest = 1..(n - 1)
      BY <1>0, <2>1
    <3>2. h \in ToSet(script.calls)
      BY <2>1, <3>1 DEF ToSet
    <3>3. ASSUME NEW x \in ToSet(script.calls), x # h
          PROVE  x \in ToSet(rest) /\ mayPrecede(script.seen, script.desired, h, x)
      <4>1. PICK i \in 1..n : x = script.calls[i]
        BY <3>1 DEF ToSet
      <4>2. i - 1 \in 1..(n - 1) /\ i \in 2..n /\ rest[i - 1] = x
        BY <2>1, <3>3, <4>1
      <4> QED BY <2>2, <3>1, <4>1, <4>2 DEF ToSet
    <3>4. ASSUME NEW x \in ToSet(rest) PROVE x # h /\ x \in ToSet(script.calls)
      <4>1. PICK i \in 1..(n - 1) : x = rest[i]
        BY <3>1 DEF ToSet
      <4>2. i + 1 \in 2..n /\ i + 1 \in 1..n /\ x = script.calls[i + 1]
        BY <2>1, <4>1
      <4> QED BY <2>2, <3>1, <4>2 DEF ToSet, mayPrecede
    <3> QED BY <3>2, <3>3, <3>4
  <2>5. /\ paused' \in Positions /\ paused'[h] = script.desired[h]
        /\ \A x \in Switches : x # h => paused'[x] = paused[x]
        /\ script'.step = "sending" /\ script'.seen = script.seen /\ script'.calls = rest
        /\ script'.desired = script.desired /\ script'.alone = script.alone /\ ScriptTypes'
    BY <1>0, <2>1 DEF ScriptTypes, Positions
  <2>6. ASSUME script.alone = TRUE PROVE planHolds'
    <3>0. planHolds
      BY <2>6 DEF ScriptInv
    <3>1. \A x \in Switches : x \in ToSet(script.calls)
              <=> paused[x] = script.seen[x] /\ script.seen[x] # script.desired[x]
      BY <2>1, <3>0 DEF planHolds
    <3>2. \A x \in Switches : paused'[x] \in {script.seen[x], script.desired[x]}
      BY <2>1, <2>5, <3>0 DEF planHolds
    <3>3. \A x \in Switches : x \in ToSet(rest)
              <=> paused'[x] = script.seen[x] /\ script.seen[x] # script.desired[x]
      BY <1>0, <2>1, <2>4, <2>5, <3>1
    <3>4. ASSUME closing(script.seen, script.desired, "completion"), paused'["completion"] = TRUE,
                 NEW x \in Exposing, closing(script.seen, script.desired, x)
          PROVE  paused'[x] = TRUE
      <4>1. CASE h = "completion"
        <5>1. x # h
          BY <4>1 DEF Exposing
        <5>2. x \notin ToSet(script.calls)
          BY <2>4, <3>4, <4>1, <5>1 DEF mayPrecede
        <5> QED BY <1>0, <2>5, <3>0, <3>1, <3>4, <5>1, <5>2 DEF closing, planHolds
      <4>2. CASE h # "completion"
        BY <1>0, <2>1, <2>5, <3>0, <3>4, <4>2 DEF closing, planHolds
      <4> QED BY <4>1, <4>2
    <3>5. ASSUME opening(script.seen, script.desired, "completion"), paused'["completion"] = TRUE,
                 NEW x \in Exposing, opening(script.seen, script.desired, x)
          PROVE  paused'[x] = TRUE
      <4>1. h # "completion"
        BY <2>5, <3>5 DEF opening
      <4>2. paused["completion"] = TRUE /\ "completion" \in ToSet(script.calls)
        BY <1>0, <2>5, <3>1, <3>5, <4>1 DEF opening
      <4>3. h # x
        BY <2>4, <3>5, <4>1, <4>2 DEF mayPrecede
      <4> QED BY <1>0, <2>5, <3>0, <3>5, <4>2, <4>3 DEF planHolds
    <3> QED BY <2>5, <3>2, <3>3, <3>4, <3>5 DEF planHolds
  <2> QED BY <2>3, <2>5, <2>6 DEF ScriptInv
<1>5. CASE Batch
  <2>1. /\ script.step = "sending"
        /\ paused' = [x \in Switches |->
                        IF x \in ToSet(script.calls) THEN script.desired[x] ELSE paused[x]]
        /\ script' = [script EXCEPT !.calls = <<>>]
    BY <1>5 DEF Batch
  <2>2. /\ script'.step = "sending" /\ script'.seen = script.seen /\ script'.calls = <<>>
        /\ script'.desired = script.desired /\ script'.alone = script.alone
        /\ script' \in [step : {"none", "sending", "done", "failed"}, seen : Positions,
                        desired : Positions, calls : Seq(Switches), alone : BOOLEAN]
    <3>1. <<>> \in Seq(Switches)
      OBVIOUS
    <3> QED BY <1>0, <2>1, <3>1 DEF ScriptTypes
  <2>3. paused' \in Positions
    BY <1>0, <2>1 DEF Positions
  <2>4. inOrder(script.seen, script.desired, <<>>) /\ ToSet(<<>>) = {}
    BY DEF inOrder, ToSet
  <2>5. ASSUME script.alone = TRUE PROVE planHolds'
    <3>1. planHolds
      BY <2>5 DEF ScriptInv
    <3>2. \A x \in Switches : paused'[x] = script.desired[x]
      BY <1>0, <2>1, <3>1 DEF planHolds
    <3> QED BY <1>0, <2>2, <2>4, <3>2 DEF planHolds, closing, opening
  <2> QED BY <2>2, <2>3, <2>4, <2>5 DEF ScriptInv, ScriptTypes
<1>6. CASE Interrupt
  <2>1. /\ script' = [script EXCEPT !.step = "failed", !.calls = <<>>, !.alone = script.alone]
        /\ paused' = paused
    BY <1>0, <1>6 DEF Interrupt, ScriptTypes
  <2> QED BY <1>0, <1>1, <2>1 DEF ScriptTypes
<1>7. CASE Check \/ Verify
  <2>1. PICK step \in {"done", "failed"} : script' = [script EXCEPT !.step = step]
    BY <1>7 DEF Check, Verify
  <2>2. /\ script' = [script EXCEPT !.step = step, !.calls = script.calls, !.alone = script.alone]
        /\ paused' = paused
    BY <1>0, <1>7, <2>1 DEF Check, Verify, ScriptTypes
  <2> QED BY <1>0, <1>1, <2>1, <2>2 DEF ScriptTypes
<1>8. ASSUME NEW x \in Switches, OtherSetter(x) PROVE ScriptInv'
  <2>1. script' = [script EXCEPT !.step = script.step, !.calls = script.calls, !.alone = FALSE]
    BY <1>0, <1>8 DEF OtherSetter, ScriptTypes
  <2>2. paused' \in Positions
    BY <1>0, <1>8 DEF OtherSetter, ScriptTypes, Positions
  <2> QED BY <1>0, <1>1, <2>1, <2>2 DEF ScriptTypes
<1>9. CASE Rotate \/ UNCHANGED scriptVars
  <2>1. UNCHANGED <<paused, script>>
    BY <1>9 DEF Rotate, scriptVars
  <2> QED BY <1>0, <2>1 DEF ScriptInv, ScriptTypes, planHolds
<1> QED BY <1>2, <1>3, <1>4, <1>5, <1>6, <1>7, <1>8, <1>9 DEF ScriptNext

(* Wherever a plan is interrupted, batched or refused, players are never    *)
(* left able to stake and unable to check in unless the switches stood so   *)
(* before it or were asked to stand so.                                     *)
THEOREM ExposureNeedsProofPath == ScriptSpec => []ProofPathBeforeExposure
<1>1. ASSUME ScriptInit PROVE ScriptInv
  <2>1. /\ paused \in Positions /\ <<>> \in Seq(Switches)
        /\ \A x \in Switches : paused[x] = TRUE
    BY <1>1 DEF ScriptInit, Positions
  <2>2. /\ script.step = "none" /\ script.seen = paused /\ script.desired = paused
        /\ script.calls = <<>> /\ ScriptTypes
    BY <1>1, <2>1 DEF ScriptInit, Run, ScriptTypes
  <2>3. inOrder(script.seen, script.desired, script.calls)
    BY <2>2 DEF inOrder
  <2>4. planHolds
    BY <2>1, <2>2 DEF planHolds, closing, opening, Exposing, Switches
  <2> QED BY <2>2, <2>3, <2>4 DEF ScriptInv
<1>2. ScriptInv /\ [ScriptNext]_scriptVars => ScriptInv'
  BY ScriptInvIsInductive
<1>3. ASSUME ScriptInv PROVE ProofPathBeforeExposure
  <2>1. SUFFICES ASSUME script.alone = TRUE, exposed(paused)
        PROVE  exposed(script.seen) \/ exposed(script.desired)
    BY <1>3 DEF ProofPathBeforeExposure, ScriptInv, ScriptTypes
  <2>2. planHolds
    BY <1>3, <2>1 DEF ScriptInv
  <2>3. /\ \A x \in Switches : paused[x] \in BOOLEAN /\ script.seen[x] \in BOOLEAN
                               /\ script.desired[x] \in BOOLEAN
        /\ Switches = Exposing \cup {"completion"}
    BY <1>3 DEF ScriptInv, ScriptTypes, Positions, Switches, Exposing
  <2>4. PICK x \in Exposing : paused[x] = FALSE /\ paused["completion"] = TRUE
    BY <2>1, <2>3 DEF exposed, Exposing
  <2>5. \/ script.seen["completion"] = TRUE /\ script.seen[x] = FALSE
        \/ script.desired["completion"] = TRUE /\ script.desired[x] = FALSE
    BY <2>2, <2>3, <2>4 DEF planHolds, closing, opening
  <2> QED BY <2>5 DEF exposed, Exposing
<1> QED BY <1>1, <1>2, <1>3, PTL DEF ScriptSpec

-----------------------------------------------------------------------------
(* The preview.                                                            *)

ProvedXp == [xp : Nat, at : Nat]
ProvedRun == [profile : Profiles, targetXp : Nat, baselineXp : Nat, observedAt : Nat,
              finalXp : Nat, earnedXp : Int, passed : BOOLEAN]
AnyRun == {NoRun} \cup ProvedRun
OpenRow == [phase : {"baseline", "final", "pruned"}, profile : Profiles, targetXp : Nat,
            createdAt : Nat, consumed : BOOLEAN, proof : ProvedXp]
Call == [step : {"idle", "opening", "baseline", "final", "identity", "record"},
         session : {0} \cup Sessions, run : AnyRun, profile : Profiles \cup {NoProfile}]

PreviewTypes ==
    /\ clock \in Nat /\ totalXp \in [Profiles -> Nat]
    /\ rows \in [Sessions -> {Unopened} \cup OpenRow]
    /\ run \in AnyRun
    /\ calls \in [Calls -> Call]
    /\ effects \in [Sessions -> Nat]

\* A session writes when it is consumed, and a baseline's consumption is its write.
rowHolds(s) ==
    /\ effects[s] <= 1
    /\ rows[s].consumed = FALSE => effects[s] = 0
    /\ rows[s].phase = "baseline" /\ rows[s].consumed = TRUE => effects[s] = 1

\* The proof of a final session earns a baseline's target after that baseline.
earns(proof, baseline) ==
    /\ proof.at > baseline.observedAt
    /\ proof.xp - baseline.baselineXp >= baseline.targetXp

callHolds(c) ==
    LET s == calls[c].session
    IN /\ calls[c].step = "opening" => calls[c].run # NoRun
       /\ calls[c].step = "baseline" => s \in Sessions /\ rows[s].phase \in {"baseline", "pruned"}
       /\ calls[c].step \in {"final", "identity", "record"} =>
             s \in Sessions /\ rows[s].phase \in {"final", "pruned"}
       /\ calls[c].step \in {"identity", "record"} => rows[s].proof # NoProof
       /\ calls[c].step = "record" => earns(rows[s].proof, calls[c].run)

passedHolds ==
    run.passed = TRUE =>
        LET proof == rows[finalOf.session].proof  baseline == finalOf.baseline
        IN /\ finalOf.session \in Sessions /\ proof # NoProof
           /\ run.finalXp = proof.xp /\ run.earnedXp = proof.xp - baseline.baselineXp
           /\ earns(proof, baseline)

PreviewInv ==
    /\ PreviewTypes
    /\ \A s \in Sessions : rowHolds(s)
    /\ \A c \in Calls : callHolds(c)
    /\ passedHolds

(* An opened row keeps its phase until it is pruned, and a proof once      *)
(* captured does not change.                                               *)
rowsGrow ==
    \A s \in Sessions :
        /\ rows[s].phase # "none" => rows'[s].phase \in {rows[s].phase, "pruned"}
        /\ rows[s].proof # NoProof => rows'[s].proof = rows[s].proof

LEMMA CallsFrame ==
  ASSUME PreviewInv, rowsGrow, NEW c \in Calls, calls'[c] = calls[c]
  PROVE  callHolds(c)'
<1>1. callHolds(c)
  BY DEF PreviewInv
<1> QED BY <1>1 DEF callHolds, rowsGrow, earns

LEMMA PassedFrame ==
  ASSUME PreviewInv, rowsGrow, UNCHANGED <<run, finalOf>>
  PROVE  passedHolds'
BY DEF PreviewInv, rowsGrow, passedHolds, earns

LEMMA RecordFacts ==
  ASSUME PreviewTypes
  PROVE  /\ Unopened.phase = "none" /\ Unopened.consumed = FALSE /\ Unopened.proof = NoProof
         /\ \A s \in Sessions : rows[s].phase # "none" => rows[s] \in OpenRow
         /\ run # NoRun => run \in ProvedRun
         /\ \A c \in Calls : calls[c] \in Call
         /\ IdleCall \in Call /\ IdleCall.step = "idle" /\ NoProof \in ProvedXp
         /\ NoRun.passed = FALSE
<1>1. IdleCall \in Call
  BY DEF IdleCall, Call, AnyRun
<1>2. NoProof \in ProvedXp
  BY DEF NoProof, ProvedXp
<1> QED BY <1>1, <1>2 DEF PreviewTypes, Unopened, NoRun, IdleCall, AnyRun

(* The requests that only read, and the world outside.                     *)
LEMMA CallStepKeepsInv ==
  ASSUME PreviewInv, NEW c \in Calls, NEW r \in Call, calls' = [calls EXCEPT ![c] = r],
         UNCHANGED <<clock, totalXp, previewDb>>, callHolds(c)'
  PROVE  PreviewInv'
<1>1. UNCHANGED <<clock, totalXp, rows, run, effects, finalOf>>
  BY DEF previewDb
<1>2. PreviewTypes /\ rowsGrow
  BY <1>1 DEF PreviewInv, rowsGrow
<1>3. PreviewTypes'
  BY <1>1, <1>2 DEF PreviewTypes
<1>4. ASSUME NEW d \in Calls PROVE callHolds(d)'
  <2>1. CASE d # c
    <3>1. calls'[d] = calls[d]
      BY <1>2, <2>1 DEF PreviewTypes
    <3> QED BY <1>2, <3>1, CallsFrame
  <2> QED BY <2>1
<1>5. passedHolds'
  BY <1>1, <1>2, PassedFrame
<1> QED BY <1>1, <1>3, <1>4, <1>5 DEF PreviewInv, rowHolds

LEMMA PreviewInvIsInductive ==
  ASSUME PreviewInv, [PreviewNext]_previewVars
  PROVE  PreviewInv'
<1>0. /\ PreviewTypes /\ Targets \subseteq Nat
      /\ Unopened.phase = "none" /\ Unopened.consumed = FALSE /\ Unopened.proof = NoProof
      /\ \A s \in Sessions : rows[s].phase # "none" => rows[s] \in OpenRow
      /\ run # NoRun => run \in ProvedRun
      /\ \A c \in Calls : calls[c] \in Call
      /\ IdleCall \in Call /\ IdleCall.step = "idle" /\ NoProof \in ProvedXp
      /\ NoRun.passed = FALSE
  BY RecordFacts, PreviewAssumption DEF PreviewInv
\* A step that leaves the calls alone and touches rows only as time and captures do.
<1>1. ASSUME rowsGrow, PreviewTypes', UNCHANGED <<run, calls, effects, finalOf>>,
             \A s \in Sessions : rows'[s].consumed = rows[s].consumed
                                 /\ (rows'[s].phase = "baseline" => rows[s].phase = "baseline")
      PROVE  PreviewInv'
  <2>1. \A c \in Calls : callHolds(c)'
    BY <1>1, CallsFrame
  <2>2. passedHolds'
    BY <1>1, PassedFrame
  <2>3. \A s \in Sessions : rowHolds(s)'
    BY <1>1 DEF PreviewInv, rowHolds
  <2> QED BY <1>1, <2>1, <2>2, <2>3 DEF PreviewInv
<1>2. ASSUME NEW a \in Profiles, Practise(a) PROVE PreviewInv'
  <2>1. PreviewTypes' /\ rowsGrow /\ UNCHANGED <<rows, run, calls, effects, finalOf>>
    BY <1>0, <1>2 DEF Practise, PreviewTypes, previewDb, rowsGrow
  <2> QED BY <1>1, <2>1
<1>3. CASE PassTime
  <2>1. PreviewTypes' /\ rowsGrow /\ UNCHANGED <<rows, run, calls, effects, finalOf>>
    BY <1>0, <1>3 DEF PassTime, PreviewTypes, previewDb, rowsGrow
  <2> QED BY <1>1, <2>1
<1>4. CASE Prune
  <2>1. ASSUME NEW s \in Sessions
        PROVE  /\ rows'[s] \in {Unopened} \cup OpenRow
               /\ rows'[s].phase \in {rows[s].phase, "pruned"}
               /\ rows'[s].proof = rows[s].proof /\ rows'[s].consumed = rows[s].consumed
    <3>1. CASE rows[s].phase # "none" /\ rows[s].createdAt < clock - PruneAfter
      <4>1. rows'[s] = [rows[s] EXCEPT !.phase = "pruned"] /\ rows[s] \in OpenRow
        BY <1>0, <1>4, <3>1 DEF Prune
      <4> QED BY <4>1 DEF OpenRow
    <3>2. CASE ~(rows[s].phase # "none" /\ rows[s].createdAt < clock - PruneAfter)
      <4>1. rows'[s] = rows[s]
        BY <1>4, <3>2 DEF Prune
      <4> QED BY <1>0, <4>1 DEF PreviewTypes
    <3> QED BY <3>1, <3>2
  <2>2. rows' \in [Sessions -> {Unopened} \cup OpenRow]
    BY <1>4, <2>1 DEF Prune
  <2>3. rowsGrow
    BY <2>1 DEF rowsGrow
  <2>4. PreviewTypes' /\ UNCHANGED <<run, calls, effects, finalOf>>
    BY <1>0, <1>4, <2>2 DEF Prune, PreviewTypes
  <2> QED BY <1>1, <2>1, <2>3, <2>4
<1>5. ASSUME NEW s \in Sessions, Capture(s) PROVE PreviewInv'
  <2> DEFINE proof == [xp |-> totalXp[rows[s].profile], at |-> clock]
  <2>1. rows[s] \in OpenRow /\ rows[s].proof = NoProof /\ proof \in ProvedXp
        /\ rows' = [rows EXCEPT ![s].proof = proof]
    BY <1>0, <1>5 DEF Capture, OpenRow, ProvedXp, PreviewTypes
  <2> HIDE DEF proof
  <2>2. /\ rows'[s] \in OpenRow /\ rows'[s].phase = rows[s].phase
        /\ rows'[s].consumed = rows[s].consumed
        /\ \A q \in Sessions : q # s => rows'[q] = rows[q]
        /\ rows' \in [Sessions -> {Unopened} \cup OpenRow]
    <3>1. rows' = [rows EXCEPT ![s] = [rows[s] EXCEPT !.proof = proof]]
      BY <1>0, <2>1 DEF PreviewTypes
    <3>2. /\ [rows[s] EXCEPT !.proof = proof] \in OpenRow
          /\ [rows[s] EXCEPT !.proof = proof].phase = rows[s].phase
          /\ [rows[s] EXCEPT !.proof = proof].consumed = rows[s].consumed
      BY <2>1 DEF OpenRow
    <3> QED BY <1>0, <3>1, <3>2 DEF PreviewTypes
  <2>3. rowsGrow
    BY <2>1, <2>2 DEF rowsGrow
  <2>4. PreviewTypes' /\ UNCHANGED <<run, calls, effects, finalOf>>
    BY <1>0, <1>5, <2>2 DEF Capture, PreviewTypes
  <2> QED BY <1>1, <2>2, <2>3, <2>4
<1>6. CASE clearPreviewRun
  <2>1. run' = NoRun /\ UNCHANGED <<clock, totalXp, rows, calls, effects>> /\ rowsGrow
    BY <1>6 DEF clearPreviewRun, rowsGrow
  <2>2. PreviewTypes'
    BY <1>0, <2>1 DEF PreviewTypes, AnyRun
  <2>3. \A c \in Calls : callHolds(c)'
    BY <2>1, CallsFrame
  <2>4. passedHolds'
    BY <1>0, <2>1 DEF passedHolds
  <2> QED BY <2>1, <2>2, <2>3, <2>4 DEF PreviewInv, rowHolds
\* A new session, whoever opens it.
<1>7. ASSUME NEW s \in Sessions, NEW kind \in {"baseline", "final"}, NEW a \in Profiles, NEW target \in Nat,
             newSession(s), savePreviewSession(s, kind, a, target),
             UNCHANGED <<clock, totalXp, run, effects, finalOf>>,
             calls' \in [Calls -> Call],
             \A c \in Calls : calls'[c] = calls[c] \/ calls'[c] = IdleCall
      PROVE  PreviewInv'
  <2> DEFINE r == [phase |-> kind, profile |-> a, targetXp |-> target, createdAt |-> clock,
                   consumed |-> FALSE, proof |-> NoProof]
  <2>1. r \in OpenRow /\ r.phase = kind /\ r.consumed = FALSE
    BY <1>0 DEF OpenRow, PreviewTypes
  <2>2. rows' = [rows EXCEPT ![s] = r] /\ rows[s].phase = "none"
    BY <1>7 DEF savePreviewSession, newSession
  <2> HIDE DEF r
  <2>3. rows[s] = Unopened
    BY <1>0, <2>2 DEF PreviewTypes, OpenRow
  <2>4. /\ rows' \in [Sessions -> {Unopened} \cup OpenRow] /\ rows'[s] = r
        /\ \A q \in Sessions : q # s => rows'[q] = rows[q]
    BY <1>0, <2>1, <2>2 DEF PreviewTypes
  <2>5. rowsGrow
    BY <1>0, <2>3, <2>4 DEF rowsGrow
  <2>6. PreviewTypes'
    BY <1>0, <1>7, <2>4 DEF PreviewTypes
  <2>7. \A c \in Calls : callHolds(c)'
    <3>1. ASSUME NEW c \in Calls, calls'[c] = IdleCall PROVE callHolds(c)'
      BY <1>0, <3>1 DEF callHolds
    <3> QED BY <1>7, <2>5, <3>1, CallsFrame
  <2>8. \A q \in Sessions : rowHolds(q)'
    BY <1>0, <1>7, <2>1, <2>3, <2>4 DEF PreviewInv, rowHolds
  <2>9. passedHolds'
    BY <1>7, <2>5, PassedFrame
  <2> QED BY <2>6, <2>7, <2>8, <2>9 DEF PreviewInv
<1>8. ASSUME NEW s \in Sessions, NEW a \in Profiles, NEW target \in Targets,
             OpenBaseline(s, a, target)
      PROVE  PreviewInv'
  BY <1>0, <1>7, <1>8 DEF OpenBaseline, PreviewTypes
<1>9. ASSUME NEW c \in Calls, NEW s \in Sessions, SaveFinalSession(c, s) PROVE PreviewInv'
  <2>1. calls[c].run # NoRun /\ calls[c].run \in AnyRun
    BY <1>0, <1>9 DEF SaveFinalSession, PreviewInv, callHolds, Call
  <2>2. calls[c].run.profile \in Profiles /\ calls[c].run.targetXp \in Nat
    BY <2>1 DEF AnyRun, ProvedRun
  <2>3. calls' = [calls EXCEPT ![c] = IdleCall]
    BY <1>9 DEF SaveFinalSession
  <2>4. calls' \in [Calls -> Call] /\ \A d \in Calls : calls'[d] = calls[d] \/ calls'[d] = IdleCall
    BY <1>0, <2>3 DEF PreviewTypes
  <2> QED BY <1>7, <1>9, <2>2, <2>4 DEF SaveFinalSession
<1>10. ASSUME NEW c \in Calls, OpenFinal(c) PROVE PreviewInv'
  <2> DEFINE r == [IdleCall EXCEPT !.step = "opening", !.run = run]
  <2>1. calls' = [calls EXCEPT ![c] = r] /\ run # NoRun
        /\ UNCHANGED <<clock, totalXp, previewDb>>
    BY <1>10 DEF OpenFinal
  <2>2. r \in Call /\ r.step = "opening" /\ r.run = run
    BY <1>0 DEF PreviewTypes, Call, IdleCall
  <2> HIDE DEF r
  <2>3. callHolds(c)'
    <3>1. calls'[c] = r
      BY <1>0, <2>1 DEF PreviewTypes
    <3> QED BY <2>1, <2>2, <3>1 DEF callHolds
  <2> QED BY <2>1, <2>2, <2>3, CallStepKeepsInv
<1>11. ASSUME NEW c \in Calls, NEW s \in Sessions, Load(c, s) PROVE PreviewInv'
  <2> DEFINE r == [IdleCall EXCEPT !.step = rows[s].phase, !.session = s]
  <2>1. calls' = [calls EXCEPT ![c] = r] /\ rows[s].phase \in {"baseline", "final"}
        /\ UNCHANGED <<clock, totalXp, previewDb>>
    BY <1>11 DEF Load, loadPreviewSession
  <2>2. r \in Call /\ r.step = rows[s].phase /\ r.session = s
    BY <1>0, <2>1 DEF Call, IdleCall
  <2> HIDE DEF r
  <2>3. callHolds(c)'
    <3>1. calls'[c] = r
      BY <1>0, <2>1 DEF PreviewTypes
    <3> QED BY <2>1, <2>2, <3>1 DEF callHolds, previewDb
  <2> QED BY <2>1, <2>2, <2>3, CallStepKeepsInv
<1>12. ASSUME NEW c \in Calls, loadPreviewRun(c) PROVE PreviewInv'
  <2> DEFINE s == calls[c].session
             r == [calls[c] EXCEPT !.step = "identity", !.run = run, !.profile = rows[s].profile]
  <2>1. /\ calls[c].step = "final" /\ s \in Sessions /\ rows[s].phase \in {"final", "pruned"}
        /\ rows[s].proof # NoProof /\ UNCHANGED <<clock, totalXp, previewDb>>
    BY <1>12 DEF loadPreviewRun, PreviewInv, callHolds
  <2>2. calls' = [calls EXCEPT ![c] = r]
    BY <1>0, <1>12 DEF loadPreviewRun, PreviewTypes
  <2>3. rows[s].profile \in Profiles
    BY <1>0, <2>1 DEF OpenRow
  <2>4. r \in Call /\ r.step = "identity" /\ r.session = s
    BY <1>0, <2>3 DEF Call, PreviewTypes
  <2> HIDE DEF r
  <2>5. callHolds(c)'
    <3>1. calls'[c] = r
      BY <1>0, <2>2 DEF PreviewTypes
    <3> QED BY <2>1, <2>4, <3>1 DEF callHolds, previewDb
  <2> QED BY <2>1, <2>2, <2>4, <2>5, CallStepKeepsInv
<1>13. ASSUME NEW c \in Calls, CheckDelta(c) PROVE PreviewInv'
  <2> DEFINE s == calls[c].session
             r == [calls[c] EXCEPT !.step = "record"]
  <2>1. /\ s \in Sessions /\ rows[s].phase \in {"final", "pruned"}
        /\ rows[s].proof # NoProof /\ UNCHANGED <<clock, totalXp, previewDb>>
        /\ earns(rows[s].proof, calls[c].run)
    BY <1>13 DEF CheckDelta, validateDuolingoDelta, earns, PreviewInv, callHolds
  <2>2. calls' = [calls EXCEPT ![c] = r]
    BY <1>0, <1>13 DEF CheckDelta, PreviewTypes
  <2>3. r \in Call /\ r.step = "record" /\ r.session = s /\ r.run = calls[c].run
    BY <1>0 DEF Call
  <2> HIDE DEF r
  <2>4. callHolds(c)'
    <3>1. calls'[c] = r
      BY <1>0, <2>2 DEF PreviewTypes
    <3> QED BY <2>1, <2>3, <3>1 DEF callHolds, previewDb, earns
  <2> QED BY <2>1, <2>2, <2>3, <2>4, CallStepKeepsInv
<1>14. ASSUME NEW c \in Calls, EndCall(c) PROVE PreviewInv'
  <2>1. calls' = [calls EXCEPT ![c] = IdleCall] /\ UNCHANGED <<clock, totalXp, previewDb>>
    BY <1>14 DEF EndCall
  <2>2. callHolds(c)'
    <3>1. calls'[c] = IdleCall
      BY <1>0, <2>1 DEF PreviewTypes
    <3> QED BY <1>0, <3>1 DEF callHolds
  <2> QED BY <1>0, <2>1, <2>2, CallStepKeepsInv
\* What consuming a session does to its row, before the write is looked at.
<1>15. ASSUME NEW c \in Calls, NEW s \in Sessions, consume(s), rows[s].phase # "none"
       PROVE  /\ rows' \in [Sessions -> {Unopened} \cup OpenRow] /\ rowsGrow
              /\ \A q \in Sessions : q # s => rows'[q] = rows[q]
              /\ rows'[s].phase = rows[s].phase /\ rows'[s].proof = rows[s].proof
              /\ consumes(s) => rows[s].consumed = FALSE /\ rows'[s].consumed = TRUE
              /\ ~consumes(s) => rows' = rows
  <2>1. CASE consumes(s)
    <3>1. rows' = [rows EXCEPT ![s].consumed = TRUE] /\ rows[s].consumed = FALSE
          /\ rows[s] \in OpenRow
      BY <1>0, <1>15, <2>1 DEF consume, consumes, usable, OpenRow
    <3>2. rows' = [rows EXCEPT ![s] = [rows[s] EXCEPT !.consumed = TRUE]]
      BY <1>0, <3>1 DEF PreviewTypes
    <3>3. /\ [rows[s] EXCEPT !.consumed = TRUE] \in OpenRow
          /\ [rows[s] EXCEPT !.consumed = TRUE].phase = rows[s].phase
          /\ [rows[s] EXCEPT !.consumed = TRUE].proof = rows[s].proof
          /\ [rows[s] EXCEPT !.consumed = TRUE].consumed = TRUE
      BY <3>1 DEF OpenRow
    <3>4. /\ rows' \in [Sessions -> {Unopened} \cup OpenRow]
          /\ rows'[s] = [rows[s] EXCEPT !.consumed = TRUE]
          /\ \A q \in Sessions : q # s => rows'[q] = rows[q]
      BY <1>0, <3>2, <3>3 DEF PreviewTypes
    <3>5. rowsGrow
      BY <3>3, <3>4 DEF rowsGrow
    <3> QED BY <2>1, <3>1, <3>3, <3>4, <3>5
  <2>2. CASE ~consumes(s)
    <3>1. rows' = rows
      BY <1>15, <2>2 DEF consume
    <3> QED BY <1>0, <2>2, <3>1 DEF PreviewTypes, rowsGrow
  <2> QED BY <2>1, <2>2
<1>16. ASSUME NEW c \in Calls, calls' = [calls EXCEPT ![c] = IdleCall], rowsGrow
       PROVE  calls' \in [Calls -> Call] /\ \A d \in Calls : callHolds(d)'
  <2>1. calls' \in [Calls -> Call] /\ calls'[c] = IdleCall /\ \A d \in Calls : d # c => calls'[d] = calls[d]
    BY <1>0, <1>16 DEF PreviewTypes
  <2>2. callHolds(c)'
    BY <1>0, <2>1 DEF callHolds
  <2> QED BY <1>16, <2>1, <2>2, CallsFrame
<1>17. ASSUME NEW c \in Calls, consumeAndSaveBaseline(c) PROVE PreviewInv'
  <2> DEFINE s == calls[c].session
             r == [NoRun EXCEPT !.profile = rows[s].profile, !.targetXp = rows[s].targetXp,
                                !.baselineXp = rows[s].proof.xp, !.observedAt = rows[s].proof.at]
  <2>1. /\ s \in Sessions /\ rows[s].phase \in {"baseline", "pruned"} /\ consume(s)
        /\ rows[s].phase # "none" /\ UNCHANGED <<clock, totalXp>>
        /\ calls' = [calls EXCEPT ![c] = IdleCall]
        /\ IF consumes(s) THEN write(s, r, NoFinal) ELSE UNCHANGED <<run, effects, finalOf>>
    BY <1>17 DEF consumeAndSaveBaseline, PreviewInv, callHolds
  <2>2. rows[s] \in OpenRow
    BY <1>0, <2>1
  <2>3. r \in ProvedRun /\ r.passed = FALSE
    <3>1. PICK a \in Profiles, t \in Nat, x \in Nat, o \in Nat :
            a = rows[s].profile /\ t = rows[s].targetXp /\ x = rows[s].proof.xp /\ o = rows[s].proof.at
      BY <2>2 DEF OpenRow, ProvedXp
    <3>2. r = [NoRun EXCEPT !.profile = a, !.targetXp = t, !.baselineXp = x, !.observedAt = o]
      BY <3>1
    <3> HIDE DEF r
    <3>3. ASSUME NEW base \in [profile : {NoProfile}, targetXp : Nat, baselineXp : Nat,
                               observedAt : Nat, finalXp : Nat, earnedXp : Int, passed : {FALSE}]
          PROVE  LET q == [base EXCEPT !.profile = a, !.targetXp = t, !.baselineXp = x,
                                       !.observedAt = o]
                 IN  q \in ProvedRun /\ q.passed = FALSE
      BY <3>1 DEF ProvedRun
    <3>4. NoRun \in [profile : {NoProfile}, targetXp : Nat, baselineXp : Nat, observedAt : Nat,
                     finalXp : Nat, earnedXp : Int, passed : {FALSE}]
      BY DEF NoRun
    <3> QED BY <3>2, <3>3, <3>4
  <2> HIDE DEF r, s
  <2>4. /\ rows' \in [Sessions -> {Unopened} \cup OpenRow] /\ rowsGrow
        /\ \A q \in Sessions : q # s => rows'[q] = rows[q]
        /\ rows'[s].phase = rows[s].phase
        /\ consumes(s) => rows[s].consumed = FALSE /\ rows'[s].consumed = TRUE
        /\ ~consumes(s) => rows' = rows
    BY <1>15, <2>1
  <2>5. calls' \in [Calls -> Call] /\ \A d \in Calls : callHolds(d)'
    BY <1>16, <2>1, <2>4
  <2>6. CASE consumes(s)
    <3>1. run' = r /\ effects' = [effects EXCEPT ![s] = effects[s] + 1]
      BY <2>1, <2>6 DEF write
    <3>2. effects[s] = 0
      BY <2>1, <2>4, <2>6 DEF PreviewInv, rowHolds
    <3>3. /\ effects' \in [Sessions -> Nat] /\ effects'[s] = 1
          /\ \A q \in Sessions : q # s => effects'[q] = effects[q]
      BY <1>0, <2>1, <3>1, <3>2 DEF PreviewTypes
    <3>4. \A q \in Sessions : rowHolds(q)'
      BY <2>4, <2>6, <3>3 DEF PreviewInv, rowHolds
    <3>5. passedHolds'
      BY <2>3, <3>1 DEF passedHolds
    <3>6. PreviewTypes'
      BY <1>0, <2>1, <2>3, <2>4, <2>5, <3>1, <3>3 DEF PreviewTypes, AnyRun
    <3> QED BY <2>5, <3>4, <3>5, <3>6 DEF PreviewInv
  <2>7. CASE ~consumes(s)
    <3>1. UNCHANGED <<run, effects, finalOf, rows>>
      BY <2>1, <2>4, <2>7
    <3>2. passedHolds'
      BY <2>4, <3>1, PassedFrame
    <3>3. PreviewTypes'
      BY <1>0, <2>1, <2>5, <3>1 DEF PreviewTypes
    <3> QED BY <2>5, <3>1, <3>2, <3>3 DEF PreviewInv, rowHolds
  <2> QED BY <2>6, <2>7
<1>18. ASSUME NEW c \in Calls, consumeAndSaveFinal(c) PROVE PreviewInv'
  <2> DEFINE s == calls[c].session
             proof == rows[s].proof
             r == [run EXCEPT !.finalXp = proof.xp, !.passed = TRUE,
                              !.earnedXp = proof.xp - calls[c].run.baselineXp]
             writes == consumes(s) /\ run # NoRun
  <2>1. /\ s \in Sessions /\ rows[s].phase \in {"final", "pruned"} /\ consume(s)
        /\ rows[s].phase # "none" /\ UNCHANGED <<clock, totalXp>>
        /\ calls' = [calls EXCEPT ![c] = IdleCall]
        /\ proof # NoProof /\ earns(proof, calls[c].run)
        /\ IF writes THEN write(s, r, [session |-> s, baseline |-> calls[c].run])
                     ELSE UNCHANGED <<run, effects, finalOf>>
    BY <1>18 DEF consumeAndSaveFinal, PreviewInv, callHolds
  <2>2. rows[s] \in OpenRow /\ calls[c] \in Call
    BY <1>0, <2>1
  <2>3. proof.xp \in Nat /\ calls[c].run.baselineXp \in Nat
    BY <2>2 DEF OpenRow, ProvedXp, Call, AnyRun, ProvedRun, NoRun
  <2>4. writes => /\ r \in ProvedRun /\ r.finalXp = proof.xp
                  /\ r.earnedXp = proof.xp - calls[c].run.baselineXp
    <3>1. PICK x \in Nat, e \in Int : x = proof.xp /\ e = proof.xp - calls[c].run.baselineXp
      BY <2>3
    <3>2. r = [run EXCEPT !.finalXp = x, !.passed = TRUE, !.earnedXp = e]
      BY <3>1
    <3>3. writes => run \in ProvedRun
      BY <1>0
    <3> HIDE DEF r
    <3>4. writes => r \in ProvedRun /\ r.finalXp = x /\ r.earnedXp = e
      BY <3>2, <3>3 DEF ProvedRun
    <3> QED BY <3>1, <3>4
  <2>5. /\ rows' \in [Sessions -> {Unopened} \cup OpenRow] /\ rowsGrow
        /\ \A q \in Sessions : q # s => rows'[q] = rows[q]
        /\ rows'[s].phase = rows[s].phase /\ rows'[s].proof = proof
        /\ consumes(s) => rows[s].consumed = FALSE /\ rows'[s].consumed = TRUE
        /\ ~consumes(s) => rows' = rows
    BY <1>15, <2>1
  <2>6. calls' \in [Calls -> Call] /\ \A d \in Calls : callHolds(d)'
    BY <1>16, <2>1, <2>5
  <2>7. rows[s].phase # "baseline"
    BY <2>1
  <2> HIDE DEF r
  <2>8. CASE writes
    <3>1. /\ run' = r /\ effects' = [effects EXCEPT ![s] = effects[s] + 1]
          /\ finalOf' = [session |-> s, baseline |-> calls[c].run]
      BY <2>1, <2>8 DEF write
    <3>2. effects[s] = 0
      BY <2>1, <2>5, <2>8 DEF PreviewInv, rowHolds
    <3>3. /\ effects' \in [Sessions -> Nat] /\ effects'[s] = 1
          /\ \A q \in Sessions : q # s => effects'[q] = effects[q]
      BY <1>0, <2>1, <3>1, <3>2 DEF PreviewTypes
    <3>4. \A q \in Sessions : rowHolds(q)'
      BY <2>5, <2>8, <3>3 DEF PreviewInv, rowHolds
    <3>5. finalOf'.session = s /\ finalOf'.baseline = calls[c].run
      BY <3>1
    <3>6. passedHolds'
      BY <2>1, <2>4, <2>5, <2>8, <3>1, <3>5 DEF passedHolds, earns
    <3>7. PreviewTypes'
      BY <1>0, <2>1, <2>4, <2>5, <2>6, <2>8, <3>1, <3>3 DEF PreviewTypes, AnyRun
    <3> QED BY <2>6, <3>4, <3>6, <3>7 DEF PreviewInv
  <2>9. CASE ~writes
    <3>1. UNCHANGED <<run, effects, finalOf>>
      BY <2>1, <2>9
    <3>2. passedHolds'
      BY <2>5, <3>1, PassedFrame
    <3>3. PreviewTypes'
      BY <1>0, <2>1, <2>5, <2>6, <3>1 DEF PreviewTypes
    <3>4. \A q \in Sessions : rowHolds(q)'
      BY <2>5, <2>7, <3>1 DEF PreviewInv, rowHolds
    <3> QED BY <2>6, <3>2, <3>3, <3>4 DEF PreviewInv
  <2> QED BY <2>8, <2>9
<1>19. CASE UNCHANGED previewVars
  <2>1. UNCHANGED <<clock, totalXp, rows, run, calls, effects, finalOf>>
    BY <1>19 DEF previewVars
  <2>2. PreviewTypes' /\ rowsGrow
    BY <1>0, <2>1 DEF PreviewTypes, rowsGrow
  <2> QED BY <1>1, <2>1, <2>2
<1> QED BY <1>2, <1>3, <1>4, <1>5, <1>6, <1>8, <1>9, <1>10, <1>11, <1>12, <1>13, <1>14, <1>17,
           <1>18, <1>19 DEF PreviewNext

(* However the wallet's requests interleave, die and are repeated, a        *)
(* Reclaim session writes once, a consumed baseline has written, and a run  *)
(* passed by a final that earned some baseline's target after it.           *)
THEOREM OneWritePerSession == PreviewSpec => []OneSessionOneWrite
<1>1. ASSUME PreviewInit PROVE PreviewInv
  <2>1. PreviewTypes
    <3>1. IdleCall \in Call
      BY DEF IdleCall, Call, AnyRun
    <3>2. run \in AnyRun
      <4>1. ASSUME NEW q \in earlierRuns PROVE q \in ProvedRun
        <5>1. PICK a \in Profiles, t \in Nat :
                q = [profile |-> a, targetXp |-> t, baselineXp |-> 0, observedAt |-> 0,
                     finalXp |-> 0, earnedXp |-> 0, passed |-> FALSE]
          BY PreviewAssumption DEF earlierRuns
        <5> QED BY <5>1 DEF ProvedRun
      <4> QED BY <1>1, <4>1 DEF PreviewInit, AnyRun
    <3> QED BY <1>1, <3>1, <3>2 DEF PreviewInit, PreviewTypes
  <2>2. \A s \in Sessions : rowHolds(s)
    BY <1>1 DEF PreviewInit, rowHolds, Unopened
  <2>3. \A c \in Calls : callHolds(c)
    BY <1>1 DEF PreviewInit, callHolds, IdleCall
  <2>4. run.passed = FALSE
    <3>1. \A r \in earlierRuns : r.passed = FALSE
      BY DEF earlierRuns
    <3>2. NoRun.passed = FALSE
      BY DEF NoRun
    <3> QED BY <1>1, <3>1, <3>2 DEF PreviewInit
  <2> QED BY <2>1, <2>2, <2>3, <2>4 DEF PreviewInv, passedHolds
<1>2. PreviewInv /\ [PreviewNext]_previewVars => PreviewInv'
  BY PreviewInvIsInductive
<1>3. ASSUME PreviewInv PROVE OneSessionOneWrite
  <2>1. run.passed \in BOOLEAN /\ \A s \in Sessions : rows[s].consumed \in BOOLEAN
    <3>1. \A r \in ProvedRun : r.passed \in BOOLEAN
      BY DEF ProvedRun
    <3>2. \A r \in OpenRow : r.consumed \in BOOLEAN
      BY DEF OpenRow
    <3>3. NoRun.passed \in BOOLEAN /\ Unopened.consumed \in BOOLEAN
      BY DEF NoRun, Unopened
    <3> QED BY <1>3, <3>1, <3>2, <3>3 DEF PreviewInv, PreviewTypes, AnyRun
  <2> QED BY <1>3, <2>1 DEF PreviewInv, rowHolds, passedHolds, earns, OneSessionOneWrite
<1> QED BY <1>1, <1>2, <1>3, PTL DEF PreviewSpec

-----------------------------------------------------------------------------
(* Wallet sessions.                                                        *)

Token == [wallet : Accounts, issuedAt : Nat]
TabStep == {"idle", "known", "hasWalletSession", "ensureWalletSession", "challenge", "sign",
            "post", "issued"}
Tab == [step : TabStep, wallet : Accounts \cup {NoAccount}, token : SUBSET Token]

SessionTypes ==
    /\ hour \in Nat /\ hour >= 1
    /\ cookie \subseteq Token
    /\ tabs \in [Tabs -> Tab]
    /\ signed \in [Accounts -> Nat]
    /\ spoken \subseteq Accounts

(* The wallet of a session signed a challenge less than a challenge's life *)
(* before the session was issued.                                          *)
backed(token) ==
    signed[token.wallet] > 0 /\ token.issuedAt < signed[token.wallet] + ChallengeTtl

tabInvariant(t) ==
    /\ tabs[t].step # "idle" => tabs[t].wallet \in Accounts
    /\ tabs[t].step = "sign" =>
          \A token \in tabs[t].token : token.wallet = tabs[t].wallet /\ token.issuedAt <= hour
    /\ tabs[t].step = "post" =>
          \A token \in tabs[t].token :
              signed[token.wallet] > 0 /\ token.issuedAt <= signed[token.wallet]
    /\ tabs[t].step = "issued" => \A token \in tabs[t].token : backed(token)

SessionInv ==
    /\ SessionTypes
    /\ \A w \in Accounts : signed[w] <= hour
    /\ \A token \in cookie : backed(token)
    /\ \A t \in Tabs : tabInvariant(t)
    /\ SpeaksOnlyForSigners

(* What a tab knows stays true when nothing was signed and no time passed, *)
(* and the other tabs' tokens stay backed when a wallet signs again.       *)
LEMMA BackedStays ==
  ASSUME SessionTypes, NEW token \in Token, backed(token),
         signed' \in [Accounts -> Nat], \A w \in Accounts : signed'[w] >= signed[w]
  PROVE  backed(token)'
<1>1. token.wallet \in Accounts /\ token.issuedAt \in Nat /\ signed \in [Accounts -> Nat]
      /\ ChallengeTtl \in Nat
  BY WalletSessionAssumption DEF Token, SessionTypes
<1>2. PICK x \in Nat, y \in Nat : x = signed[token.wallet] /\ y = signed'[token.wallet] /\ x <= y
  BY <1>1
<1> QED BY <1>1, <1>2 DEF backed

LEMMA TabsFrame ==
  ASSUME SessionInv, NEW t \in Tabs, tabs'[t] = tabs[t], hour' \in Nat, hour' >= hour,
         signed' \in [Accounts -> Nat], \A w \in Accounts : signed'[w] >= signed[w]
  PROVE  tabInvariant(t)'
<1>1. /\ hour \in Nat /\ signed \in [Accounts -> Nat] /\ cookie \subseteq Token
      /\ tabs[t].token \subseteq Token /\ ChallengeTtl \in Nat
  BY WalletSessionAssumption DEF SessionInv, SessionTypes, Tab
<1>2. ASSUME NEW token \in Token, backed(token) PROVE backed(token)'
  BY <1>2, BackedStays DEF SessionInv
<1>3. ASSUME NEW token \in Token, signed[token.wallet] > 0, token.issuedAt <= signed[token.wallet]
      PROVE  signed'[token.wallet] > 0 /\ token.issuedAt <= signed'[token.wallet]
  <2>1. token.wallet \in Accounts /\ token.issuedAt \in Nat
    BY DEF Token
  <2>2. PICK x \in Nat, y \in Nat : x = signed[token.wallet] /\ y = signed'[token.wallet] /\ x <= y
    BY <1>1, <2>1
  <2> QED BY <1>3, <2>1, <2>2
<1>4. \A token \in Token : token.issuedAt <= hour => token.issuedAt <= hour'
  BY <1>1 DEF Token
<1>6. tabInvariant(t)
  BY DEF SessionInv
<1>7. tabInvariant(t)'
  <2> HIDE DEF backed
  <2> QED BY <1>1, <1>2, <1>3, <1>4, <1>6 DEF tabInvariant
<1> QED BY <1>7

(* Most answers change one tab and leave the clock and the signatures.     *)
LEMMA TabStepKeepsInv ==
  ASSUME SessionInv, NEW t \in Tabs, NEW r, tabs' = [tabs EXCEPT ![t] = r],
         r \in Tab,
         cookie' \subseteq cookie \cup (IF tabs[t].step = "issued" THEN tabs[t].token ELSE {}),
         UNCHANGED <<hour, signed>>, spoken' = {}, tabInvariant(t)'
  PROVE  SessionInv'
<1>1. /\ SessionTypes /\ tabInvariant(t) /\ hour' \in Nat /\ hour' >= hour
      /\ \A w \in Accounts : signed'[w] >= signed[w]
  BY DEF SessionInv, SessionTypes
<1>2. SessionTypes'
  <2>1. cookie' \subseteq Token /\ tabs' \in [Tabs -> Tab]
    <3>1. tabs[t].token \subseteq Token /\ cookie \subseteq Token
      BY <1>1 DEF SessionTypes, Tab
    <3> QED BY <1>1, <3>1 DEF SessionTypes
  <2> QED BY <1>1, <2>1 DEF SessionTypes
<1>3. \A u \in Tabs : tabInvariant(u)'
  <2>1. ASSUME NEW u \in Tabs, u # t PROVE tabInvariant(u)'
    <3>1. tabs'[u] = tabs[u]
      BY <1>1, <2>1 DEF SessionTypes
    <3> QED BY <1>1, <3>1, TabsFrame DEF SessionTypes
  <2> QED BY <2>1
<1>4. \A token \in cookie' : backed(token)'
  <2>1. \A token \in Token : backed(token) <=> backed(token)'
    BY DEF backed
  <2>2. cookie \subseteq Token /\ tabs[t].token \subseteq Token
    BY <1>1 DEF SessionTypes, Tab
  <2> QED BY <1>1, <2>1, <2>2 DEF SessionInv, tabInvariant
<1> QED BY <1>2, <1>3, <1>4 DEF SessionInv, SpeaksOnlyForSigners

LEMMA SessionInvIsInductive ==
  ASSUME SessionInv, [SessionsNext]_sessionVars
  PROVE  SessionInv'
<1>0. /\ SessionTypes /\ ChallengeTtl \in Nat /\ CookieTtl \in Nat
      /\ \A t \in Tabs : tabInvariant(t) /\ tabs[t].token \subseteq Token
  BY WalletSessionAssumption DEF SessionInv, SessionTypes, Tab
<1>1. CASE Hours \/ \E list \in SUBSET Accounts : Configure(list)
  <2>1. /\ hour' = hour \/ hour' = hour + 1
        /\ UNCHANGED <<cookie, tabs, signed>> /\ spoken' = {}
    BY <1>1 DEF Hours, Configure
  <2>2. /\ hour' \in Nat /\ hour' >= hour /\ signed' \in [Accounts -> Nat] /\ hour' >= 1
        /\ \A w \in Accounts : signed'[w] >= signed[w] /\ signed'[w] <= hour'
    BY <1>0, <2>1 DEF SessionTypes, SessionInv
  <2>3. \A t \in Tabs : tabInvariant(t)'
    BY <2>1, <2>2, TabsFrame
  <2>4. \A token \in cookie' : backed(token)'
    BY <2>1 DEF SessionInv, backed
  <2> QED BY <1>0, <2>1, <2>2, <2>3, <2>4 DEF SessionInv, SessionTypes, SpeaksOnlyForSigners
<1>2. ASSUME NEW w \in Accounts, Request(w) PROVE SessionInv'
  <2>1. UNCHANGED <<hour, allowed, cookie, tabs, signed>> /\ spoken' = {w} /\ w \in allowed
    BY <1>2 DEF Request, requireWalletAuthSession, assertCanaryWalletAllowed
  <2>2. PICK token \in cookie : hour < token.issuedAt + CookieTtl /\ token.wallet = w
    BY <1>2 DEF Request, requireWalletAuthSession, parseSessionPayload
  <2>3. backed(token) /\ token.issuedAt \in Nat /\ hour \in Nat /\ signed[w] \in Nat
    BY <1>0, <2>2 DEF SessionInv, SessionTypes, Token
  <2>4. signed[w] > 0 /\ hour < signed[w] + ChallengeTtl + CookieTtl
    BY <1>0, <2>2, <2>3 DEF backed
  <2>5. SpeaksOnlyForSigners'
    BY <2>1, <2>4 DEF SpeaksOnlyForSigners
  <2>6. \A t \in Tabs : tabInvariant(t)'
    BY <1>0, <2>1 DEF tabInvariant, backed
  <2> QED BY <2>1, <2>5, <2>6 DEF SessionInv, SessionTypes, backed
<1>3. ASSUME NEW t \in Tabs, signMessage(t) PROVE SessionInv'
  <2>1. /\ tabs' = [tabs EXCEPT ![t].step = "post", ![t].token = tabs[t].token]
        /\ signed' = [signed EXCEPT ![tabs[t].wallet] = hour]
        /\ UNCHANGED <<hour, cookie>> /\ spoken' = {} /\ tabs[t].step = "sign"
    BY <1>3 DEF signMessage, Answer
  <2>2. /\ tabs[t].wallet \in Accounts
        /\ \A token \in tabs[t].token : token.wallet = tabs[t].wallet /\ token.issuedAt <= hour
    BY <1>0, <2>1 DEF tabInvariant
  <2>3. /\ hour' \in Nat /\ hour' >= hour /\ signed' \in [Accounts -> Nat]
        /\ \A w \in Accounts : signed'[w] >= signed[w] /\ signed'[w] <= hour'
    BY <1>0, <2>1, <2>2 DEF SessionTypes, SessionInv
  <2>4. \A u \in Tabs : u # t => tabs'[u] = tabs[u]
    BY <1>0, <2>1 DEF SessionTypes
  <2>5. tabInvariant(t)'
    <3>1. tabs'[t].step = "post" /\ tabs'[t].token = tabs[t].token /\ tabs'[t].wallet = tabs[t].wallet
      BY <1>0, <2>1 DEF SessionTypes
    <3>2. signed'[tabs[t].wallet] = hour /\ hour > 0
      BY <1>0, <2>1, <2>2 DEF SessionTypes
    <3> QED BY <2>2, <3>1, <3>2 DEF tabInvariant
  <2>6. \A u \in Tabs : tabInvariant(u)'
    BY <2>3, <2>4, <2>5, TabsFrame
  <2>7. \A token \in cookie' : backed(token)'
    BY <1>0, <2>1, <2>3, BackedStays DEF SessionInv, SessionTypes
  <2>8. SessionTypes'
    <3>1. tabs'[t] \in Tab
      BY <1>0, <2>1 DEF SessionTypes, Tab, TabStep
    <3>2. tabs' \in [Tabs -> Tab]
      BY <1>0, <2>1, <2>4, <3>1 DEF SessionTypes
    <3> QED BY <1>0, <2>1, <2>3, <3>2 DEF SessionTypes
  <2> QED BY <2>1, <2>3, <2>6, <2>7, <2>8 DEF SessionInv, SpeaksOnlyForSigners
<1>4. ASSUME NEW t \in Tabs,
             \/ \E w \in Accounts, client \in {"hasWalletSession", "ensureWalletSession"} :
                   GetSession(t, w, client)
             \/ ReceiveKnown(t) \/ ReceiveUnknown(t) \/ createWalletAuthChallenge(t)
             \/ issueWalletAuthSession(t) \/ ReceiveSession(t) \/ GiveUp(t)
      PROVE  SessionInv'
  <2>1. ASSUME NEW r \in Tab, tabs' = [tabs EXCEPT ![t] = r]
        PROVE  tabs'[t] = r
    BY <1>0, <2>1 DEF SessionTypes
  <2>2. IdleTab \in Tab /\ tabs[t] \in Tab /\ IdleTab.step = "idle"
    BY <1>0 DEF IdleTab, NoToken, SessionTypes, Tab, TabStep
  <2>3. CASE \E w \in Accounts, client \in {"hasWalletSession", "ensureWalletSession"} :
                   GetSession(t, w, client)
    <3>1. PICK w \in Accounts, client \in {"hasWalletSession", "ensureWalletSession", "known"} :
            /\ tabs' = [tabs EXCEPT ![t] = [step |-> client, wallet |-> w, token |-> NoToken]]
            /\ UNCHANGED <<hour, cookie, signed>> /\ spoken' = {}
      BY <2>3 DEF GetSession
    <3>2. [step |-> client, wallet |-> w, token |-> NoToken] \in Tab
      BY DEF NoToken, Tab, TabStep
    <3>3. tabInvariant(t)'
      <4>1. /\ tabs'[t].step = client /\ tabs'[t].wallet = w /\ tabs'[t].token = {}
            /\ client \notin {"sign", "post", "issued"}
        <5>1. tabs'[t] = [step |-> client, wallet |-> w, token |-> NoToken]
          BY <1>0, <3>1 DEF SessionTypes
        <5> QED BY <5>1 DEF NoToken
      <4> QED BY <4>1 DEF tabInvariant
    <3> QED BY <3>1, <3>2, <3>3, TabStepKeepsInv
  <2>4. CASE \/ ReceiveKnown(t) \/ GiveUp(t) \/ ReceiveSession(t)
             \/ (ReceiveUnknown(t) /\ tabs[t].step = "hasWalletSession")
    <3>1. /\ tabs' = [tabs EXCEPT ![t] = IdleTab]
          /\ UNCHANGED <<hour, signed>> /\ spoken' = {}
          /\ cookie' \subseteq cookie \cup (IF tabs[t].step = "issued" THEN tabs[t].token ELSE {})
      BY <2>4 DEF ReceiveKnown, GiveUp, ReceiveSession, ReceiveUnknown, Idle, NoToken
    <3>2. tabInvariant(t)'
      BY <2>1, <2>2, <3>1 DEF tabInvariant
    <3> QED BY <2>2, <3>1, <3>2, TabStepKeepsInv
  <2>5. CASE \/ createWalletAuthChallenge(t) \/ issueWalletAuthSession(t)
             \/ (ReceiveUnknown(t) /\ tabs[t].step # "hasWalletSession")
    <3>1. tabs[t].wallet \in Accounts /\ UNCHANGED <<hour, signed>> /\ spoken' = {}
          /\ cookie' \subseteq cookie
      BY <1>0, <2>5 DEF tabInvariant, createWalletAuthChallenge, issueWalletAuthSession,
            ReceiveUnknown, NoToken
    <3>2. ASSUME NEW step \in TabStep, NEW token \in SUBSET Token, step # "idle",
                 Answer(t, step, token),
                 step = "sign" => \A k \in token : k.wallet = tabs[t].wallet /\ k.issuedAt <= hour,
                 step # "post",
                 step = "issued" => \A k \in token : backed(k)
          PROVE  SessionInv'
      <4>1. PICK r \in Tab : r.step = step /\ r.wallet = tabs[t].wallet /\ r.token = token
                             /\ tabs' = [tabs EXCEPT ![t] = r]
        <5>1. tabs' = [tabs EXCEPT ![t] = [tabs[t] EXCEPT !.step = step, !.token = token]]
          BY <1>0, <3>2 DEF Answer, SessionTypes
        <5> QED BY <2>2, <5>1 DEF Tab
      <4>2. tabInvariant(t)'
        BY <2>1, <3>1, <3>2, <4>1 DEF tabInvariant, backed
      <4> QED BY <3>1, <4>1, <4>2, TabStepKeepsInv
    <3>3. CASE createWalletAuthChallenge(t)
      <4>1. [wallet |-> tabs[t].wallet, issuedAt |-> hour] \in Token
        BY <1>0, <3>1 DEF Token, SessionTypes
      <4>2. Answer(t, "sign", {[wallet |-> tabs[t].wallet, issuedAt |-> hour]})
        BY <3>3 DEF createWalletAuthChallenge
      <4> QED BY <1>0, <3>2, <4>1, <4>2 DEF SessionTypes, TabStep
    <3>4. CASE issueWalletAuthSession(t)
      <4>1. PICK token \in tabs[t].token :
              /\ hour < token.issuedAt + ChallengeTtl
              /\ Answer(t, "issued", {[wallet |-> token.wallet, issuedAt |-> hour]})
        BY <3>4 DEF issueWalletAuthSession, parseChallengePayload
      <4>2. token \in Token /\ signed[token.wallet] > 0 /\ token.issuedAt <= signed[token.wallet]
        BY <1>0, <3>4, <4>1 DEF issueWalletAuthSession, tabInvariant
      <4>3. [wallet |-> token.wallet, issuedAt |-> hour] \in Token
        BY <1>0, <4>2 DEF Token, SessionTypes
      <4>4. backed([wallet |-> token.wallet, issuedAt |-> hour])
        <5>1. token.wallet \in Accounts /\ token.issuedAt \in Nat /\ hour \in Nat
              /\ signed[token.wallet] \in Nat
          BY <1>0, <4>2 DEF Token, SessionTypes
        <5> QED BY <1>0, <4>1, <4>2, <5>1 DEF backed
      <4> QED BY <3>2, <4>1, <4>3, <4>4 DEF TabStep
    <3>5. CASE ReceiveUnknown(t) /\ tabs[t].step # "hasWalletSession"
      <4>1. Answer(t, "challenge", {})
        BY <3>5 DEF ReceiveUnknown, NoToken
      <4> QED BY <3>2, <4>1 DEF TabStep
    <3> QED BY <2>5, <3>3, <3>4, <3>5
  <2> QED BY <1>4, <2>3, <2>4, <2>5
<1>5. CASE UNCHANGED sessionVars
  <2>1. UNCHANGED <<hour, allowed, cookie, tabs, signed, spoken>>
    BY <1>5 DEF sessionVars
  <2>2. \A t \in Tabs : tabInvariant(t)'
    BY <1>0, <2>1 DEF tabInvariant, backed
  <2> QED BY <2>1, <2>2 DEF SessionInv, SessionTypes, backed, SpeaksOnlyForSigners
<1> QED BY <1>1, <1>2, <1>3, <1>4, <1>5 DEF SessionsNext

(* Whoever's tabs share a browser's cookie and however late the answers    *)
(* reach them, a request is let through only for a wallet that signed a    *)
(* challenge itself, less than a challenge's and a session's life ago.     *)
THEOREM RequestsSpeakForSigners == SessionsSpec => []SpeaksOnlyForSigners
<1>1. ASSUME SessionsInit PROVE SessionInv
  <2>1. /\ hour = 1 /\ cookie = {} /\ spoken = {} /\ signed = [w \in Accounts |-> 0]
        /\ tabs = [t \in Tabs |-> IdleTab]
    BY <1>1 DEF SessionsInit, NoToken
  <2>2. IdleTab \in Tab /\ IdleTab.step = "idle"
    BY DEF IdleTab, NoToken, Tab, TabStep
  <2>3. SessionTypes
    BY <2>1, <2>2 DEF SessionTypes
  <2>4. \A t \in Tabs : tabInvariant(t)
    BY <2>1, <2>2 DEF tabInvariant
  <2> QED BY <2>1, <2>3, <2>4 DEF SessionInv, SpeaksOnlyForSigners
<1>2. SessionInv /\ [SessionsNext]_sessionVars => SessionInv'
  BY SessionInvIsInductive
<1>3. SessionInv => SpeaksOnlyForSigners
  BY DEF SessionInv
<1> QED BY <1>1, <1>2, <1>3, PTL DEF SessionsSpec

-----------------------------------------------------------------------------
(* Connecting a wallet.                                                    *)

ConnectTypes ==
    /\ connectPhase \in {"idle", "requesting", "syncing", "error"}
    /\ attempt \in Nat /\ prompts \subseteq 1..attempt
    /\ chooser \in [open : BOOLEAN, listed : SUBSET (Announced \cup Legacy), by : Nat,
                    scanNumber : Nat, left : SUBSET {"delayed", "initialized"}]
    /\ scans \subseteq [number : Nat, fallback : BOOLEAN]

(* The page is locked exactly as long as the newest attempt's prompt is    *)
(* open, and then until the account is there.                              *)
phaseHolds ==
    /\ connectPhase = "requesting" <=> attempt \in prompts
    /\ connectPhase = "syncing" => attempt \in approved

scanHolds ==
    \/ chooser.by = chooser.scanNumber
    \/ \E s \in scans : s.number = chooser.scanNumber
    \/ chooser.open = FALSE

listHolds == chooser.listed \subseteq Announced \/ chooser.listed \subseteq Legacy

ConnectInv == ConnectTypes /\ phaseHolds /\ scanHolds /\ listHolds

LEMMA PhaseEvents ==
  ASSUME connectPhase \in {"idle", "requesting", "syncing", "error"}
  PROVE  /\ nextConnectPhase(connectPhase, "accountConfirmed") = "idle"
         /\ nextConnectPhase(connectPhase, "requestFailed") = "error"
         /\ ~connectPhaseLocked(connectPhase) =>
               nextConnectPhase(connectPhase, "request") = "requesting"
         /\ connectPhase = "requesting" =>
               nextConnectPhase(connectPhase, "requestResolved") = "syncing"
         /\ ~connectPhaseLocked(connectPhase) =>
               nextConnectPhase(connectPhase, "retry") \in {"idle", "error"}
BY DEF nextConnectPhase, connectPhaseLocked

\* The dialog closed, by a choice, by Escape or by the account.
LEMMA ClosingHolds ==
  ASSUME ConnectInv, closeChooser
  PROVE  /\ chooser' \in [open : BOOLEAN, listed : SUBSET (Announced \cup Legacy), by : Nat,
                          scanNumber : Nat, left : SUBSET {"delayed", "initialized"}]
         /\ scans' = {} /\ scanHolds' /\ listHolds'
<1>1. chooser' = [open |-> FALSE, listed |-> {}, by |-> 0, scanNumber |-> 0, left |-> {}]
  BY DEF closeChooser, Closed
<1>2. chooser'.open = FALSE /\ chooser'.listed = {}
  BY <1>1
<1> QED BY <1>1, <1>2 DEF closeChooser, scanHolds, listHolds

\* The dialog opened, or its effect run again by new connectors.
LEMMA StartingHolds ==
  ASSUME startScans
  PROVE  /\ chooser' \in [open : BOOLEAN, listed : SUBSET (Announced \cup Legacy), by : Nat,
                          scanNumber : Nat, left : SUBSET {"delayed", "initialized"}]
         /\ scans' \subseteq [number : Nat, fallback : BOOLEAN]
         /\ scanHolds' /\ listHolds'
<1>1. chooser' = [open |-> TRUE, listed |-> {}, by |-> 0, scanNumber |-> 1,
                  left |-> {"delayed", "initialized"}]
  BY DEF startScans, Closed
<1>2. scans' = {[number |-> 1, fallback |-> FALSE]}
  BY DEF startScans
<1>3. chooser'.scanNumber = 1 /\ chooser'.listed = {} /\ [number |-> 1, fallback |-> FALSE].number = 1
  BY <1>1
<1> QED BY <1>1, <1>2, <1>3 DEF scanHolds, listHolds

LEMMA ConnectInvIsInductive ==
  ASSUME ConnectInv, [ConnectNext]_connectVars
  PROVE  ConnectInv'
<1> DEFINE Chooser == [open : BOOLEAN, listed : SUBSET (Announced \cup Legacy), by : Nat,
                       scanNumber : Nat, left : SUBSET {"delayed", "initialized"}]
           Scan == [number : Nat, fallback : BOOLEAN]
<1>0. /\ connectPhase \in {"idle", "requesting", "syncing", "error"}
      /\ attempt \in Nat /\ prompts \subseteq 1..attempt /\ attempt + 1 \notin prompts
      /\ chooser \in Chooser /\ scans \subseteq Scan /\ phaseHolds /\ scanHolds /\ listHolds
  BY DEF ConnectInv, ConnectTypes
<1> HIDE DEF Chooser, Scan
\* The dialog's own steps leave the attempt alone, and the attempt's the dialog.
<1>1. ASSUME UNCHANGED <<connectPhase, attempt, prompts, approved>>,
             chooser' \in Chooser, scans' \subseteq Scan, scanHolds', listHolds'
      PROVE  ConnectInv'
  BY <1>0, <1>1 DEF ConnectInv, ConnectTypes, phaseHolds, Chooser, Scan
<1>2. ASSUME chooser' \in Chooser, scans' \subseteq Scan, scanHolds', listHolds', phaseHolds',
             connectPhase' \in {"idle", "requesting", "syncing", "error"},
             attempt' \in Nat, prompts' \subseteq 1..attempt'
      PROVE  ConnectInv'
  BY <1>2 DEF ConnectInv, ConnectTypes, Chooser, Scan
<1>3. ASSUME UNCHANGED chooserVars
      PROVE  chooser' \in Chooser /\ scans' \subseteq Scan /\ scanHolds' /\ listHolds'
  BY <1>0, <1>3 DEF chooserVars, scanHolds, listHolds
<1>4. ASSUME closeChooser
      PROVE  chooser' \in Chooser /\ scans' \subseteq Scan /\ scanHolds' /\ listHolds'
  BY <1>4, ClosingHolds DEF Chooser
\* An attempt that ends gives its number up.
<1>5. ASSUME NEW event \in {"requestFailed", "accountConfirmed"}, finishConnectAttempt(event),
             prompts' \subseteq prompts
      PROVE  /\ phaseHolds' /\ connectPhase' \in {"idle", "error"}
             /\ attempt' \in Nat /\ prompts' \subseteq 1..attempt'
  <2>1. attempt' = attempt + 1 /\ connectPhase' \in {"idle", "error"}
    BY <1>0, <1>5, PhaseEvents DEF finishConnectAttempt
  <2> QED BY <1>0, <1>5, <2>1 DEF phaseHolds
<1>6. CASE openWalletChooser
  <2>1. /\ startScans /\ ~connectPhaseLocked(connectPhase)
        /\ connectPhase' \in {"idle", "error"} /\ UNCHANGED <<attempt, prompts, approved>>
    BY <1>0, <1>6, PhaseEvents DEF openWalletChooser
  <2>2. chooser' \in Chooser /\ scans' \subseteq Scan /\ scanHolds' /\ listHolds'
    BY <2>1, StartingHolds DEF Chooser, Scan
  <2>3. phaseHolds'
    BY <1>0, <2>1 DEF phaseHolds, connectPhaseLocked
  <2> QED BY <1>0, <1>2, <2>1, <2>2, <2>3
<1>7. ASSUME NEW w \in Announced, announce(w) PROVE ConnectInv'
  BY <1>1, <1>3, <1>7 DEF announce, attemptVars
<1>8. ASSUME NEW ethereum \in {{}} \cup {{w} : w \in Legacy}, finishDiscovery(ethereum) PROVE ConnectInv'
  <2>1. UNCHANGED <<connectPhase, attempt, prompts, approved>>
    BY <1>8 DEF finishDiscovery, attemptVars
  <2>2. CASE chooser.open
    <3>1. startScans
      BY <1>8, <2>2 DEF finishDiscovery
    <3> QED BY <1>1, <2>1, <3>1, StartingHolds DEF Chooser, Scan
  <2>3. CASE ~chooser.open
    BY <1>1, <1>3, <1>8, <2>1, <2>3 DEF finishDiscovery
  <2> QED BY <2>2, <2>3
<1>9. ASSUME NEW trigger \in {"delayed", "initialized"}, scanWallets(trigger) PROVE ConnectInv'
  <2> DEFINE scan == [number |-> chooser.scanNumber + 1, fallback |-> TRUE]
  <2>1. chooser' \in Chooser /\ chooser'.scanNumber = chooser.scanNumber + 1
        /\ chooser'.listed = chooser.listed /\ scan \in Scan /\ scan.number = chooser.scanNumber + 1
    <3>1. /\ chooser.scanNumber + 1 \in Nat
          /\ chooser.left \ {trigger} \in SUBSET {"delayed", "initialized"}
      BY <1>0 DEF Chooser
    <3>2. scan \in Scan /\ scan.number = chooser.scanNumber + 1
      BY <3>1 DEF Scan
    <3>3. PICK n \in Nat, rest \in SUBSET {"delayed", "initialized"} :
            /\ n = chooser.scanNumber + 1
            /\ chooser' = [chooser EXCEPT !.scanNumber = n, !.left = rest]
      BY <1>9, <3>1 DEF scanWallets
    <3> HIDE DEF scan
    <3>4. chooser' \in Chooser /\ chooser'.scanNumber = n /\ chooser'.listed = chooser.listed
      BY <1>0, <3>3 DEF Chooser
    <3> QED BY <3>2, <3>3, <3>4
  <2>2. scans' = scans \cup {scan} /\ UNCHANGED <<connectPhase, attempt, prompts, approved>>
    BY <1>9 DEF scanWallets, attemptVars
  <2> HIDE DEF scan
  <2>3. scanHolds' /\ listHolds'
    BY <1>0, <2>1, <2>2 DEF scanHolds, listHolds
  <2> QED BY <1>0, <1>1, <2>1, <2>2, <2>3
<1>10. ASSUME NEW scan \in scans, NEW answered \in SUBSET connectors, ScanDone(scan, answered) PROVE ConnectInv'
  <2> DEFINE found == selectInstalledWallets(answered, scan.fallback)
  <2>1. found \subseteq Announced \/ found \subseteq Legacy
    BY DEF selectInstalledWallets
  <2>2. scans' = scans \ {scan} /\ UNCHANGED <<connectPhase, attempt, prompts, approved>>
        /\ scan.number \in Nat
    BY <1>0, <1>10 DEF ScanDone, Scan, attemptVars
  <2>3. CASE current(scan)
    <3>1. chooser' = [chooser EXCEPT !.listed = found, !.by = scan.number]
      BY <1>10, <2>3 DEF ScanDone
    <3> HIDE DEF found
    <3>2. /\ chooser' \in Chooser /\ chooser'.by = scan.number
          /\ chooser'.scanNumber = chooser.scanNumber /\ chooser'.listed = found
      BY <1>0, <2>1, <2>2, <3>1 DEF Chooser
    <3>3. scanHolds' /\ listHolds'
      BY <2>1, <2>3, <3>2 DEF current, scanHolds, listHolds
    <3> QED BY <1>0, <1>1, <2>2, <3>2, <3>3
  <2>4. CASE ~current(scan)
    <3>1. chooser' = chooser
      BY <1>10, <2>4 DEF ScanDone
    <3>2. scanHolds' /\ listHolds'
      BY <1>0, <2>2, <2>4, <3>1 DEF current, scanHolds, listHolds
    <3> QED BY <1>0, <1>1, <2>2, <3>1, <3>2
  <2> QED BY <2>3, <2>4
<1>11. CASE Escape
  BY <1>1, <1>4, <1>11 DEF Escape, attemptVars
<1>12. CASE connectWallet
  <2>1. /\ attempt' = attempt + 1 /\ prompts' = prompts \cup {attempt + 1}
        /\ connectPhase' = "requesting" /\ closeChooser
    BY <1>0, <1>12, PhaseEvents DEF connectWallet
  <2>2. phaseHolds' /\ attempt' \in Nat /\ prompts' \subseteq 1..attempt'
    BY <1>0, <2>1 DEF phaseHolds
  <2> QED BY <1>2, <1>4, <2>1, <2>2
<1>13. ASSUME NEW a \in prompts, NEW address \in Addresses, Approve(a, address) PROVE ConnectInv'
  <2>1. /\ prompts' = prompts \ {a} /\ approved' = approved \cup {a} /\ attempt' = attempt
        /\ UNCHANGED chooserVars
        /\ connectPhase' = IF a = attempt THEN "syncing" ELSE connectPhase
    BY <1>0, <1>13, PhaseEvents DEF Approve, currentAttempt, phaseHolds
  <2>2. /\ phaseHolds' /\ attempt' \in Nat /\ prompts' \subseteq 1..attempt'
        /\ connectPhase' \in {"idle", "requesting", "syncing", "error"}
    BY <1>0, <2>1 DEF phaseHolds
  <2> QED BY <1>2, <1>3, <2>1, <2>2
<1>14. ASSUME NEW a \in prompts, Reject(a) PROVE ConnectInv'
  <2>1. prompts' = prompts \ {a} /\ UNCHANGED chooserVars
    BY <1>14 DEF Reject
  <2>2. CASE a = attempt
    <3>1. finishConnectAttempt("requestFailed")
      BY <1>14, <2>2 DEF Reject, currentAttempt
    <3> QED BY <1>2, <1>3, <1>5, <2>1, <3>1
  <2>3. CASE a # attempt
    <3>1. UNCHANGED <<attempt, connectPhase, approved>>
      BY <1>14, <2>3 DEF Reject, currentAttempt
    <3>2. phaseHolds'
      BY <1>0, <2>1, <2>3, <3>1 DEF phaseHolds
    <3> QED BY <1>0, <1>2, <1>3, <2>1, <3>1, <3>2
  <2> QED BY <2>2, <2>3
<1>15. ASSUME NEW a \in timers, Timeout(a) PROVE ConnectInv'
  <2>1. prompts' = prompts /\ UNCHANGED chooserVars /\ approved' = approved
        /\ (finishConnectAttempt("accountConfirmed") \/ UNCHANGED <<attempt, connectPhase>>)
    BY <1>15 DEF Timeout
  <2>2. CASE finishConnectAttempt("accountConfirmed")
    BY <1>2, <1>3, <1>5, <2>1, <2>2
  <2>3. CASE UNCHANGED <<attempt, connectPhase>>
    BY <1>1, <1>3, <2>1, <2>3
  <2> QED BY <2>1, <2>2, <2>3
<1>16. ASSUME NEW other \in Account, AccountChanges(other) PROVE ConnectInv'
  BY <1>1, <1>3, <1>16 DEF AccountChanges, attemptVars
<1>17. CASE Render
  BY <1>1, <1>3, <1>17 DEF Render, attemptVars
<1>18. CASE AccountEffect
  <2>1. CASE connected(rendered)
    <3>1. finishConnectAttempt("accountConfirmed") /\ closeChooser /\ prompts' = prompts
      BY <1>18, <2>1 DEF AccountEffect
    <3> QED BY <1>2, <1>4, <1>5, <3>1
  <2>2. CASE ~connected(rendered)
    BY <1>1, <1>3, <1>18, <2>2 DEF AccountEffect
  <2> QED BY <2>1, <2>2
<1>19. CASE UNCHANGED connectVars
  BY <1>1, <1>3, <1>19 DEF connectVars, attemptVars, chooserVars
<1> QED BY <1>6, <1>7, <1>8, <1>9, <1>10, <1>11, <1>12, <1>13, <1>14, <1>15, <1>16, <1>17, <1>18, <1>19 DEF ConnectNext

(* Whatever order the wallet, the library, the timers and the user finish   *)
(* in, the page is locked only for the attempt whose prompt is open or was  *)
(* approved, and the dialog lists what its newest scan found.               *)
THEOREM PageFollowsTheWallet == ConnectSpec => []ChooserFollowsTheWallet
<1>1. ASSUME ConnectInit PROVE ConnectInv
  <2>1. ConnectTypes
    BY <1>1 DEF ConnectInit, ConnectTypes, Closed
  <2> QED BY <1>1, <2>1 DEF ConnectInit, ConnectInv, Closed, phaseHolds, scanHolds, listHolds
<1>2. ConnectInv /\ [ConnectNext]_connectVars => ConnectInv'
  BY ConnectInvIsInductive
<1>3. ASSUME ConnectInv PROVE ChooserFollowsTheWallet
  <2>1. chooser.open \in BOOLEAN
    BY <1>3 DEF ConnectInv, ConnectTypes
  <2>2. chooser.listed \cap Announced = {} \/ chooser.listed \cap Legacy = {}
    BY <1>3, ConnectAssumption DEF ConnectInv, listHolds
  <2> QED BY <1>3, <2>1, <2>2 DEF ConnectInv, phaseHolds, scanHolds, ChooserFollowsTheWallet
<1> QED BY <1>1, <1>2, <1>3, PTL DEF ConnectSpec

-----------------------------------------------------------------------------
(* A Lock's page.                                                          *)

PageFlow == [step : {"idle", "ready", "prompt", "mining"}, left : Int, tx : Int]

PageTypes ==
    /\ page \in {"pact", "duolingo"}
    /\ flows \in [Flows -> PageFlow]
    /\ {busyRef, proofBusy} \subseteq BOOLEAN
    /\ sent \cup mined \cup tracked \subseteq Txs

\* A flow whose transaction is with the wallet or the chain.
engaged(f) == flows[f].step \in {"prompt", "mining"}

(* The record names the one transaction a flow or the recovery waits for,   *)
(* and each page has its own lock that keeps the flows apart.               *)
PageInv ==
    /\ PageTypes
    /\ \A f \in Flows :
          /\ flows[f].step # "mining" => flows[f].tx = 0
          /\ engaged(f) => recovering = 0 /\ record = flows[f].tx /\ (page = "pact" => busyRef)
          /\ page = "duolingo" /\ flows[f].step # "idle" => proofBusy
    /\ \A f, g \in Flows :
          f # g => /\ ~(engaged(f) /\ engaged(g))
                   /\ page = "duolingo" => flows[f].step = "idle" \/ flows[g].step = "idle"
    /\ recovering # 0 => record = recovering
    /\ forgot \/ tracked \ mined \subseteq {record}

LEMMA PageInvIsInductive ==
  ASSUME PageInv, [PageNext]_pageVars
  PROVE  PageInv'
<1>0. PageTypes /\ 0 \notin Txs /\ \A f \in Flows : flows[f] \in PageFlow /\ flows[f].left \in Int
  BY DEF PageInv, PageTypes, PageFlow, Txs
<1>1. CASE Reload
  <2>1. /\ \A f \in Flows : flows'[f].step = "idle" /\ flows'[f].tx = 0
        /\ flows' \in [Flows -> PageFlow]
    BY <1>1 DEF Reload, IdleFlow, PageFlow
  <2> QED BY <1>0, <1>1, <2>1 DEF Reload, PageInv, PageTypes, engaged, chain
<1>2. CASE Recovered
  <2>1. recovering # 0 /\ record = recovering /\ \A f \in Flows : ~engaged(f)
    BY <1>0, <1>2 DEF Recovered, PageInv, PageTypes
  <2> QED BY <1>0, <1>2, <2>1 DEF Recovered, PageInv, PageTypes, engaged, chain
<1>3. CASE RecoveryFails
  <2>1. record = recovering /\ \A f \in Flows : ~engaged(f)
    BY <1>3 DEF RecoveryFails, PageInv
  <2> QED BY <1>0, <1>3, <2>1 DEF RecoveryFails, PageInv, PageTypes, engaged, chain
<1>4. CASE ApproveLeftover
  BY <1>4 DEF ApproveLeftover, broadcast, PageInv, PageTypes, engaged
<1>5. ASSUME NEW n \in sent, Mine(n) PROVE PageInv'
  BY <1>5 DEF Mine, PageInv, PageTypes, engaged
<1>6. ASSUME NEW f \in Flows,
             \/ \E sends \in {1, 2} : Click(f, sends)
             \/ StartSend(f) \/ RefuseSend(f) \/ FailSend(f) \/ WriteContract(f) \/ Receipt(f)
             \/ ReceiptError(f)
      PROVE  PageInv'
  <2>1. \A g \in Flows : g # f => flows'[g] = flows[g]
    BY <1>0, <1>6 DEF Click, StartSend, RefuseSend, FailSend, WriteContract, Receipt, ReceiptError,
                      EndFlow, PageTypes
  <2>2. CASE \E sends \in {1, 2} : Click(f, sends)
    <3>1. flows' \in [Flows -> PageFlow] /\ flows'[f].step = "ready" /\ flows'[f].tx = 0
      BY <1>0, <2>2 DEF Click, PageTypes, PageFlow
    <3>2. /\ UNCHANGED <<page, busyRef, record, recovering, forgot, sent, mined, tracked>>
          /\ proofBusy' = (proofBusy \/ f = "proof" \/ page = "duolingo")
          /\ page = "duolingo" => ~proofBusy
      BY <2>2 DEF Click, chain
    <3>3. PageTypes'
      <4>1. proofBusy' \in BOOLEAN
        BY <3>2, Zenon
      <4> QED BY <1>0, <3>1, <3>2, <4>1 DEF PageTypes
    <3>4. \A g \in Flows : page = "duolingo" => proofBusy' /\ (g # f => flows[g].step = "idle")
      BY <3>2 DEF PageInv
    <3>5. \A g \in Flows : engaged(g)' => g # f /\ engaged(g)
      BY <2>1, <3>1 DEF engaged
    <3> QED BY <2>1, <3>1, <3>2, <3>3, <3>4, <3>5 DEF PageInv
  <2>3. CASE StartSend(f)
    <3>1. /\ flows' \in [Flows -> PageFlow] /\ flows'[f].step = "prompt" /\ flows'[f].tx = 0
          /\ flows[f].step = "ready" /\ record = 0 /\ recovering = 0
      BY <1>0, <2>3 DEF StartSend, mayStartSend, PageTypes, PageFlow, PageInv
    <3>2. \A g \in Flows : g # f => ~engaged(g)
      BY <1>0, <2>3, <3>1 DEF StartSend, mayStartSend, PageInv, PageTypes, engaged
    <3> QED BY <1>0, <2>1, <2>3, <3>1, <3>2 DEF StartSend, PageInv, PageTypes, engaged, chain
  <2>4. CASE WriteContract(f)
    <3>1. /\ flows' \in [Flows -> PageFlow] /\ flows'[f].step = "mining" /\ flows'[f].tx = nextTx
          /\ engaged(f) /\ record = 0 /\ recovering = 0 /\ nextTx \in Txs /\ record' = nextTx
      BY <1>0, <2>4 DEF WriteContract, broadcast, PageTypes, PageFlow, PageInv, engaged, Txs
    <3>2. \A g \in Flows : g # f => ~engaged(g)
      BY <3>1 DEF PageInv
    <3>3. tracked' \ mined \subseteq (tracked \ mined) \cup {nextTx}
      BY <2>4 DEF WriteContract
    <3>4. forgot' \/ tracked' \ mined' \subseteq {record'}
      BY <1>0, <2>4, <3>1, <3>3 DEF WriteContract, PageInv, PageTypes
    <3> HIDE DEF nextTx
    <3>5. PageTypes'
      BY <1>0, <2>4, <3>1 DEF WriteContract, broadcast, PageTypes
    <3> QED BY <1>0, <2>1, <2>4, <3>1, <3>2, <3>4, <3>5 DEF WriteContract, PageInv, engaged
  <2>5. CASE Receipt(f) /\ flows[f].left > 1
    <3>1. /\ flows' \in [Flows -> PageFlow] /\ flows'[f].step = "ready" /\ flows'[f].tx = 0
          /\ engaged(f) /\ record = flows[f].tx /\ flows[f].tx \in mined
      <4>1. flows' = [flows EXCEPT ![f] = [step |-> "ready", left |-> flows[f].left - 1, tx |-> 0]]
            /\ flows[f].step = "mining" /\ flows[f].tx \in mined
        BY <2>5 DEF Receipt
      <4>2. flows[f].left - 1 \in Int
        BY <1>0
      <4>3. [step |-> "ready", left |-> flows[f].left - 1, tx |-> 0] \in PageFlow
        BY <4>2 DEF PageFlow
      <4> QED BY <1>0, <4>1, <4>3 DEF PageTypes, PageInv, engaged
    <3>2. \A g \in Flows : g # f => ~engaged(g)
      BY <3>1 DEF PageInv
    <3>3. /\ UNCHANGED <<page, proofBusy, recovering, forgot, sent, mined, tracked>>
          /\ record' = 0 /\ busyRef' = FALSE
      BY <2>5 DEF Receipt, chain
    <3>4. \A g \in Flows : ~engaged(g)' /\ (flows'[g].step = "idle" <=> flows[g].step = "idle")
      BY <2>1, <3>1, <3>2 DEF engaged
    <3>5. forgot' \/ tracked' \ mined' \subseteq {record'}
      BY <3>1, <3>3 DEF PageInv
    <3>6. recovering' = 0
      BY <3>1, <3>3 DEF PageInv
    <3>7. PageTypes'
      BY <1>0, <3>1, <3>3 DEF PageTypes
    <3> QED BY <2>1, <3>1, <3>2, <3>3, <3>4, <3>5, <3>6, <3>7 DEF PageInv
  <2>6. CASE Receipt(f) /\ ~(flows[f].left > 1)
    <3>1. /\ flows' \in [Flows -> PageFlow] /\ flows'[f].step = "idle" /\ flows'[f].tx = 0
          /\ engaged(f) /\ record = flows[f].tx /\ flows[f].tx \in mined
      BY <1>0, <2>6 DEF Receipt, EndFlow, IdleFlow, PageTypes, PageFlow, PageInv, engaged
    <3>2. \A g \in Flows : g # f => ~engaged(g)
      BY <3>1 DEF PageInv
    <3> QED BY <1>0, <2>1, <2>6, <3>1, <3>2 DEF Receipt, EndFlow, PageInv, PageTypes, engaged, chain
  <2>7. CASE RefuseSend(f)
    <3>1. flows' \in [Flows -> PageFlow] /\ flows'[f].step = "idle" /\ flows'[f].tx = 0
          /\ ~engaged(f) /\ flows[f].step # "idle"
      BY <1>0, <2>7 DEF RefuseSend, EndFlow, IdleFlow, PageTypes, PageFlow, engaged
    <3> QED BY <1>0, <2>1, <2>7, <3>1 DEF RefuseSend, EndFlow, PageInv, PageTypes, engaged, chain
  <2>8. CASE FailSend(f) \/ ReceiptError(f)
    <3>1. flows' \in [Flows -> PageFlow] /\ flows'[f].step = "idle" /\ flows'[f].tx = 0 /\ engaged(f)
      BY <1>0, <2>8 DEF FailSend, ReceiptError, EndFlow, IdleFlow, PageTypes, PageFlow, engaged
    <3>2. \A g \in Flows : g # f => ~engaged(g)
      BY <3>1 DEF PageInv
    <3> QED BY <1>0, <2>1, <2>8, <3>1, <3>2
             DEF FailSend, ReceiptError, EndFlow, PageInv, PageTypes, engaged, chain
  <2> QED BY <1>6, <2>2, <2>3, <2>4, <2>5, <2>6, <2>7, <2>8
<1>7. CASE UNCHANGED pageVars
  BY <1>7 DEF pageVars, PageInv, PageTypes, engaged
<1> QED BY <1>1, <1>2, <1>3, <1>4, <1>5, <1>6, <1>7 DEF PageNext

(* Over reloads, lost receipts, prompts left open and the two pages' own    *)
(* locks, of the transactions the page knows of one at most is not mined    *)
(* yet, until the Duolingo page's recovery has forgotten one.               *)
THEOREM OnePendingTransaction == PageSpec => []OneTransactionAtATime
<1>1. ASSUME PageInit PROVE PageInv
  <2>1. IdleFlow \in PageFlow /\ IdleFlow.step = "idle" /\ IdleFlow.tx = 0
    BY DEF IdleFlow, PageFlow
  <2>2. PageTypes /\ \A f \in Flows : flows[f] = IdleFlow
    BY <1>1, <2>1 DEF PageInit, PageTypes
  <2> QED BY <1>1, <2>1, <2>2 DEF PageInit, PageInv, engaged
<1>2. PageInv /\ [PageNext]_pageVars => PageInv'
  BY PageInvIsInductive
<1>3. PageInv => OneTransactionAtATime
  <2>1. SUFFICES ASSUME tracked \ mined \subseteq {record}
        PROVE  Cardinality(tracked \ mined) <= 1
    BY DEF PageInv, OneTransactionAtATime
  <2>2. IsFiniteSet({record}) /\ Cardinality({record}) = 1
    BY FS_Singleton
  <2> QED BY <2>1, <2>2, FS_Subset, FS_CardinalityType
<1> QED BY <1>1, <1>2, <1>3, PTL DEF PageSpec

-----------------------------------------------------------------------------
(* The leaderboard.                                                        *)

Kinds == {"PlayerHandleSet", "PlayerProfileVisibilityUpdated", "LockScoreAwarded", "CompletionVerified"}
Event == [kind : Kinds, player : Players, value : Handles \cup {NoHandle} \cup BOOLEAN \cup ScoreDays]
Profiling == [playerHandle : [Players -> Handles \cup {NoHandle}],
              handleOwner : [Handles -> Players \cup {NoOne}],
              hidden : [Players -> BOOLEAN],
              scored : [Players -> SUBSET ScoreDays],
              finished : [Players -> SUBSET ScoreDays]]
Loading == [from : Nat, events : Seq(Event)]
Reading == [latest : Nat, loads : [Escrows -> Loading]]

BoardTypes ==
    /\ deploymentBlock \in [Escrows -> Nat \ {0}] /\ deploymentBlock["lockIn"] = 1
    /\ log \in Seq(Event) /\ past \in Seq(Profiling) /\ Len(past) = Len(log)
    /\ profiles \in Profiling
    /\ reading \in Reading /\ cached \in Reading

of(e, p, kind) == e.player = p /\ e.kind = kind

(* v is what the last of a player's events of a kind said, up to block n.   *)
lastSaid(n, p, kind, default, v) ==
    \/ v = default /\ \A i \in 1..n : ~of(log[i], p, kind)
    \/ \E i \in 1..n : /\ of(log[i], p, kind) /\ v = log[i].value
                       /\ \A j \in 1..n : j > i => ~of(log[j], p, kind)

daysSaid(n, p, kind) == {log[i].value : i \in {j \in 1..n : of(log[j], p, kind)}}

(* The contracts' state is what their events up to block n say it is.       *)
describes(n, state) ==
    \A p \in Players :
        /\ lastSaid(n, p, "PlayerHandleSet", NoHandle, state.playerHandle[p])
        /\ lastSaid(n, p, "PlayerProfileVisibilityUpdated", FALSE, state.hidden[p])
        /\ state.scored[p] = daysSaid(n, p, "LockScoreAwarded")
        /\ state.finished[p] = daysSaid(n, p, "CompletionVerified")

consistent(state) ==
    \A h \in Handles, p \in Players : state.handleOwner[h] = p <=> state.playerHandle[p] = h

(* What was read of an escrow of the blocks up to n: from its first one to  *)
(* where the load has got, and all of them once that is past n.             *)
isRead(load, e, n) ==
    LET first == deploymentBlock[e]
        last == IF load.from <= n THEN load.from - 1 ELSE n
    IN /\ load.from >= first
       /\ Len(load.events) = IF first <= n THEN last - first + 1 ELSE 0
       /\ \A i \in 1..Len(load.events) : load.events[i] = log[first + i - 1]

readingHolds(r) == r.latest \in 1..Len(log) /\ \A e \in Escrows : isRead(r.loads[e], e, r.latest)

\* No completion before its escrow was deployed.
completionsHold ==
    \A i \in 1..Len(log) : log[i].kind = "CompletionVerified" => i >= deploymentBlock["duolingo"]

afterDeployment(e) == e.kind = "CompletionVerified" => Len(log) + 1 >= deploymentBlock["duolingo"]

BoardInv ==
    /\ BoardTypes /\ completionsHold
    /\ describes(Len(log), profiles) /\ consistent(profiles)
    /\ \A n \in 1..Len(log) : describes(n, past[n]) /\ consistent(past[n])
    /\ reading # NotReading => readingHolds(reading)
    /\ cached # NotReading =>
          readingHolds(cached) /\ \A e \in Escrows : cached.loads[e].from > cached.latest

-----------------------------------------------------------------------------
LEMMA DescriptionStays ==
  ASSUME NEW n \in Nat, NEW state, describes(n, state), \A i \in 1..n : log'[i] = log[i]
  PROVE  describes(n, state)'
<1>1. ASSUME NEW p, NEW kind, NEW default, NEW v, lastSaid(n, p, kind, default, v)
      PROVE  lastSaid(n, p, kind, default, v)'
  BY <1>1 DEF lastSaid, of
<1>2. ASSUME NEW p, NEW kind PROVE daysSaid(n, p, kind)' = daysSaid(n, p, kind)
  BY DEF daysSaid, of
<1> QED BY <1>1, <1>2 DEF describes

LEMMA OneMoreSaid ==
  ASSUME NEW n \in Nat, NEW p, NEW kind, NEW default, NEW v, NEW w, NEW e,
         \A i \in 1..n : log'[i] = log[i], log'[n + 1] = e,
         lastSaid(n, p, kind, default, v), w = IF of(e, p, kind) THEN e.value ELSE v
  PROVE  lastSaid(n + 1, p, kind, default, w)'
<1>1. CASE of(e, p, kind)
  <2>1. n + 1 \in 1..(n + 1) /\ \A j \in 1..(n + 1) : ~(j > n + 1)
    OBVIOUS
  <2> QED BY <1>1, <2>1 DEF lastSaid, of
<1>2. CASE ~of(e, p, kind)
  <2>1. \A i \in 1..(n + 1) : i \in 1..n \/ i = n + 1
    OBVIOUS
  <2>2. CASE v = default /\ \A i \in 1..n : ~of(log[i], p, kind)
    BY <1>2, <2>1, <2>2 DEF lastSaid, of
  <2>3. CASE \E i \in 1..n : /\ of(log[i], p, kind) /\ v = log[i].value
                             /\ \A j \in 1..n : j > i => ~of(log[j], p, kind)
    <3>1. PICK i \in 1..n : /\ of(log[i], p, kind) /\ v = log[i].value
                            /\ \A j \in 1..n : j > i => ~of(log[j], p, kind)
      BY <2>3
    <3>2. i \in 1..(n + 1)
      OBVIOUS
    <3> QED BY <1>2, <2>1, <3>1, <3>2 DEF lastSaid, of
  <2> QED BY <2>2, <2>3 DEF lastSaid
<1> QED BY <1>1, <1>2

LEMMA OneMoreDay ==
  ASSUME NEW n \in Nat, NEW p, NEW kind, NEW e,
         \A i \in 1..n : log'[i] = log[i], log'[n + 1] = e
  PROVE  daysSaid(n + 1, p, kind)'
            = daysSaid(n, p, kind) \cup (IF of(e, p, kind) THEN {e.value} ELSE {})
<1>1. \A i : i \in 1..(n + 1) <=> i \in 1..n \/ i = n + 1
  OBVIOUS
<1>2. \A i \in 1..n : of(log'[i], p, kind) <=> of(log[i], p, kind)
  BY DEF of
<1>3. daysSaid(n + 1, p, kind)' = {log'[i].value : i \in {j \in 1..(n + 1) : of(log'[j], p, kind)}}
  BY DEF daysSaid, of
<1> HIDE DEF of
<1> QED BY <1>1, <1>2, <1>3 DEF daysSaid

(* A block with one event more.                                            *)
LEMMA EventKeepsInv ==
  ASSUME BoardInv, NEW e \in Event, NEW state \in Profiling, emit(e, state), consistent(state),
         afterDeployment(e),
         \A p \in Players :
             /\ state.playerHandle[p] = IF of(e, p, "PlayerHandleSet") THEN e.value
                                        ELSE profiles.playerHandle[p]
             /\ state.hidden[p] = IF of(e, p, "PlayerProfileVisibilityUpdated") THEN e.value
                                  ELSE profiles.hidden[p]
             /\ state.scored[p] = profiles.scored[p]
                    \cup (IF of(e, p, "LockScoreAwarded") THEN {e.value} ELSE {})
             /\ state.finished[p] = profiles.finished[p]
                    \cup (IF of(e, p, "CompletionVerified") THEN {e.value} ELSE {})
  PROVE  BoardInv'
<1>0. PICK n \in Nat : n = Len(log)
  BY DEF BoardInv, BoardTypes
<1>1. /\ n \in Nat /\ Len(log') = n + 1 /\ Len(past') = n + 1
      /\ log' \in Seq(Event) /\ past' \in Seq(Profiling)
      /\ \A i \in 1..n : log'[i] = log[i] /\ past'[i] = past[i]
      /\ log'[n + 1] = e /\ past'[n + 1] = state /\ profiles' = state
      /\ UNCHANGED <<deploymentBlock, reading, cached>>
  BY <1>0 DEF BoardInv, BoardTypes, emit
<1>2. describes(n, profiles)
  BY <1>0 DEF BoardInv
<1>3. describes(n + 1, state)'
  <2> SUFFICES ASSUME NEW p \in Players
               PROVE  /\ lastSaid(n + 1, p, "PlayerHandleSet", NoHandle, state.playerHandle[p])'
                      /\ lastSaid(n + 1, p, "PlayerProfileVisibilityUpdated", FALSE, state.hidden[p])'
                      /\ state.scored[p] = daysSaid(n + 1, p, "LockScoreAwarded")'
                      /\ state.finished[p] = daysSaid(n + 1, p, "CompletionVerified")'
    BY DEF describes
  <2>1. lastSaid(n + 1, p, "PlayerHandleSet", NoHandle, state.playerHandle[p])'
    BY <1>1, <1>2, OneMoreSaid DEF describes
  <2>2. lastSaid(n + 1, p, "PlayerProfileVisibilityUpdated", FALSE, state.hidden[p])'
    BY <1>1, <1>2, OneMoreSaid DEF describes
  <2>3. state.scored[p] = daysSaid(n + 1, p, "LockScoreAwarded")'
    <3>1. daysSaid(n + 1, p, "LockScoreAwarded")'
            = daysSaid(n, p, "LockScoreAwarded")
                  \cup (IF of(e, p, "LockScoreAwarded") THEN {e.value} ELSE {})
      BY <1>1, OneMoreDay
    <3>2. profiles.scored[p] = daysSaid(n, p, "LockScoreAwarded")
      BY <1>2 DEF describes
    <3> QED BY <3>1, <3>2
  <2>4. state.finished[p] = daysSaid(n + 1, p, "CompletionVerified")'
    <3>1. daysSaid(n + 1, p, "CompletionVerified")'
            = daysSaid(n, p, "CompletionVerified")
                  \cup (IF of(e, p, "CompletionVerified") THEN {e.value} ELSE {})
      BY <1>1, OneMoreDay
    <3>2. profiles.finished[p] = daysSaid(n, p, "CompletionVerified")
      BY <1>2 DEF describes
    <3> QED BY <3>1, <3>2
  <2> QED BY <2>1, <2>2, <2>3, <2>4
<1>4. ASSUME NEW m \in 1..Len(log')
      PROVE  (describes(m, past[m]) /\ consistent(past[m]))'
  <2>1. CASE m = n + 1
    <3>1. (describes(m, past[m]) /\ consistent(past[m]))'
            <=> describes(n + 1, state)' /\ consistent(state)
      BY <1>1, <2>1 DEF describes, consistent
    <3> QED BY <1>3, <3>1
  <2>2. CASE m # n + 1
    <3>1. m \in 1..n /\ m \in Nat /\ past'[m] = past[m] /\ \A i \in 1..m : log'[i] = log[i]
      BY <1>1, <2>2
    <3>2. PICK s : s = past[m] /\ describes(m, s) /\ consistent(s)
      BY <1>0, <3>1 DEF BoardInv
    <3>3. describes(m, s)'
      BY <3>1, <3>2, DescriptionStays
    <3>4. past'[m] = s
      BY <3>1, <3>2
    <3>5. consistent(past[m])'
      BY <3>2, <3>4 DEF consistent
    <3>6. describes(m, past[m])'
      BY <3>3, <3>4 DEF describes
    <3> QED BY <3>5, <3>6
  <2> QED BY <2>1, <2>2
<1>5. describes(Len(log), profiles)' /\ consistent(profiles)'
  BY <1>1, <1>3 DEF describes, consistent
<1>6. ASSUME NEW r \in Reading, readingHolds(r)
      PROVE  r.latest \in 1..Len(log') /\ \A f \in Escrows : isRead(r.loads[f], f, r.latest)'
  <2>1. r.latest \in 1..n /\ r.latest \in 1..Len(log')
    BY <1>0, <1>1, <1>6 DEF readingHolds
  <2>2. ASSUME NEW f \in Escrows PROVE isRead(r.loads[f], f, r.latest)'
    <3>1. PICK load \in Loading, first \in Nat \ {0}, m \in 1..n :
             load = r.loads[f] /\ first = deploymentBlock[f] /\ m = r.latest
      BY <2>1 DEF Reading, BoardInv, BoardTypes
    <3>2. isRead(load, f, m)
      BY <1>6, <3>1 DEF readingHolds
    <3>3. /\ load.from >= first /\ load.from \in Nat /\ Len(load.events) \in Nat
          /\ Len(load.events) = IF first <= m THEN (IF load.from <= m THEN load.from - 1 ELSE m) - first + 1 ELSE 0
          /\ \A i \in 1..Len(load.events) : load.events[i] = log[first + i - 1]
      BY <3>1, <3>2 DEF isRead, Loading
    <3>4. \A i \in 1..Len(load.events) : first + i - 1 \in 1..n
      <4>1. m \in 1..n /\ n \in Nat /\ first \in Nat \ {0}
        BY <1>1, <3>1
      <4>2. CASE first <= m
        <5>1. CASE load.from <= m
          <6>1. Len(load.events) = (load.from - 1) - first + 1
            BY <3>3, <4>2, <5>1
          <6> QED BY <3>3, <4>1, <5>1, <6>1
        <5>2. CASE ~(load.from <= m)
          <6>1. Len(load.events) = m - first + 1
            BY <3>3, <4>2, <5>2
          <6> QED BY <4>1, <6>1
        <5> QED BY <5>1, <5>2
      <4>3. CASE ~(first <= m)
        <5>1. Len(load.events) = 0
          BY <3>3, <4>3
        <5> QED BY <5>1
      <4> QED BY <4>2, <4>3
    <3>5. \A i \in 1..Len(load.events) : load.events[i] = log'[first + i - 1]
      BY <1>1, <3>3, <3>4
    <3>6. isRead(load, f, m)'
      BY <1>1, <3>1, <3>3, <3>5 DEF isRead
    <3> QED BY <1>1, <3>1, <3>6 DEF isRead
  <2> QED BY <2>1, <2>2
<1>7. reading' # NotReading => readingHolds(reading)'
  <2>1. reading' = reading /\ reading \in Reading
    BY <1>1 DEF BoardInv, BoardTypes
  <2>2. SUFFICES ASSUME reading # NotReading PROVE readingHolds(reading)'
    BY <2>1
  <2>3. PICK r \in Reading : r = reading /\ readingHolds(r)
    BY <2>1, <2>2 DEF BoardInv
  <2>4. reading' = r
    BY <2>1, <2>3
  <2>5. r.latest \in 1..Len(log') /\ \A f \in Escrows : isRead(r.loads[f], f, r.latest)'
    BY <1>6, <2>3
  <2> QED BY <2>4, <2>5 DEF readingHolds, isRead
<1>8. cached' # NotReading => readingHolds(cached)' /\ \A f \in Escrows : cached'.loads[f].from > cached'.latest
  <2>1. cached' = cached /\ cached \in Reading
    BY <1>1 DEF BoardInv, BoardTypes
  <2>2. SUFFICES ASSUME cached # NotReading
                 PROVE  readingHolds(cached)' /\ \A f \in Escrows : cached.loads[f].from > cached.latest
    BY <2>1
  <2>3. PICK r \in Reading : r = cached /\ readingHolds(r) /\ \A f \in Escrows : r.loads[f].from > r.latest
    BY <2>1, <2>2 DEF BoardInv
  <2>4. cached' = r
    BY <2>1, <2>3
  <2>5. r.latest \in 1..Len(log') /\ \A f \in Escrows : isRead(r.loads[f], f, r.latest)'
    BY <1>6, <2>3
  <2> QED BY <2>3, <2>4, <2>5 DEF readingHolds, isRead
<1>9. completionsHold'
  <2>1. deploymentBlock' = deploymentBlock /\ \A i \in 1..n : log'[i] = log[i] /\ log'[n + 1] = e
    BY <1>1
  <2>2. \A i \in 1..(n + 1) : i \in 1..n \/ i = n + 1
    BY <1>1
  <2> QED BY <1>0, <1>1, <2>1, <2>2 DEF BoardInv, completionsHold, afterDeployment
<1>10. BoardTypes'
  BY <1>1 DEF BoardInv, BoardTypes
<1> QED BY <1>1, <1>4, <1>5, <1>7, <1>8, <1>9, <1>10 DEF BoardInv

LEMMA Concatenated ==
  ASSUME NEW S, NEW a \in Seq(S), NEW b \in Seq(S)
  PROVE  /\ a \o b \in Seq(S) /\ Len(a \o b) = Len(a) + Len(b)
         /\ \A i \in 1..(Len(a) + Len(b)) :
                (a \o b)[i] = IF i <= Len(a) THEN a[i] ELSE b[i - Len(a)]
OBVIOUS

\* A sequence repeats another from its element `first` on.
repeats(part, whole, first) == \A i \in 1..Len(part) : part[i] = whole[first + i - 1]

\* A stretch of s read after what was read of it from `first` on.
LEMMA StretchRead ==
  ASSUME NEW S, NEW s \in Seq(S), NEW first \in Nat \ {0}, NEW from \in Nat, NEW to \in Nat, NEW had \in Seq(S),
         first <= from, from <= to, to <= Len(s),
         Len(had) = from - first, repeats(had, s, first)
  PROVE  /\ had \o SubSeq(s, from, to) \in Seq(S)
         /\ Len(had \o SubSeq(s, from, to)) = to - first + 1
         /\ repeats(had \o SubSeq(s, from, to), s, first)
<1> DEFINE piece == SubSeq(s, from, to)
<1>1. /\ piece \in Seq(S) /\ Len(piece) = to - from + 1
      /\ \A i \in 1..Len(piece) : piece[i] = s[from + i - 1]
  OBVIOUS
<1> HIDE DEF piece
<1>2. /\ had \o piece \in Seq(S) /\ Len(had \o piece) = Len(had) + Len(piece)
      /\ \A i \in 1..(Len(had) + Len(piece)) :
             (had \o piece)[i] = IF i <= Len(had) THEN had[i] ELSE piece[i - Len(had)]
  BY <1>1, Concatenated
<1>3. Len(had) + Len(piece) = to - first + 1
  BY <1>1
<1>4. ASSUME NEW i \in 1..(to - first + 1) PROVE (had \o piece)[i] = s[first + i - 1]
  <2>1. i \in 1..(Len(had) + Len(piece)) /\ i \in Nat
    BY <1>3
  <2>2. CASE i <= Len(had)
    <3>1. i \in 1..Len(had)
      BY <2>1, <2>2
    <3> QED BY <1>2, <2>1, <2>2, <3>1 DEF repeats
  <2>3. CASE ~(i <= Len(had))
    <3>1. i - Len(had) \in 1..Len(piece) /\ from + (i - Len(had)) - 1 = first + i - 1
      BY <1>1, <2>1, <2>3
    <3>2. (had \o piece)[i] = piece[i - Len(had)]
      BY <1>2, <2>1, <2>3
    <3> QED BY <1>1, <3>1, <3>2
  <2> QED BY <2>2, <2>3
<1>5. \A i \in 1..Len(had \o piece) : (had \o piece)[i] = s[first + i - 1]
  BY <1>2, <1>3, <1>4
<1> QED BY <1>2, <1>3, <1>5 DEF piece, repeats

(* One more stretch of blocks read for one escrow.                         *)
LEMMA BlocksRead ==
  ASSUME BoardInv, NEW e \in Escrows, NEW to \in Nat, NEW next \in Nat, unread(e), readTo(e, to, next),
         to \in reading.loads[e].from..reading.latest,
         to = IF next <= reading.latest THEN next - 1 ELSE reading.latest
  PROVE  reading' \in Reading /\ readingHolds(reading')
<1>1. PICK n \in Nat, first \in Nat \ {0}, from \in Nat, had \in Seq(Event) :
         /\ n = reading.latest /\ first = deploymentBlock[e]
         /\ from = reading.loads[e].from /\ had = reading.loads[e].events
  BY DEF BoardInv, BoardTypes, Reading, Loading
<1>2. /\ reading # NotReading /\ from <= n /\ n \in 1..Len(log) /\ to \in from..n
      /\ log \in Seq(Event) /\ Len(log) \in Nat /\ readingHolds(reading)
  BY <1>1 DEF unread, BoardInv, BoardTypes, readingHolds
<1>3. /\ from >= first /\ Len(had) = from - first
      /\ \A i \in 1..Len(had) : had[i] = log[first + i - 1]
  <2>1. isRead(reading.loads[e], e, n)
    BY <1>1, <1>2 DEF readingHolds
  <2>2. /\ from >= first
        /\ Len(had) = IF first <= n THEN (IF from <= n THEN from - 1 ELSE n) - first + 1 ELSE 0
        /\ \A i \in 1..Len(had) : had[i] = log[first + i - 1]
    BY <1>1, <2>1 DEF isRead
  <2>3. first <= n /\ from <= n
    BY <1>1, <1>2, <2>2
  <2>4. Len(had) = (from - 1) - first + 1
    BY <2>2, <2>3
  <2>5. (from - 1) - first + 1 = from - first
    BY <1>1
  <2> QED BY <2>2, <2>4, <2>5
<1> DEFINE read == had \o SubSeq(log, from, to)
<1>4. /\ read \in Seq(Event) /\ Len(read) = to - first + 1
      /\ repeats(read, log, first)
  <2>1. first <= from /\ from <= to /\ to <= Len(log)
    BY <1>1, <1>2, <1>3
  <2>2. /\ log \in Seq(Event) /\ had \in Seq(Event) /\ first \in Nat \ {0} /\ from \in Nat /\ to \in Nat
        /\ Len(had) = from - first /\ repeats(had, log, first)
    BY <1>1, <1>2, <1>3 DEF repeats
  <2> QED BY ONLY <2>1, <2>2, StretchRead
<1>5. reading' = [reading EXCEPT !.loads = [reading.loads EXCEPT ![e] = [from |-> next, events |-> read]]]
      /\ UNCHANGED <<deploymentBlock, log>>
  BY <1>1 DEF readTo
<1> HIDE DEF read
<1>6. PICK load \in Loading : load = [from |-> next, events |-> read] /\ load.from = next /\ load.events = read
  <2> DEFINE load == [from |-> next, events |-> read]
  <2>1. load \in Loading /\ load.from = next /\ load.events = read
    BY <1>4 DEF Loading
  <2> QED BY <2>1
<1>7. isRead(load, e, n)
  <2>1. first <= n /\ (IF next <= n THEN next - 1 ELSE n) = to /\ next >= first
    BY <1>1, <1>2, <1>3
  <2> QED BY <1>1, <1>4, <1>6, <2>1 DEF isRead, repeats
<1>8. /\ reading' \in Reading /\ reading'.latest = n
      /\ \A f \in Escrows : reading'.loads[f] = IF f = e THEN load ELSE reading.loads[f]
  BY <1>1, <1>5, <1>6 DEF BoardInv, BoardTypes, Reading
<1> QED BY <1>1, <1>2, <1>7, <1>8 DEF readingHolds

LEMMA BoardInvIsInductive ==
  ASSUME BoardInv, [BoardNext]_boardVars
  PROVE  BoardInv'
<1>0. /\ BoardTypes /\ consistent(profiles) /\ profiles \in Profiling
      /\ PageBlocks \in Nat \ {0} /\ NoHandle \notin Handles /\ NoOne \notin Players
      /\ Len(log) \in Nat
  BY BoardAssumption DEF BoardInv, BoardTypes
\* Reading changes nothing of what is read.
<1>1. ASSUME UNCHANGED <<deploymentBlock, log, profiles, past>>, reading' \in Reading, cached' \in Reading,
             reading' # NotReading => readingHolds(reading'),
             cached' # NotReading =>
                 readingHolds(cached') /\ \A e \in Escrows : cached'.loads[e].from > cached'.latest
      PROVE  BoardInv'
  <2>1. BoardTypes' /\ completionsHold'
    BY <1>0, <1>1 DEF BoardTypes, BoardInv, completionsHold
  <2>2. /\ reading' # NotReading => readingHolds(reading)'
        /\ cached' # NotReading => readingHolds(cached)'
    BY <1>1 DEF readingHolds, isRead
  <2>3. describes(Len(log), profiles)' /\ consistent(profiles)'
    <3>1. PICK n \in Nat : n = Len(log)
      BY <1>0
    <3>2. PICK s : s = profiles /\ describes(n, s)
      BY <3>1 DEF BoardInv
    <3>3. describes(n, s)'
      BY <1>1, <3>2, DescriptionStays
    <3>4. Len(log') = n /\ profiles' = s
      BY <1>1, <3>1, <3>2
    <3>5. describes(Len(log), profiles)'
      BY <3>3, <3>4 DEF describes
    <3> QED BY <1>0, <1>1, <3>5 DEF consistent
  <2>4. \A n \in 1..Len(log) : describes(n, past[n])' /\ consistent(past[n])'
    BY <1>1 DEF BoardInv, describes, lastSaid, daysSaid, consistent
  <2> QED BY <1>1, <2>1, <2>2, <2>3, <2>4 DEF BoardInv
<1>2. NotReading \in Reading /\ NotReading.latest = 0
  <2>1. [from |-> 0, events |-> <<>>] \in Loading
    BY DEF Loading
  <2> QED BY <2>1 DEF NotReading, Reading
<1>3. ASSUME NEW p \in Players, NEW h \in Handles, setPlayerHandle(p, h) PROVE BoardInv'
  <2> DEFINE e == [kind |-> "PlayerHandleSet", player |-> p, value |-> h]
             owner == [released(p) EXCEPT ![h] = p]
             state == [profiles EXCEPT !.playerHandle[p] = h, !.handleOwner = owner]
  <2>1. /\ profiles.handleOwner[h] \in {NoOne, p} /\ profiles.playerHandle[p] # h /\ emit(e, state)
    BY <1>3 DEF setPlayerHandle, freeHandle
  <2>2. e \in Event /\ e.value = h /\ e.player = p /\ e.kind = "PlayerHandleSet"
    BY DEF Event, Kinds
  <2>3. /\ owner \in [Handles -> Players \cup {NoOne}]
        /\ \A g \in Handles : owner[g] = IF g = h THEN p ELSE IF g = profiles.playerHandle[p] THEN NoOne
                                         ELSE profiles.handleOwner[g]
    BY <1>0 DEF released, Profiling
  <2> HIDE DEF owner, e
  <2>4. /\ state \in Profiling /\ state.handleOwner = owner
        /\ state.playerHandle = [profiles.playerHandle EXCEPT ![p] = h]
        /\ state.hidden = profiles.hidden /\ state.scored = profiles.scored
        /\ state.finished = profiles.finished
    BY <1>0, <2>3 DEF Profiling
  <2> HIDE DEF state
  <2>5. \A q \in Players : state.playerHandle[q] = IF q = p THEN h ELSE profiles.playerHandle[q]
    BY <1>0, <2>4 DEF Profiling
  <2>6. consistent(state)
    BY <1>0, <2>1, <2>3, <2>4, <2>5 DEF consistent
  <2>12. afterDeployment(e)
    BY <2>2 DEF afterDeployment
  <2> QED BY <2>1, <2>2, <2>4, <2>5, <2>6, <2>12, EventKeepsInv DEF of
<1>4. ASSUME NEW p \in Players, clearPlayerHandle(p) PROVE BoardInv'
  <2> DEFINE e == [kind |-> "PlayerHandleSet", player |-> p, value |-> NoHandle]
             owner == released(p)
             state == [profiles EXCEPT !.playerHandle[p] = NoHandle, !.handleOwner = owner]
  <2>1. profiles.playerHandle[p] # NoHandle /\ emit(e, state)
    BY <1>4 DEF clearPlayerHandle
  <2>2. e \in Event /\ e.value = NoHandle /\ e.player = p /\ e.kind = "PlayerHandleSet"
    BY DEF Event, Kinds
  <2>3. /\ owner \in [Handles -> Players \cup {NoOne}]
        /\ \A g \in Handles : owner[g] = IF g = profiles.playerHandle[p] THEN NoOne
                                         ELSE profiles.handleOwner[g]
    BY <1>0 DEF released, Profiling
  <2> HIDE DEF owner, e
  <2>4. /\ state \in Profiling /\ state.handleOwner = owner
        /\ state.playerHandle = [profiles.playerHandle EXCEPT ![p] = NoHandle]
        /\ state.hidden = profiles.hidden /\ state.scored = profiles.scored
        /\ state.finished = profiles.finished
    BY <1>0, <2>3 DEF Profiling
  <2> HIDE DEF state
  <2>5. \A q \in Players : state.playerHandle[q] = IF q = p THEN NoHandle ELSE profiles.playerHandle[q]
    BY <1>0, <2>4 DEF Profiling
  <2>6. consistent(state)
    BY <1>0, <2>1, <2>3, <2>4, <2>5 DEF consistent
  <2>12. afterDeployment(e)
    BY <2>2 DEF afterDeployment
  <2> QED BY <2>1, <2>2, <2>4, <2>5, <2>6, <2>12, EventKeepsInv DEF of
<1>5. ASSUME NEW p \in Players, NEW hidden \in BOOLEAN, setPlayerProfileHidden(p, hidden) PROVE BoardInv'
  <2> DEFINE e == [kind |-> "PlayerProfileVisibilityUpdated", player |-> p, value |-> hidden]
             state == [profiles EXCEPT !.hidden[p] = hidden]
  <2>1. emit(e, state)
    BY <1>5 DEF setPlayerProfileHidden
  <2>2. e \in Event /\ e.value = hidden /\ e.player = p /\ e.kind = "PlayerProfileVisibilityUpdated"
    BY DEF Event, Kinds
  <2> HIDE DEF e
  <2>4. /\ state \in Profiling /\ state.handleOwner = profiles.handleOwner
        /\ state.hidden = [profiles.hidden EXCEPT ![p] = hidden]
        /\ state.playerHandle = profiles.playerHandle /\ state.scored = profiles.scored
        /\ state.finished = profiles.finished
    BY <1>0 DEF Profiling
  <2> HIDE DEF state
  <2>5. \A q \in Players : state.hidden[q] = IF q = p THEN hidden ELSE profiles.hidden[q]
    BY <1>0, <2>4 DEF Profiling
  <2>6. consistent(state)
    BY <1>0, <2>4 DEF consistent
  <2>7. \A q \in Players :
            /\ ~of(e, q, "PlayerHandleSet") /\ ~of(e, q, "LockScoreAwarded") /\ ~of(e, q, "CompletionVerified")
            /\ of(e, q, "PlayerProfileVisibilityUpdated") <=> q = p
    BY <2>2 DEF of
  <2>12. afterDeployment(e)
    BY <2>2 DEF afterDeployment
  <2> QED BY <2>1, <2>2, <2>4, <2>5, <2>6, <2>7, <2>12, EventKeepsInv
<1>6. ASSUME NEW p \in Players, NEW d \in ScoreDays, LockScoreAwarded(p, d) PROVE BoardInv'
  <2> DEFINE e == [kind |-> "LockScoreAwarded", player |-> p, value |-> d]
             state == [profiles EXCEPT !.scored[p] = @ \cup {d}]
  <2>1. emit(e, state)
    BY <1>6 DEF LockScoreAwarded
  <2>2. e \in Event /\ e.value = d /\ e.player = p /\ e.kind = "LockScoreAwarded"
    BY DEF Event, Kinds
  <2> HIDE DEF e
  <2>4. /\ state \in Profiling /\ state.handleOwner = profiles.handleOwner
        /\ state.scored = [profiles.scored EXCEPT ![p] = profiles.scored[p] \cup {d}]
        /\ state.playerHandle = profiles.playerHandle /\ state.hidden = profiles.hidden
        /\ state.finished = profiles.finished
    BY <1>0 DEF Profiling
  <2> HIDE DEF state
  <2>5. \A q \in Players : state.scored[q] = profiles.scored[q] \cup (IF q = p THEN {d} ELSE {})
    BY <1>0, <2>4 DEF Profiling
  <2>6. consistent(state)
    BY <1>0, <2>4 DEF consistent
  <2>7. \A q \in Players :
            /\ ~of(e, q, "PlayerHandleSet") /\ ~of(e, q, "PlayerProfileVisibilityUpdated")
            /\ ~of(e, q, "CompletionVerified") /\ (of(e, q, "LockScoreAwarded") <=> q = p)
    BY <2>2 DEF of
  <2>8. \A q \in Players :
            state.scored[q] = profiles.scored[q] \cup (IF of(e, q, "LockScoreAwarded") THEN {e.value} ELSE {})
    BY <2>2, <2>5, <2>7
  <2>9. \A q \in Players :
            state.finished[q] = profiles.finished[q] \cup (IF of(e, q, "CompletionVerified") THEN {e.value} ELSE {})
    BY <2>4, <2>7
  <2> HIDE DEF of
  <2>10. \A q \in Players :
            /\ state.playerHandle[q] = IF of(e, q, "PlayerHandleSet") THEN e.value
                                       ELSE profiles.playerHandle[q]
            /\ state.hidden[q] = IF of(e, q, "PlayerProfileVisibilityUpdated") THEN e.value
                                 ELSE profiles.hidden[q]
    BY <2>4, <2>7
  <2>11. state \in Profiling
    BY <2>4
  <2>12. afterDeployment(e)
    BY <2>2 DEF afterDeployment
  <2> QED BY <2>1, <2>2, <2>6, <2>8, <2>9, <2>10, <2>11, <2>12, EventKeepsInv
<1>7. ASSUME NEW p \in Players, NEW d \in ScoreDays, CompletionVerified(p, d) PROVE BoardInv'
  <2> DEFINE e == [kind |-> "CompletionVerified", player |-> p, value |-> d]
             state == [profiles EXCEPT !.finished[p] = @ \cup {d}]
  <2>1. emit(e, state)
    BY <1>7 DEF CompletionVerified
  <2>2. e \in Event /\ e.value = d /\ e.player = p /\ e.kind = "CompletionVerified"
    BY DEF Event, Kinds
  <2> HIDE DEF e
  <2>4. /\ state \in Profiling /\ state.handleOwner = profiles.handleOwner
        /\ state.finished = [profiles.finished EXCEPT ![p] = profiles.finished[p] \cup {d}]
        /\ state.playerHandle = profiles.playerHandle /\ state.hidden = profiles.hidden
        /\ state.scored = profiles.scored
    BY <1>0 DEF Profiling
  <2> HIDE DEF state
  <2>5. \A q \in Players : state.finished[q] = profiles.finished[q] \cup (IF q = p THEN {d} ELSE {})
    BY <1>0, <2>4 DEF Profiling
  <2>6. consistent(state)
    BY <1>0, <2>4 DEF consistent
  <2>12. afterDeployment(e)
    BY <1>7, <2>2 DEF CompletionVerified, afterDeployment
  <2> QED BY <2>1, <2>2, <2>4, <2>5, <2>6, <2>12, EventKeepsInv DEF of
<1>8. CASE loadLeaderboard
  <2> DEFINE start == [e \in Escrows |-> [from |-> deploymentBlock[e], events |-> <<>>]]
  <2>1. reading' = [latest |-> Len(log), loads |-> start] /\ log # <<>>
        /\ UNCHANGED <<deploymentBlock, log, profiles, past, cached>>
    BY <1>8 DEF loadLeaderboard
  <2>2. Len(log) \in 1..Len(log) /\ <<>> \in Seq(Event) /\ Len(log) > 0
    BY <1>0, <2>1 DEF BoardTypes
  <2>3. \A e \in Escrows : start[e] \in Loading /\ start[e].from = deploymentBlock[e] /\ start[e].events = <<>>
    BY <1>0, <2>2 DEF Loading, BoardTypes
  <2>4. start \in [Escrows -> Loading]
    BY <2>3
  <2> HIDE DEF start
  <2>5. reading' \in Reading /\ reading'.latest = Len(log) /\ reading'.loads = start
    BY <1>0, <2>1, <2>4 DEF Reading
  <2>6. \A e \in Escrows : isRead(start[e], e, Len(log))
    BY <1>0, <2>3 DEF isRead, BoardTypes
  <2>7. readingHolds(reading')
    BY <2>2, <2>5, <2>6 DEF readingHolds
  <2> QED BY <1>0, <1>1, <2>1, <2>5, <2>7 DEF BoardInv, BoardTypes
<1>9. ASSUME NEW e \in Escrows, readAllEvents(e) PROVE BoardInv'
  <2>1. unread(e) /\ readTo(e, reading.latest, reading.latest + 1)
    BY <1>9 DEF readAllEvents
  <2>2. reading.latest \in Nat /\ reading.loads[e].from \in Nat
    BY <1>0 DEF BoardTypes, Reading, Loading
  <2>3. reading' \in Reading /\ readingHolds(reading')
    BY <2>1, <2>2, BlocksRead DEF unread
  <2> QED BY <1>0, <1>1, <2>1, <2>3 DEF readTo, BoardInv, BoardTypes
<1>10. ASSUME NEW e \in Escrows, readEventRange(e) PROVE BoardInv'
  <2> DEFINE from == reading.loads[e].from
             end == pageEnd(from, reading.latest)
  <2>1. unread(e) /\ readTo(e, end, from + PageBlocks)
    BY <1>10 DEF readEventRange
  <2>2. reading.latest \in Nat /\ from \in Nat
    BY <1>0 DEF BoardTypes, Reading, Loading
  <2>3. /\ from <= reading.latest /\ end \in from..reading.latest /\ from + PageBlocks \in Nat
        /\ end = IF from + PageBlocks <= reading.latest THEN (from + PageBlocks) - 1 ELSE reading.latest
        /\ end \in Nat
    BY <1>0, <2>1, <2>2 DEF pageEnd, unread
  <2> HIDE DEF end
  <2>4. reading' \in Reading /\ readingHolds(reading')
    BY <2>1, <2>3, BlocksRead
  <2> QED BY <1>0, <1>1, <2>1, <2>4 DEF readTo, BoardInv, BoardTypes
<1>11. CASE BoardRead
  <2>1. /\ cached' = reading /\ reading' = NotReading /\ reading # NotReading
        /\ UNCHANGED <<deploymentBlock, log, profiles, past>>
        /\ \A e \in Escrows : ~(reading.loads[e].from <= reading.latest)
    BY <1>11 DEF BoardRead, unread
  <2>2. \A e \in Escrows : reading.loads[e].from > reading.latest
    BY <1>0, <2>1 DEF BoardTypes, Reading, Loading
  <2> QED BY <1>0, <1>1, <1>2, <2>1, <2>2 DEF BoardInv, BoardTypes
<1>12. CASE ReadFails \/ CacheExpires \/ UNCHANGED boardVars
  BY <1>0, <1>1, <1>2, <1>12 DEF ReadFails, CacheExpires, boardVars, BoardInv, BoardTypes
<1> QED BY <1>3, <1>4, <1>5, <1>6, <1>7, <1>8, <1>9, <1>10, <1>11, <1>12 DEF BoardNext

-----------------------------------------------------------------------------
LEMMA MaxIsLast ==
  ASSUME NEW S, NEW i \in S, i \in Int, \A j \in S : i >= j /\ j \in Int
  PROVE  Max(S) = i
<1>1. \A x \in S : (\A y \in S : x >= y) <=> x = i
  OBVIOUS
<1>2. \E x \in S : \A y \in S : x >= y
  OBVIOUS
<1>3. Max(S) \in S /\ \A y \in S : Max(S) >= y
  BY <1>2, Zenon DEF Max
<1> QED BY <1>1, <1>3

(* The events of a kind that were read are those of the log.               *)
LEMMA ReadIsSaid ==
  ASSUME BoardInv, NEW n \in Nat, n = cached.latest, cached # NotReading,
         NEW kind \in Kinds
  PROVE  \E shift \in Nat :
            /\ kind # "CompletionVerified" => shift = 0
            /\ Len(eventsRead(kind)) \in Nat
            /\ \A i \in 1..Len(eventsRead(kind)) : eventsRead(kind)[i] = log[shift + i] /\ shift + i \in 1..n
            /\ \A j \in 1..n : log[j].kind = kind => j - shift \in 1..Len(eventsRead(kind))
<1> DEFINE e == IF kind = "CompletionVerified" THEN "duolingo" ELSE "lockIn"
<1>1. e \in Escrows /\ eventsRead(kind) = cached.loads[e].events
  BY DEF Escrows, eventsRead
<1>2. PICK load \in Loading, first \in Nat \ {0} : load = cached.loads[e] /\ first = deploymentBlock[e]
  BY <1>1 DEF BoardInv, BoardTypes, Reading
<1>3. kind # "CompletionVerified" => first = 1
  BY <1>2 DEF BoardInv, BoardTypes
<1>4. isRead(load, e, n) /\ load.from > n /\ n \in 1..Len(log)
  BY <1>1, <1>2 DEF BoardInv, readingHolds
<1>5. /\ Len(load.events) = IF first <= n THEN n - first + 1 ELSE 0
      /\ \A i \in 1..Len(load.events) : load.events[i] = log[first + i - 1]
  <2>1. ~(load.from <= n)
    BY <1>2, <1>4 DEF Loading
  <2> QED BY <1>2, <1>4, <2>1 DEF isRead
<1>6. \A j \in 1..n : log[j].kind = kind => j >= first
  <2>1. CASE kind = "CompletionVerified"
    BY <1>2, <1>4, <2>1 DEF BoardInv, BoardTypes, completionsHold
  <2>2. CASE kind # "CompletionVerified"
    BY <1>3, <2>2
  <2> QED BY <2>1, <2>2
<1>7. PICK shift \in Nat : first = shift + 1
  <2>1. first - 1 \in Nat /\ first = (first - 1) + 1
    BY <1>2
  <2> QED BY <2>1
<1> HIDE DEF e
<1>8. \A i \in 1..Len(load.events) : load.events[i] = log[shift + i] /\ shift + i \in 1..n
  <2> TAKE i \in 1..Len(load.events)
  <2>1. i \in Nat /\ first + i - 1 = shift + i /\ shift + i \in 1..n
    BY <1>5, <1>7
  <2> QED BY <1>5, <2>1
<1>9. \A j \in 1..n : log[j].kind = kind => j - shift \in 1..Len(load.events)
  BY <1>5, <1>6, <1>7
<1>10. Len(load.events) \in Nat
  BY <1>5, <1>7
<1> QED BY <1>1, <1>2, <1>3, <1>7, <1>8, <1>9, <1>10

LEMMA LatestIsLastSaid ==
  ASSUME BoardInv, NEW n \in Nat, n = cached.latest, cached # NotReading,
         NEW p, NEW kind \in Kinds \ {"CompletionVerified"}, NEW default, NEW v, lastSaid(n, p, kind, default, v)
  PROVE  latest(p, kind, default) = v
<1>1. /\ \A i \in 1..Len(eventsRead(kind)) : eventsRead(kind)[i] = log[i] /\ i \in 1..n
      /\ \A j \in 1..n : log[j].kind = kind => j \in 1..Len(eventsRead(kind))
  <2>1. PICK shift \in Nat :
            /\ shift = 0
            /\ Len(eventsRead(kind)) \in Nat
            /\ \A i \in 1..Len(eventsRead(kind)) : eventsRead(kind)[i] = log[shift + i] /\ shift + i \in 1..n
            /\ \A j \in 1..n : log[j].kind = kind => j - shift \in 1..Len(eventsRead(kind))
    BY ReadIsSaid
  <2>2. \A i \in Int : shift + i = i /\ i - shift = i
    BY <2>1
  <2>3. \A i \in 1..Len(eventsRead(kind)) : i \in Int
    BY <2>1
  <2> QED BY <2>1, <2>2, <2>3
<1>2. \A i : i \in eventsOf(p, kind) <=> i \in 1..n /\ of(log[i], p, kind)
  BY <1>1 DEF eventsOf, of
<1>3. CASE v = default /\ \A i \in 1..n : ~of(log[i], p, kind)
  <2>1. eventsOf(p, kind) = {}
    BY <1>2, <1>3
  <2> QED BY <1>3, <2>1 DEF latest
<1>4. CASE \E i \in 1..n : /\ of(log[i], p, kind) /\ v = log[i].value
                           /\ \A j \in 1..n : j > i => ~of(log[j], p, kind)
  <2>1. PICK i \in 1..n : /\ of(log[i], p, kind) /\ v = log[i].value
                          /\ \A j \in 1..n : j > i => ~of(log[j], p, kind)
    BY <1>4
  <2>2. i \in eventsOf(p, kind) /\ \A j \in eventsOf(p, kind) : i >= j /\ j \in Int
    BY <1>2, <2>1
  <2>3. Max(eventsOf(p, kind)) = i
    BY <2>1, <2>2, MaxIsLast
  <2>4. eventsRead(kind)[i] = log[i]
    BY <1>1, <2>1 DEF of
  <2> QED BY <2>1, <2>2, <2>3, <2>4 DEF latest
<1> QED BY <1>3, <1>4 DEF lastSaid

LEMMA DaysAreSaid ==
  ASSUME BoardInv, NEW n \in Nat, n = cached.latest, cached # NotReading, NEW p, NEW kind \in Kinds
  PROVE  daysOf(p, kind) = daysSaid(n, p, kind)
<1>1. PICK shift \in Nat :
            /\ Len(eventsRead(kind)) \in Nat
            /\ \A i \in 1..Len(eventsRead(kind)) : eventsRead(kind)[i] = log[shift + i] /\ shift + i \in 1..n
            /\ \A j \in 1..n : log[j].kind = kind => j - shift \in 1..Len(eventsRead(kind))
  BY ReadIsSaid
<1>2. ASSUME NEW d \in daysOf(p, kind) PROVE d \in daysSaid(n, p, kind)
  <2>1. PICK i \in 1..Len(eventsRead(kind)) :
            /\ d = eventsRead(kind)[i].value /\ eventsRead(kind)[i].player = p /\ eventsRead(kind)[i].kind = kind
    BY <1>2 DEF daysOf, eventsOf
  <2>2. shift + i \in 1..n /\ of(log[shift + i], p, kind) /\ d = log[shift + i].value
    BY <1>1, <2>1 DEF of
  <2> QED BY <2>2 DEF daysSaid
<1>3. ASSUME NEW d \in daysSaid(n, p, kind) PROVE d \in daysOf(p, kind)
  <2>1. PICK j \in 1..n : of(log[j], p, kind) /\ d = log[j].value
    BY <1>3 DEF daysSaid
  <2>2. PICK i \in 1..Len(eventsRead(kind)) : i = j - shift
    BY <1>1, <2>1 DEF of
  <2>3. shift + i = j
    BY <1>1, <2>2
  <2>4. eventsRead(kind)[i] = log[j]
    BY <1>1, <2>3
  <2>5. i \in eventsOf(p, kind) /\ d = eventsRead(kind)[i].value
    BY <2>1, <2>4 DEF eventsOf, of
  <2> QED BY <2>5 DEF daysOf
<1> QED BY <1>2, <1>3

LEMMA OverallIsSaid ==
  ASSUME BoardInv, NEW n \in Nat, n = cached.latest, cached # NotReading, NEW p
  PROVE  overallDays(p) = daysSaid(n, p, "LockScoreAwarded") \cup daysSaid(n, p, "CompletionVerified")
BY DaysAreSaid DEF overallDays, Kinds

LEMMA WeekOfDay ==
  ASSUME NEW d \in Nat
  PROVE  utcWeekStartDay <= d /\ d < utcWeekStartDay + 7 <=> (d + 3) \div 7 = (Today + 3) \div 7
<1>1. PICK t \in Nat : t = Today + 3
  BY BoardAssumption
<1>2. PICK q \in Int, r \in Int : t = 7 * q + r /\ 0 <= r /\ r < 7 /\ q = t \div 7 /\ r = t % 7
  <2>1. t = 7 * (t \div 7) + (t % 7) /\ t % 7 \in 0..6 /\ t \div 7 \in Int
    OBVIOUS
  <2> QED BY <2>1
<1>3. PICK a \in Int, b \in Int : d + 3 = 7 * a + b /\ 0 <= b /\ b < 7 /\ a = (d + 3) \div 7
  <2>1. /\ d + 3 = 7 * ((d + 3) \div 7) + ((d + 3) % 7)
        /\ (d + 3) % 7 \in 0..6 /\ (d + 3) \div 7 \in Int
    OBVIOUS
  <2> QED BY <2>1
<1>4. utcWeekStartDay = 7 * q - 3
  BY <1>1, <1>2, BoardAssumption DEF utcWeekStartDay
<1>5. 7 * q - 3 <= d /\ d < 7 * q + 4 <=> a = q
  BY <1>2, <1>3
<1> QED BY <1>1, <1>2, <1>3, <1>4, <1>5

LEMMA BoardInvImpliesMatch ==
  ASSUME BoardInv PROVE BoardMatchesContract
<1> SUFFICES ASSUME cached # NotReading PROVE BoardMatchesContract
  BY DEF BoardMatchesContract
<1>1. PICK n \in Nat : n = cached.latest /\ n \in 1..Len(log)
  BY DEF BoardInv, BoardTypes, Reading, readingHolds
<1>2. PICK was \in Profiling : was = past[n] /\ describes(n, was) /\ consistent(was)
  BY <1>1 DEF BoardInv, BoardTypes
<1>3. ASSUME NEW p \in Players
      PROVE  shownHandle(p) = IF was.hidden[p] THEN NoHandle ELSE was.playerHandle[p]
  <2>0. /\ lastSaid(n, p, "PlayerHandleSet", NoHandle, was.playerHandle[p])
        /\ lastSaid(n, p, "PlayerProfileVisibilityUpdated", FALSE, was.hidden[p])
        /\ n \in Nat
    BY <1>1, <1>2 DEF describes
  <2>1. latest(p, "PlayerHandleSet", NoHandle) = was.playerHandle[p]
    BY <1>1, <2>0, LatestIsLastSaid DEF Kinds
  <2>2. latest(p, "PlayerProfileVisibilityUpdated", FALSE) = was.hidden[p]
    BY <1>1, <2>0, LatestIsLastSaid DEF Kinds
  <2> QED BY <2>1, <2>2 DEF shownHandle
<1>4. ASSUME NEW p \in Players PROVE overallDays(p) = was.scored[p] \cup was.finished[p]
  <2>1. was.scored[p] = daysSaid(n, p, "LockScoreAwarded") /\ was.finished[p] = daysSaid(n, p, "CompletionVerified")
    BY <1>2 DEF describes
  <2>2. n \in Nat /\ n = cached.latest
    BY <1>1
  <2>3. overallDays(p) = daysSaid(n, p, "LockScoreAwarded") \cup daysSaid(n, p, "CompletionVerified")
    BY <2>2, OverallIsSaid
  <2> QED BY <2>1, <2>3
<1>5. \A h \in Handles, p \in Players : was.handleOwner[h] = p <=> was.playerHandle[p] = h
  BY <1>2 DEF consistent
<1>6. ASSUME NEW p \in Players, NEW q \in Players, p # q, shownHandle(p) # NoHandle
      PROVE  shownHandle(p) # shownHandle(q)
  <2>1. was.playerHandle[p] \in Handles \cup {NoHandle}
    BY <1>2 DEF Profiling
  <2>2. shownHandle(p) = was.playerHandle[p] /\ shownHandle(p) \in Handles
    BY <1>3, <1>6, <2>1
  <2>3. shownHandle(q) \in {NoHandle, was.playerHandle[q]}
    BY <1>3
  <2>4. NoHandle \notin Handles
    BY BoardAssumption
  <2> QED BY <1>5, <1>6, <2>2, <2>3, <2>4
<1>7. ASSUME NEW p \in Players
      PROVE  weeklyDays(p) # {} <=>
               \E d \in was.scored[p] \cup was.finished[p] : (d + 3) \div 7 = (Today + 3) \div 7
  <2>1. was.scored[p] \cup was.finished[p] \subseteq Nat
    BY <1>2, BoardAssumption DEF Profiling
  <2>2. weeklyDays(p) = {d \in was.scored[p] \cup was.finished[p] :
                            (d + 3) \div 7 = (Today + 3) \div 7}
    BY <1>4, <2>1, WeekOfDay DEF weeklyDays
  <2> QED BY <2>2
<1> HIDE DEF shownHandle, overallDays, weeklyDays
<1>8. \A p \in Players : lockScore(p) = 10 * Cardinality(was.scored[p] \cup was.finished[p])
  BY <1>4 DEF lockScore
<1>9. past[cached.latest] = was
  BY <1>1, <1>2
<1> QED BY <1>3, <1>5, <1>6, <1>7, <1>8, <1>9 DEF BoardMatchesContract

LEMMA BoardStartsRight == ASSUME BoardInit PROVE BoardInv
<1>1. /\ log = <<>> /\ past = <<>> /\ Len(log) = 0 /\ <<>> \in Seq(Event) /\ <<>> \in Seq(Profiling)
      /\ reading = NotReading /\ cached = NotReading
  BY DEF BoardInit
<1>2. NotReading \in Reading
  <2>1. [from |-> 0, events |-> <<>>] \in Loading
    BY DEF Loading
  <2> QED BY <2>1 DEF NotReading, Reading
<1>3. deploymentBlock \in [Escrows -> Nat \ {0}] /\ deploymentBlock["lockIn"] = 1
  BY BoardAssumption DEF BoardInit, Escrows
<1>4. profiles \in Profiling
  BY DEF BoardInit, Profiling
<1>5. consistent(profiles)
  BY BoardAssumption DEF BoardInit, consistent
<1>6. describes(0, profiles)
  <2>1. \A p, kind, default : lastSaid(0, p, kind, default, default)
    BY DEF lastSaid
  <2>2. \A p, kind : daysSaid(0, p, kind) = {}
    BY DEF daysSaid
  <2>3. \A p \in Players : /\ profiles.playerHandle[p] = NoHandle /\ profiles.hidden[p] = FALSE
                           /\ profiles.scored[p] = {} /\ profiles.finished[p] = {}
    BY DEF BoardInit
  <2> QED BY <2>1, <2>2, <2>3 DEF describes
<1> QED BY <1>1, <1>2, <1>3, <1>4, <1>5, <1>6 DEF BoardInv, BoardTypes, completionsHold

(* However the board was read, in one call or in pages with blocks landing   *)
(* in between, it shows what the contracts held at the one block it was read *)
(* at (app/api/social/leaderboard/route.ts, src/social-score.ts).            *)
THEOREM BoardShowsTheContracts == BoardSpec => []BoardMatchesContract
<1>1. BoardInit => BoardInv
  BY BoardStartsRight
<1>2. BoardInv /\ [BoardNext]_boardVars => BoardInv'
  BY BoardInvIsInductive
<1>3. BoardInv => BoardMatchesContract
  BY BoardInvImpliesMatch
<1> QED BY <1>1, <1>2, <1>3, PTL DEF BoardSpec

-----------------------------------------------------------------------------
(* Release health.                                                         *)

KeptAnswer == [expiresAt : Int, actions : SUBSET Actions]
SwitchRead == [since : Int, everOpen : SUBSET Actions, everPaused : SUBSET Actions]
PagePoll == [step : {"idle", "waiting", "answered"}, asked : Int, actions : SUBSET Actions]

HealthTypes ==
    /\ second \in Int
    /\ flags \subseteq Actions /\ open \subseteq Actions
    /\ cachedHealth \subseteq KeptAnswer
    /\ healthInFlight \subseteq SwitchRead
    /\ polls \in [Polls -> PagePoll]
    /\ health \in [actions : SUBSET Actions, asked : Int]
    /\ openUntil \in [Actions -> Int]

\* All that is meant to be offered or nothing, and each switch open at that moment or later.
offerable(actions, moment) ==
    /\ actions # {} => actions = flags
    /\ \A x \in actions : openUntil[x] >= moment

readHolds(read) ==
    /\ read.since <= second /\ second <= read.since + MaxRead
    /\ \A x \in read.everOpen : openUntil[x] >= read.since

pollHolds(p) ==
    /\ polls[p].step = "waiting" => polls[p].asked <= second
    /\ polls[p].step = "answered" =>
          offerable(polls[p].actions, polls[p].asked - HealthTtl - MaxRead)

(* What was read, kept, answered and shown was open not long before.       *)
HealthInv ==
    /\ HealthTypes
    /\ \A x \in Actions : openUntil[x] <= second /\ (x \in open => openUntil[x] = second)
    /\ \A read \in healthInFlight : readHolds(read)
    /\ \A kept, other \in cachedHealth : kept = other
    /\ \A kept \in cachedHealth : offerable(kept.actions, kept.expiresAt - HealthTtl - MaxRead)
    /\ \A p \in Polls : pollHolds(p)
    /\ offerable(health.actions, health.asked - HealthTtl - MaxRead)

LEMMA OfferStays ==
  ASSUME NEW actions \in SUBSET Actions, NEW moment \in Int, offerable(actions, moment),
         openUntil \in [Actions -> Int], openUntil' \in [Actions -> Int],
         \A x \in Actions : openUntil'[x] >= openUntil[x], flags' = flags
  PROVE  offerable(actions, moment)'
<1>1. ASSUME NEW x \in actions PROVE openUntil'[x] >= moment
  <2>1. PICK a \in Int, b \in Int : a = openUntil[x] /\ b = openUntil'[x]
    OBVIOUS
  <2>2. a >= moment /\ b >= a
    BY <2>1 DEF offerable
  <2> QED BY <2>1, <2>2
<1> QED BY <1>1 DEF offerable

(* The clock and the owner: nothing but the switches' history moves.       *)
LEMMA HistoryGrows ==
  ASSUME HealthInv, second' \in Int, second' >= second,
         openUntil' \in [Actions -> Int], \A x \in Actions : openUntil'[x] >= openUntil[x],
         UNCHANGED <<flags, cachedHealth, polls, health>>
  PROVE  /\ \A kept \in cachedHealth : offerable(kept.actions, kept.expiresAt - HealthTtl - MaxRead)'
         /\ \A p \in Polls : pollHolds(p)'
         /\ offerable(health.actions, health.asked - HealthTtl - MaxRead)'
<1>0. /\ HealthTypes /\ HealthTtl \in Int /\ MaxRead \in Int
      /\ \A p \in Polls : polls[p].actions \subseteq Actions /\ polls[p].asked \in Int
      /\ \A kept \in cachedHealth : kept.actions \subseteq Actions /\ kept.expiresAt \in Int
      /\ health.actions \subseteq Actions /\ health.asked \in Int
  BY HealthAssumption DEF HealthInv, HealthTypes, PagePoll, KeptAnswer
<1>1. ASSUME NEW actions \in SUBSET Actions, NEW moment \in Int, offerable(actions, moment)
      PROVE  offerable(actions, moment)'
  BY <1>0, <1>1, OfferStays DEF HealthTypes
<1>2. ASSUME NEW kept \in cachedHealth
      PROVE  offerable(kept.actions, kept.expiresAt - HealthTtl - MaxRead)'
  <2>1. kept.actions \in SUBSET Actions /\ kept.expiresAt - HealthTtl - MaxRead \in Int
    BY <1>0
  <2>2. offerable(kept.actions, kept.expiresAt - HealthTtl - MaxRead)
    BY DEF HealthInv
  <2> HIDE DEF offerable
  <2> QED BY <1>1, <2>1, <2>2
<1>3. ASSUME NEW p \in Polls PROVE pollHolds(p)'
  <2>1. polls[p].asked - HealthTtl - MaxRead \in Int /\ polls[p].actions \in SUBSET Actions
    BY <1>0
  <2>2. polls[p].step = "answered"
          => offerable(polls[p].actions, polls[p].asked - HealthTtl - MaxRead)'
    BY <1>1, <2>1 DEF HealthInv, pollHolds
  <2>3. polls[p].step = "waiting" => polls[p].asked <= second'
    <3>1. polls[p].step = "waiting" => polls[p].asked <= second
      BY DEF HealthInv, pollHolds
    <3> QED BY <1>0, <3>1 DEF HealthTypes
  <2> QED BY <2>2, <2>3 DEF pollHolds, offerable
<1>4. offerable(health.actions, health.asked - HealthTtl - MaxRead)'
  <2>1. health.actions \in SUBSET Actions /\ health.asked - HealthTtl - MaxRead \in Int
    BY <1>0
  <2>2. offerable(health.actions, health.asked - HealthTtl - MaxRead)
    BY DEF HealthInv
  <2>3. \A a \in SUBSET Actions, m \in Int : offerable(a, m) => offerable(a, m)'
    BY <1>1
  <2>4. PICK a \in SUBSET Actions, m \in Int :
          a = health.actions /\ m = health.asked - HealthTtl - MaxRead /\ offerable(a, m)
    BY <2>1, <2>2
  <2>5. offerable(a, m)'
    BY <2>3, <2>4
  <2> QED BY <2>4, <2>5 DEF offerable
<1> QED BY <1>2, <1>3, <1>4

LEMMA HealthInvIsInductive ==
  ASSUME HealthInv, [HealthNext]_healthVars
  PROVE  HealthInv'
<1>0. /\ HealthTypes /\ HealthTtl \in Nat /\ MaxRead \in Nat
      /\ \A p \in Polls : polls[p] \in PagePoll /\ polls[p].actions \subseteq Actions
                          /\ polls[p].asked \in Int
      /\ \A kept \in cachedHealth : kept.actions \subseteq Actions /\ kept.expiresAt \in Int
      /\ \A read \in healthInFlight : read.everOpen \subseteq Actions /\ read.since \in Int
                                      /\ read.everPaused \subseteq Actions
  BY HealthAssumption DEF HealthInv, HealthTypes, PagePoll, KeptAnswer, SwitchRead
<1>1. ASSUME NEW x \in Actions, Turn(x) PROVE HealthInv'
  <2>1. /\ second' \in Int /\ second' = second /\ openUntil' \in [Actions -> Int]
        /\ openUntil'[x] = second /\ \A y \in Actions : y # x => openUntil'[y] = openUntil[y]
        /\ UNCHANGED <<flags, cachedHealth, polls, health>>
        /\ open' = (open \ {x}) \cup ({x} \ open)
    BY <1>0, <1>1 DEF Turn, HealthTypes
  <2>2. \A y \in Actions : openUntil'[y] >= openUntil[y] /\ openUntil'[y] <= second'
                           /\ (y \in open' => openUntil'[y] = second')
    BY <1>0, <2>1 DEF HealthInv, HealthTypes
  <2>3. ASSUME NEW read \in healthInFlight'
        PROVE  read \in SwitchRead /\ readHolds(read)'
    <3>1. PICK old \in healthInFlight :
            /\ read = [old EXCEPT !.everOpen = @ \cup {x}, !.everPaused = @ \cup {x}]
            /\ readHolds(old)
      BY <1>1 DEF Turn, HealthInv
    <3>2. /\ read.since = old.since /\ read.everOpen = old.everOpen \cup {x} /\ read \in SwitchRead
          /\ old.since \in Int /\ old.everOpen \subseteq Actions
      BY <1>0, <3>1 DEF HealthTypes, SwitchRead
    <3>3. ASSUME NEW y \in read.everOpen PROVE openUntil'[y] >= read.since
      <4>1. CASE y = x
        BY <2>1, <3>1, <3>2, <4>1 DEF readHolds
      <4>2. CASE y # x
        BY <2>1, <3>1, <3>2, <3>3, <4>2 DEF readHolds
      <4> QED BY <4>1, <4>2
    <3> QED BY <2>1, <3>1, <3>2, <3>3 DEF readHolds
  <2>4. HealthTypes'
    BY <1>0, <2>1, <2>3 DEF HealthTypes
  <2> QED BY <1>0, <2>1, <2>2, <2>3, <2>4, HistoryGrows DEF HealthInv, HealthTypes
<1>2. CASE PassSecond
  <2>1. /\ second' = second + 1 /\ second' \in Int
        /\ openUntil' = [x \in Actions |-> IF x \in open THEN second + 1 ELSE openUntil[x]]
        /\ openUntil' \in [Actions -> Int]
        /\ UNCHANGED <<flags, open, cachedHealth, healthInFlight, polls, health>>
    BY <1>0, <1>2 DEF PassSecond, HealthTypes
  <2>2. \A y \in Actions : openUntil'[y] >= openUntil[y] /\ openUntil'[y] <= second'
                           /\ (y \in open' => openUntil'[y] = second')
    BY <1>0, <2>1 DEF HealthInv, HealthTypes
  <2>3. ASSUME NEW read \in healthInFlight PROVE readHolds(read)'
    <3>1. readHolds(read) /\ second < read.since + MaxRead
      BY <1>2 DEF PassSecond, HealthInv
    <3>2. second' <= read.since + MaxRead /\ read.since <= second'
      BY <1>0, <2>1, <3>1 DEF HealthTypes, readHolds
    <3>3. ASSUME NEW y \in read.everOpen PROVE openUntil'[y] >= read.since
      <4>1. y \in Actions /\ openUntil[y] \in Int /\ openUntil'[y] \in Int
        BY <1>0, <2>1 DEF HealthTypes
      <4> QED BY <1>0, <2>2, <3>1, <4>1 DEF readHolds
    <3> QED BY <3>2, <3>3 DEF readHolds
  <2>4. HealthTypes'
    BY <1>0, <2>1 DEF HealthTypes
  <2> QED BY <1>0, <2>1, <2>2, <2>3, <2>4, HistoryGrows DEF HealthInv, HealthTypes
\* An answer reaches every request that waits.
<1>3. ASSUME NEW actions \in SUBSET Actions, answer(actions),
             offerable(actions, second - HealthTtl - MaxRead),
             UNCHANGED <<second, flags, openUntil>>
      PROVE  polls' \in [Polls -> PagePoll] /\ \A p \in Polls : pollHolds(p)'
  <2>1. ASSUME NEW p \in Polls PROVE polls'[p] \in PagePoll /\ pollHolds(p)'
    <3>1. CASE polls[p].step = "waiting"
      <4>1. polls'[p] = [polls[p] EXCEPT !.step = "answered", !.actions = actions]
        BY <1>3, <3>1 DEF answer
      <4>2. /\ polls'[p] \in PagePoll /\ polls'[p].step = "answered"
            /\ polls'[p].actions = actions /\ polls'[p].asked = polls[p].asked
        BY <1>0, <4>1 DEF PagePoll
      <4>3. polls[p].asked <= second /\ polls[p].asked \in Int /\ second \in Int
            /\ openUntil \in [Actions -> Int]
        BY <1>0, <3>1 DEF HealthInv, pollHolds, HealthTypes
      <4>4. \A x \in actions : openUntil[x] >= polls[p].asked - HealthTtl - MaxRead
        BY <1>0, <1>3, <4>3 DEF offerable
      <4> QED BY <1>3, <4>2, <4>4 DEF pollHolds, offerable
    <3>2. CASE polls[p].step # "waiting"
      <4>1. polls'[p] = polls[p]
        BY <1>3, <3>2 DEF answer
      <4>2. pollHolds(p)
        BY DEF HealthInv
      <4> QED BY <1>0, <1>3, <4>1, <4>2 DEF pollHolds, offerable
    <3> QED BY <3>1, <3>2
  <2> QED BY <1>3, <2>1 DEF answer
<1>4. ASSUME NEW inFlight \in healthInFlight, NEW read \in SUBSET Actions, NEW ok \in BOOLEAN,
             readHealth(inFlight, read, ok)
      PROVE  HealthInv'
  <2> DEFINE offer == respond(read, ok)
  <2>1. /\ answer(offer) /\ UNCHANGED <<second, flags, open, health, openUntil>>
        /\ healthInFlight' = {} /\ read \subseteq inFlight.everOpen
        /\ cachedHealth' \in {cachedHealth, {[expiresAt |-> second + HealthTtl, actions |-> offer]}}
    BY <1>4 DEF readHealth
  <2>2. offer \in SUBSET Actions /\ offer \subseteq read /\ (offer # {} => offer = flags)
    BY <1>0 DEF respond, flagPauseAlignment, HealthTypes
  <2>3. /\ readHolds(inFlight) /\ inFlight.since \in Int /\ second \in Int
        /\ openUntil \in [Actions -> Int]
    BY <1>0 DEF HealthInv, HealthTypes
  <2>4. ASSUME NEW x \in offer
        PROVE  openUntil[x] >= second - MaxRead
    <3>1. openUntil[x] >= inFlight.since /\ openUntil[x] \in Int
      BY <2>1, <2>2, <2>3 DEF readHolds
    <3> QED BY <1>0, <2>3, <3>1 DEF readHolds
  <2> HIDE DEF offer
  <2>5. offerable(offer, second - HealthTtl - MaxRead)
    <3>1. ASSUME NEW x \in offer PROVE openUntil[x] >= second - HealthTtl - MaxRead
      <4>1. openUntil[x] \in Int /\ openUntil[x] >= second - MaxRead
        BY <2>2, <2>3, <2>4
      <4> QED BY <1>0, <2>3, <4>1
    <3> QED BY <2>2, <3>1 DEF offerable
  <2>6. polls' \in [Polls -> PagePoll] /\ \A p \in Polls : pollHolds(p)'
    BY <1>3, <2>1, <2>2, <2>5
  <2>7. ASSUME NEW kept \in cachedHealth'
        PROVE  kept \in KeptAnswer /\ offerable(kept.actions, kept.expiresAt - HealthTtl - MaxRead)'
    <3>1. CASE kept \in cachedHealth
      BY <1>0, <2>1, <3>1 DEF HealthInv, HealthTypes, offerable
    <3>2. CASE kept = [expiresAt |-> second + HealthTtl, actions |-> offer]
      <4>1. kept.expiresAt = second + HealthTtl /\ kept.actions = offer /\ kept \in KeptAnswer
        BY <1>0, <2>2, <2>3, <3>2 DEF KeptAnswer
      <4>2. ASSUME NEW x \in offer PROVE openUntil[x] >= kept.expiresAt - HealthTtl - MaxRead
        <5>1. openUntil[x] \in Int /\ openUntil[x] >= second - MaxRead
          BY <2>2, <2>3, <2>4
        <5> QED BY <1>0, <2>3, <4>1, <5>1
      <4> QED BY <2>1, <2>2, <4>1, <4>2 DEF offerable
    <3> QED BY <2>1, <3>1, <3>2
  <2>8. \A kept, other \in cachedHealth' : kept = other
    BY <2>1 DEF HealthInv
  <2>9. HealthTypes'
    BY <1>0, <2>1, <2>6, <2>7 DEF HealthTypes
  <2> QED BY <2>1, <2>6, <2>7, <2>8, <2>9 DEF HealthInv, offerable
<1>5. CASE Cold
  <2>1. /\ answer({}) /\ UNCHANGED <<second, flags, open, health, openUntil>>
        /\ healthInFlight' = {} /\ cachedHealth' = {}
    BY <1>5 DEF Cold
  <2>2. offerable({}, second - HealthTtl - MaxRead)
    BY DEF offerable
  <2>3. polls' \in [Polls -> PagePoll] /\ \A p \in Polls : pollHolds(p)'
    BY <1>3, <2>1, <2>2
  <2>4. HealthTypes'
    BY <1>0, <2>1, <2>3 DEF HealthTypes
  <2> QED BY <2>1, <2>3, <2>4 DEF HealthInv, offerable
<1>6. ASSUME NEW p \in Polls, Get(p) PROVE HealthInv'
  <2>1. /\ UNCHANGED <<second, flags, open, cachedHealth, health, openUntil>>
        /\ \A q \in Polls : q # p => polls'[q] = polls[q]
    BY <1>0, <1>6 DEF Get, HealthTypes
  <2>2. polls' \in [Polls -> PagePoll] /\ pollHolds(p)'
    <3>1. CASE \E kept \in cachedHealth : fresh(kept)
      <4>1. PICK kept \in cachedHealth :
              /\ second < kept.expiresAt /\ kept.actions \subseteq Actions /\ kept.expiresAt \in Int
              /\ offerable(kept.actions, kept.expiresAt - HealthTtl - MaxRead)
        BY <1>0, <3>1 DEF fresh, HealthInv
      <4>2. (CHOOSE k \in cachedHealth : TRUE) = kept
        BY <4>1 DEF HealthInv
      <4>3. polls' = [polls EXCEPT ![p] = [step |-> "answered", asked |-> second,
                                           actions |-> kept.actions]]
        BY <1>6, <3>1, <4>2 DEF Get
      <4>4. /\ [step |-> "answered", asked |-> second, actions |-> kept.actions] \in PagePoll
            /\ second \in Int /\ openUntil \in [Actions -> Int]
        BY <1>0, <4>1 DEF PagePoll, HealthTypes
      <4>5. /\ polls' \in [Polls -> PagePoll] /\ polls'[p].step = "answered"
            /\ polls'[p].actions = kept.actions /\ polls'[p].asked = second
        BY <1>0, <4>3, <4>4 DEF HealthTypes
      <4>6. ASSUME NEW x \in kept.actions PROVE openUntil[x] >= second - HealthTtl - MaxRead
        <5>1. openUntil[x] \in Int /\ openUntil[x] >= kept.expiresAt - HealthTtl - MaxRead
          BY <4>1, <4>4 DEF offerable
        <5> QED BY <1>0, <4>1, <4>4, <5>1
      <4> QED BY <2>1, <4>1, <4>5, <4>6 DEF pollHolds, offerable
    <3>2. CASE ~\E kept \in cachedHealth : fresh(kept)
      <4>1. polls' = [polls EXCEPT ![p] = [step |-> "waiting", asked |-> second, actions |-> {}]]
        BY <1>6, <3>2 DEF Get, IdlePoll
      <4>2. [step |-> "waiting", asked |-> second, actions |-> {}] \in PagePoll
            /\ second \in Int
        BY <1>0 DEF PagePoll, HealthTypes
      <4>3. /\ polls' \in [Polls -> PagePoll] /\ polls'[p].step = "waiting"
            /\ polls'[p].asked = second
        BY <1>0, <4>1, <4>2 DEF HealthTypes
      <4> QED BY <2>1, <4>2, <4>3 DEF pollHolds
    <3> QED BY <3>1, <3>2
  <2>3. ASSUME NEW read \in healthInFlight' PROVE read \in SwitchRead /\ readHolds(read)'
    <3>1. CASE read \in healthInFlight
      BY <1>0, <2>1, <3>1 DEF HealthInv, HealthTypes, readHolds
    <3>2. CASE read = [since |-> second, everOpen |-> open, everPaused |-> Actions \ open]
      <4>1. read \in SwitchRead /\ read.since = second /\ read.everOpen = open
        BY <1>0, <3>2 DEF SwitchRead, HealthTypes
      <4>2. \A x \in open : openUntil[x] = second /\ second \in Int
        BY <1>0 DEF HealthInv, HealthTypes
      <4> QED BY <1>0, <2>1, <4>1, <4>2 DEF readHolds, HealthTypes
    <3> QED BY <1>6, <3>1, <3>2 DEF Get
  <2>4. \A q \in Polls : pollHolds(q)'
    <3>1. ASSUME NEW q \in Polls, q # p PROVE pollHolds(q)'
      <4>1. polls'[q] = polls[q] /\ pollHolds(q)
        BY <2>1, <3>1 DEF HealthInv
      <4> QED BY <2>1, <4>1 DEF pollHolds, offerable
    <3> QED BY <2>2, <3>1
  <2>5. HealthTypes'
    BY <1>0, <2>1, <2>2, <2>3 DEF HealthTypes
  <2> QED BY <2>1, <2>3, <2>4, <2>5 DEF HealthInv, offerable
<1>7. ASSUME NEW p \in Polls, refresh(p) PROVE HealthInv'
  <2>1. /\ UNCHANGED <<second, flags, open, cachedHealth, healthInFlight, openUntil>>
        /\ polls[p].step = "answered" /\ polls' = [polls EXCEPT ![p] = IdlePoll]
    BY <1>7 DEF refresh
  <2>2. IdlePoll \in PagePoll /\ IdlePoll.step = "idle"
    BY DEF IdlePoll, PagePoll
  <2>3. /\ polls' \in [Polls -> PagePoll] /\ polls'[p].step = "idle"
        /\ \A q \in Polls : q # p => polls'[q] = polls[q]
    BY <1>0, <2>1, <2>2 DEF HealthTypes
  <2>4. \A q \in Polls : pollHolds(q)'
    <3>1. ASSUME NEW q \in Polls, q # p PROVE pollHolds(q)'
      <4>1. polls'[q] = polls[q] /\ pollHolds(q)
        BY <2>3, <3>1 DEF HealthInv
      <4> QED BY <2>1, <4>1 DEF pollHolds, offerable
    <3> QED BY <2>3, <3>1 DEF pollHolds
  <2>5. /\ health' \in [actions : SUBSET Actions, asked : Int]
        /\ offerable(health.actions, health.asked - HealthTtl - MaxRead)'
    <3>1. CASE polls[p].actions = {}
      <4>1. health' = [actions |-> {}, asked |-> 0]
        BY <1>7, <3>1 DEF refresh, CLOSED_ACTIONS
      <4> QED BY <4>1 DEF offerable
    <3>2. CASE polls[p].actions # {}
      <4>1. health' = [actions |-> polls[p].actions, asked |-> polls[p].asked]
        BY <1>7, <3>2 DEF refresh
      <4>2. offerable(polls[p].actions, polls[p].asked - HealthTtl - MaxRead)
        BY <2>1 DEF HealthInv, pollHolds
      <4> QED BY <1>0, <2>1, <4>1, <4>2 DEF offerable
    <3> QED BY <3>1, <3>2
  <2>6. HealthTypes'
    BY <1>0, <2>1, <2>3, <2>5 DEF HealthTypes
  <2> QED BY <2>1, <2>4, <2>5, <2>6 DEF HealthInv, readHolds, offerable
<1>8. CASE UNCHANGED healthVars
  <2>1. UNCHANGED <<second, flags, open, cachedHealth, healthInFlight, polls, health, openUntil>>
    BY <1>8 DEF healthVars
  <2>2. \A p \in Polls : pollHolds(p)'
    <3>1. ASSUME NEW p \in Polls PROVE pollHolds(p)'
      <4>1. pollHolds(p)
        BY DEF HealthInv
      <4> QED BY <2>1, <4>1 DEF pollHolds, offerable
    <3> QED BY <3>1
  <2> QED BY <1>0, <2>1, <2>2 DEF HealthInv, HealthTypes, readHolds, offerable
<1> QED BY <1>1, <1>2, <1>4, <1>5, <1>6, <1>7, <1>8 DEF HealthNext

(* However the owner turns the switches, instances start and stop and the   *)
(* answers overtake each other, a page offers all the deployment means to   *)
(* or nothing, and only what was open at most a read and a cache's life     *)
(* before it asked.                                                         *)
THEOREM OfferWasRecentlyOpen == HealthSpec => []OfferedWasOpen
<1>1. ASSUME HealthInit PROVE HealthInv
  <2>1. IdlePoll \in PagePoll /\ IdlePoll.step = "idle" /\ CLOSED_ACTIONS.actions = {}
        /\ CLOSED_ACTIONS \in [actions : SUBSET Actions, asked : Int]
    BY DEF IdlePoll, PagePoll, CLOSED_ACTIONS
  <2>2. HealthTypes
    BY <1>1, <2>1 DEF HealthInit, HealthTypes
  <2>3. \A p \in Polls : pollHolds(p)
    BY <1>1, <2>1 DEF HealthInit, pollHolds
  <2>4. \A x \in Actions : openUntil[x] <= second /\ (x \in open => openUntil[x] = second)
    BY <1>1 DEF HealthInit
  <2> QED BY <1>1, <2>1, <2>2, <2>3, <2>4 DEF HealthInit, HealthInv, offerable
<1>2. HealthInv /\ [HealthNext]_healthVars => HealthInv'
  BY HealthInvIsInductive
<1>3. HealthInv => OfferedWasOpen
  BY DEF HealthInv, offerable, OfferedWasOpen
<1> QED BY <1>1, <1>2, <1>3, PTL DEF HealthSpec

-----------------------------------------------------------------------------
(* The rate limiter.                                                       *)

\* The requests of f let through at the times of S.
during(f, S) == SumOf([t \in Ms |-> IF t \in S THEN f[t] ELSE 0], Ms)
timesSince(t0) == {t \in Ms : t >= t0}
timesAfter(t0) == {t \in Ms : t > t0}

Cap == 2 * limit + 1
Requests == [Ms -> 0..Cap]
Window == [count : 1..limit, resetAtMs : Nat]

(* A client at time now: f is what was let through, dropped when its window *)
(* was dropped, and e its window if it has one.  Since the drop it was      *)
(* granted at most limit in the window and limit before, all of it in the   *)
(* window's time.                                                           *)
historyHolds(ms, f, dropped) ==
    /\ f \in Requests /\ dropped \in 0..ms
    /\ \A t \in Ms : t > ms \/ t <= ms - windowMs => f[t] = 0

windowHolds(ms, f, dropped, e) ==
    /\ e \in Window
    /\ e.resetAtMs - windowMs \in 1..ms
    /\ e.resetAtMs > ms => e.count <= during(f, timesSince(e.resetAtMs - windowMs))
    /\ during(f, timesAfter(dropped) \cap timesSince(e.resetAtMs - windowMs)) <= e.count
    /\ during(f, timesAfter(dropped) \ timesSince(e.resetAtMs - windowMs)) <= limit
    /\ \A t \in timesAfter(dropped) : t >= e.resetAtMs => f[t] = 0

freeHolds(ms, f, dropped) ==
    /\ during(f, timesAfter(dropped)) <= limit
    /\ dropped < ms => f[ms] = 0

LimiterTypes ==
    /\ nowMs \in Ms
    /\ DOMAIN entries \subseteq Clients /\ refused \subseteq Clients
    /\ granted \in [Clients -> Requests] /\ droppedAt \in [Clients -> Nat]
    /\ \A c : <<c, c>> \notin order

busyBut(c) == {d \in Clients \ {c} : during(granted[d], Ms) > 0}

clientHolds(c) ==
    /\ historyHolds(nowMs, granted[c], droppedAt[c])
    /\ c \in DOMAIN entries => windowHolds(nowMs, granted[c], droppedAt[c], entries[c])
    /\ c \notin DOMAIN entries => freeHolds(nowMs, granted[c], droppedAt[c])
    /\ c \in refused => live(c) /\ entries[c].count = limit
    /\ droppedAt[c] = nowMs => Cardinality(busyBut(c)) >= maxEntries

LimiterInv == LimiterTypes /\ \A c \in Clients : clientHolds(c)

-----------------------------------------------------------------------------
LEMMA LimiterNumbers ==
  /\ limit \in Nat /\ limit >= 1 /\ windowMs \in Nat /\ windowMs >= 1 /\ maxEntries \in Nat
  /\ maxEntries >= 1 /\ MaxMs \in Nat /\ MaxMs >= 1 /\ IsFiniteSet(Clients) /\ Cap \in Nat /\ Cap > limit
  /\ Cap = 2 * limit + 1
  /\ IsFiniteSet(Ms) /\ 1 \in Ms /\ \A t \in Ms : t \in Nat /\ t >= 1 /\ t <= MaxMs
<1>1. IsFiniteSet(Ms)
  BY LimiterAssumption, FS_Interval DEF Ms
<1> QED BY <1>1, LimiterAssumption DEF Ms, Cap

LEMMA DuringIsNat ==
  ASSUME NEW f \in Requests, NEW S
  PROVE  during(f, S) \in Nat /\ \A t \in Ms : t \in S => f[t] <= during(f, S)
<1> DEFINE v == [t \in Ms |-> IF t \in S THEN f[t] ELSE 0]
<1>1. \A t \in Ms : f[t] \in Nat
  BY LimiterNumbers DEF Requests
<1>2. \A t \in Ms : v[t] \in Nat /\ (t \in S => v[t] = f[t])
  BY <1>1
<1> HIDE DEF v
<1>3. SumOf(v, Ms) \in Nat /\ \A t \in Ms : v[t] <= SumOf(v, Ms)
  BY <1>2, LimiterNumbers, SumIsNat
<1>4. during(f, S) = SumOf(v, Ms)
  BY DEF during, v
<1> QED BY <1>2, <1>3, <1>4

LEMMA DuringGrows ==
  ASSUME NEW f \in Requests, NEW g \in Requests, NEW S, NEW T,
         \A t \in Ms : t \in S => f[t] = 0 \/ (t \in T /\ f[t] <= g[t])
  PROVE  during(f, S) <= during(g, T)
<1> DEFINE v == [t \in Ms |-> IF t \in S THEN f[t] ELSE 0]
           w == [t \in Ms |-> IF t \in T THEN g[t] ELSE 0]
<1>1. \A t \in Ms : f[t] \in Nat /\ g[t] \in Nat
  BY LimiterNumbers DEF Requests
<1>2. \A t \in Ms : v[t] \in Int /\ w[t] \in Int /\ v[t] <= w[t]
  BY <1>1
<1> HIDE DEF v, w
<1>3. SumOf(v, Ms) <= SumOf(w, Ms)
  BY <1>2, LimiterNumbers, SumIsMonotone
<1>4. during(f, S) = SumOf(v, Ms) /\ during(g, T) = SumOf(w, Ms)
  BY DEF during, v, w
<1> QED BY <1>3, <1>4

LEMMA DuringParts ==
  ASSUME NEW f \in Requests, NEW S, NEW T
  PROVE  during(f, S) = during(f, S \cap T) + during(f, S \ T)
<1> DEFINE v == [t \in Ms |-> IF t \in S THEN f[t] ELSE 0]
           a == [t \in Ms |-> IF t \in S \cap T THEN f[t] ELSE 0]
           b == [t \in Ms |-> IF t \in S \ T THEN f[t] ELSE 0]
<1>1. \A t \in Ms : f[t] \in Nat
  BY LimiterNumbers DEF Requests
<1>2. \A t \in Ms : a[t] \in Int /\ b[t] \in Int /\ v[t] = a[t] + b[t]
  BY <1>1
<1> HIDE DEF v, a, b
<1>3. SumOf(v, Ms) = SumOf(a, Ms) + SumOf(b, Ms)
  BY <1>2, LimiterNumbers, SumsAdd
<1>4. during(f, S) = SumOf(v, Ms) /\ during(f, S \cap T) = SumOf(a, Ms) /\ during(f, S \ T) = SumOf(b, Ms)
  BY DEF during, v, a, b
<1> QED BY <1>3, <1>4

LEMMA DuringOfZeros ==
  ASSUME NEW f, NEW S, \A t \in Ms : t \in S => f[t] = 0
  PROVE  during(f, S) = 0
<1> DEFINE v == [t \in Ms |-> IF t \in S THEN f[t] ELSE 0]
<1>1. \A t \in Ms : v[t] = 0
  OBVIOUS
<1> HIDE DEF v
<1>2. SumOf(v, Ms) = 0
  BY <1>1, LimiterNumbers, SumOfZeros
<1> QED BY <1>2 DEF during, v

(* One request more at time now.                                           *)
OneMore(f, ms) == [f EXCEPT ![ms] = Min({f[ms] + 1, Cap})]

LEMMA SmallerOfTwo ==
  ASSUME NEW a \in Int, NEW b \in Int
  PROVE  Min({a, b}) = IF a <= b THEN a ELSE b
<1>1. \E x \in {a, b} : \A y \in {a, b} : x <= y
  OBVIOUS
<1>2. Min({a, b}) \in {a, b} /\ \A y \in {a, b} : Min({a, b}) <= y
  BY <1>1, Zenon DEF Min
<1> QED BY <1>2

LEMMA OneMoreRequest ==
  ASSUME NEW f \in Requests, NEW ms \in Ms
  PROVE  /\ OneMore(f, ms) \in Requests
         /\ \A t \in Ms : t # ms => OneMore(f, ms)[t] = f[t]
         /\ OneMore(f, ms)[ms] = IF f[ms] + 1 <= Cap THEN f[ms] + 1 ELSE Cap
         /\ f[ms] <= OneMore(f, ms)[ms] /\ OneMore(f, ms)[ms] <= f[ms] + 1
         /\ 1 <= OneMore(f, ms)[ms]
         /\ \A S : during(f, S) <= during(OneMore(f, ms), S)
         /\ \A S : during(OneMore(f, ms), S) <= during(f, S) + 1
         /\ \A S : ms \notin S => during(OneMore(f, ms), S) = during(f, S)
<1> DEFINE g == OneMore(f, ms)
<1>1. /\ f[ms] \in 0..Cap /\ Cap \in Nat /\ Cap >= 1
  BY LimiterNumbers DEF Requests
<1>2. Min({f[ms] + 1, Cap}) = IF f[ms] + 1 <= Cap THEN f[ms] + 1 ELSE Cap
  BY <1>1, SmallerOfTwo
<1>3. /\ g \in Requests /\ (\A t \in Ms : t # ms => g[t] = f[t])
      /\ g[ms] = IF f[ms] + 1 <= Cap THEN f[ms] + 1 ELSE Cap
  BY <1>1, <1>2 DEF OneMore, Requests
<1> HIDE DEF g
<1>4. \A t \in Ms : f[t] \in Nat /\ g[t] \in Nat /\ f[t] <= g[t]
  BY <1>1, <1>3 DEF Requests
<1>5. ASSUME NEW S PROVE during(f, S) <= during(g, S)
  BY <1>3, <1>4, DuringGrows
<1>6. ASSUME NEW S, ms \notin S PROVE during(g, S) = during(f, S)
  <2>1. during(g, S) <= during(f, S)
    BY <1>3, <1>4, <1>6, DuringGrows
  <2> QED BY <1>3, <1>5, <2>1, DuringIsNat
<1>7. ASSUME NEW S, ms \in S PROVE during(g, S) <= during(f, S) + 1
  <2>1. PICK v : v = [t \in Ms |-> IF t \in S THEN f[t] ELSE 0]
    OBVIOUS
  <2>2. PICK w : w = [t \in Ms |-> IF t \in S THEN g[t] ELSE 0]
    OBVIOUS
  <2>3. v[ms] = f[ms] /\ w[ms] = g[ms]
    BY <1>7, <2>1, <2>2
  <2>4. AgreeBut(v, w, ms, Ms)
    BY <1>3, <1>4, <2>1, <2>2 DEF AgreeBut
  <2>5. IsFiniteSet(Ms)
    BY LimiterNumbers
  <2>6. SumOf(w, Ms) = SumOf(v, Ms) + w[ms] - v[ms]
    BY <2>4, <2>5, SumOfOneChange
  <2>7. during(f, S) = SumOf(v, Ms) /\ during(g, S) = SumOf(w, Ms)
    BY <2>1, <2>2 DEF during
  <2>8. during(f, S) \in Nat
    BY DuringIsNat
  <2> QED BY <1>1, <1>3, <2>3, <2>6, <2>7, <2>8
<1>8. ASSUME NEW S PROVE during(g, S) <= during(f, S) + 1
  <2>1. during(f, S) \in Nat
    BY DuringIsNat
  <2> QED BY <1>6, <1>7, <2>1
<1> QED BY <1>1, <1>3, <1>5, <1>6, <1>8 DEF g

-----------------------------------------------------------------------------
(* What becomes of one client.                                             *)
LEMMA PastIsOver ==     \* before an expired window there is nothing left
  ASSUME NEW ms \in Ms, NEW f, NEW dropped, historyHolds(ms, f, dropped),
         NEW s \in Int, s <= ms - windowMs
  PROVE  \A S : during(f, S) = during(f, S \cap timesSince(s))
<1> TAKE S
<1>1. f \in Requests /\ \A t \in Ms : t \notin timesSince(s) => f[t] = 0
  BY LimiterNumbers DEF historyHolds, timesSince
<1>2. during(f, S \ timesSince(s)) = 0
  BY <1>1, DuringOfZeros
<1>3. during(f, S \cap timesSince(s)) \in Nat
  BY <1>1, DuringIsNat
<1>4. during(f, S) = during(f, S \cap timesSince(s)) + during(f, S \ timesSince(s))
  <2>1. f \in Requests
    BY <1>1
  <2> QED BY <2>1, DuringParts
<1> QED BY <1>2, <1>3, <1>4

LEMMA ExpiredIsFree ==
  ASSUME NEW ms \in Ms, NEW f, NEW dropped, historyHolds(ms, f, dropped),
         NEW e, windowHolds(ms, f, dropped, e), e.resetAtMs <= ms
  PROVE  freeHolds(ms, f, dropped)
<1>1. PICK s \in Int : s = e.resetAtMs - windowMs /\ s <= ms - windowMs
  BY LimiterNumbers DEF windowHolds, Window
<1>2. during(f, timesAfter(dropped)) = during(f, timesAfter(dropped) \cap timesSince(s))
  BY <1>1, PastIsOver
<1>3. during(f, timesAfter(dropped) \cap timesSince(s)) <= e.count /\ e.count \in 1..limit
  BY <1>1 DEF windowHolds, Window
<1>4. f \in Requests /\ during(f, timesAfter(dropped)) \in Nat
  BY DuringIsNat DEF historyHolds
<1>5. during(f, timesAfter(dropped)) <= limit
  BY <1>2, <1>3, <1>4, LimiterNumbers
<1>6. dropped < ms => f[ms] = 0
  BY DEF windowHolds, timesAfter
<1> QED BY <1>5, <1>6 DEF freeHolds

LEMMA DroppedIsFree ==
  ASSUME NEW ms \in Ms, NEW f, NEW dropped, historyHolds(ms, f, dropped)
  PROVE  historyHolds(ms, f, ms) /\ freeHolds(ms, f, ms)
<1>1. ms \in 0..ms /\ historyHolds(ms, f, ms)
  BY LimiterNumbers DEF historyHolds
<1>2. \A t \in Ms : t \in timesAfter(ms) => f[t] = 0
  BY LimiterNumbers DEF historyHolds, timesAfter
<1>3. during(f, timesAfter(ms)) = 0
  BY <1>2, DuringOfZeros
<1> QED BY <1>1, <1>3, LimiterNumbers DEF freeHolds

LEMMA OneMoreHistory ==
  ASSUME NEW ms \in Ms, NEW f, NEW dropped, historyHolds(ms, f, dropped)
  PROVE  historyHolds(ms, OneMore(f, ms), dropped)
<1>1. f \in Requests
  BY DEF historyHolds
<1>2. OneMore(f, ms) \in Requests /\ \A t \in Ms : t # ms => OneMore(f, ms)[t] = f[t]
  BY <1>1, OneMoreRequest
<1>3. ~(ms > ms) /\ ~(ms <= ms - windowMs)
  BY LimiterNumbers
<1> QED BY <1>2, <1>3 DEF historyHolds

LEMMA NewWindow ==
  ASSUME NEW ms \in Ms, NEW f, NEW dropped, historyHolds(ms, f, dropped), freeHolds(ms, f, dropped)
  PROVE  windowHolds(ms, OneMore(f, ms), dropped, [count |-> 1, resetAtMs |-> ms + windowMs])
<1> DEFINE g == OneMore(f, ms)
           D == timesAfter(dropped)
<1>1. /\ f \in Requests /\ ms \in Nat /\ dropped \in 0..ms /\ (\A t \in Ms : t > ms => f[t] = 0)
      /\ ms + windowMs \in Nat /\ (ms + windowMs) - windowMs = ms /\ ms \in 1..ms
  BY LimiterNumbers DEF historyHolds
<1>2. /\ g \in Requests /\ 1 <= g[ms] /\ (\A S : during(g, S) <= during(f, S) + 1)
      /\ (\A t \in Ms : t # ms => g[t] = f[t])
      /\ (\A S : ms \notin S => during(g, S) = during(f, S))
  BY <1>1, OneMoreRequest
<1> HIDE DEF g
<1>3. 1 <= during(g, timesSince(ms))
  <2>1. ms \in timesSince(ms)
    BY <1>1 DEF timesSince
  <2> QED BY <1>2, <2>1, DuringIsNat, LimiterNumbers DEF Requests
<1>4. during(g, D \cap timesSince(ms)) <= 1
  <2>1. \A t \in Ms : t \in D \cap timesSince(ms) => f[t] = 0
    BY <1>1, LimiterNumbers DEF freeHolds, timesAfter, timesSince
  <2>2. during(f, D \cap timesSince(ms)) = 0
    BY <2>1, DuringOfZeros
  <2>3. during(g, D \cap timesSince(ms)) <= during(f, D \cap timesSince(ms)) + 1
    BY <1>2
  <2> QED BY <2>2, <2>3
<1>5. during(g, D \ timesSince(ms)) <= limit
  <2>1. ms \notin D \ timesSince(ms)
    BY <1>1 DEF timesSince
  <2>2. during(g, D \ timesSince(ms)) = during(f, D \ timesSince(ms))
    BY <1>2, <2>1
  <2>3. during(f, D \ timesSince(ms)) <= during(f, D)
    BY <1>1, DuringGrows, LimiterNumbers DEF Requests
  <2>4. during(f, D) <= limit /\ during(f, D) \in Nat /\ during(f, D \ timesSince(ms)) \in Nat
    BY <1>1, DuringIsNat DEF freeHolds
  <2> QED BY <2>2, <2>3, <2>4, LimiterNumbers
<1>6. \A t \in D : t >= ms + windowMs => g[t] = 0
  BY <1>1, <1>2, LimiterNumbers DEF timesAfter
<1>7. [count |-> 1, resetAtMs |-> ms + windowMs] \in Window
  BY <1>1, LimiterNumbers DEF Window
<1> QED BY <1>1, <1>3, <1>4, <1>5, <1>6, <1>7 DEF windowHolds, g

LEMMA SameWindow ==
  ASSUME NEW ms \in Ms, NEW f, NEW dropped, historyHolds(ms, f, dropped),
         NEW e, windowHolds(ms, f, dropped, e), e.resetAtMs > ms, e.count < limit
  PROVE  windowHolds(ms, OneMore(f, ms), dropped, [e EXCEPT !.count = @ + 1])
<1> DEFINE g == OneMore(f, ms)
           D == timesAfter(dropped)
<1>0. PICK s \in Nat, r \in Nat, n \in 1..limit :
         /\ s = e.resetAtMs - windowMs /\ r = e.resetAtMs /\ n = e.count /\ s \in 1..ms /\ r > ms /\ n < limit
  BY LimiterNumbers DEF windowHolds, Window
<1>1. PICK e2 \in Window : e2 = [e EXCEPT !.count = @ + 1] /\ e2.count = n + 1 /\ e2.resetAtMs = r
  <2>1. e = [count |-> n, resetAtMs |-> r]
    BY <1>0 DEF windowHolds, Window
  <2>2. [e EXCEPT !.count = @ + 1] = [count |-> n + 1, resetAtMs |-> r]
    BY <2>1
  <2>3. [count |-> n + 1, resetAtMs |-> r] \in Window
    BY <1>0, LimiterNumbers DEF Window
  <2> QED BY <2>2, <2>3
<1>2. f \in Requests /\ ms \in Nat /\ f[ms] \in 0..Cap
  BY LimiterNumbers DEF historyHolds, Requests
<1>3. /\ g \in Requests /\ (\A S : during(g, S) <= during(f, S) + 1) /\ (\A S : during(f, S) <= during(g, S))
      /\ (\A t \in Ms : t # ms => g[t] = f[t])
      /\ (\A S : ms \notin S => during(g, S) = during(f, S))
      /\ g[ms] = IF f[ms] + 1 <= Cap THEN f[ms] + 1 ELSE Cap
  BY <1>2, OneMoreRequest
<1>4. /\ n <= during(f, timesSince(s)) /\ during(f, D \cap timesSince(s)) <= n
      /\ during(f, D \ timesSince(s)) <= limit /\ \A t \in D : t >= r => f[t] = 0
  BY <1>0 DEF windowHolds
<1>5. n + 1 <= during(g, timesSince(s))
  <2>1. ms \in timesSince(s)
    BY <1>0, <1>2 DEF timesSince
  <2>2. CASE f[ms] + 1 <= Cap
    <3>1. during(g, timesSince(s)) >= during(f, timesSince(s)) + 1
      <4>1. PICK v : v = [t \in Ms |-> IF t \in timesSince(s) THEN f[t] ELSE 0]
        OBVIOUS
      <4>2. PICK w : w = [t \in Ms |-> IF t \in timesSince(s) THEN g[t] ELSE 0]
        OBVIOUS
      <4>3. \A t \in Ms : f[t] \in Int /\ g[t] \in Int
        BY <1>2, <1>3, LimiterNumbers DEF Requests
      <4>4. AgreeBut(v, w, ms, Ms) /\ v[ms] = f[ms] /\ w[ms] = f[ms] + 1
        BY <1>3, <2>1, <2>2, <4>1, <4>2, <4>3 DEF AgreeBut
      <4>5. IsFiniteSet(Ms)
        BY LimiterNumbers
      <4>6. SumOf(w, Ms) = SumOf(v, Ms) + w[ms] - v[ms]
        BY <4>4, <4>5, SumOfOneChange
      <4>7. during(f, timesSince(s)) = SumOf(v, Ms) /\ during(g, timesSince(s)) = SumOf(w, Ms)
        BY <4>1, <4>2 DEF during
      <4>8. during(f, timesSince(s)) \in Nat
        BY <1>2, DuringIsNat
      <4> QED BY <1>2, <4>4, <4>6, <4>7, <4>8
    <3>2. during(f, timesSince(s)) \in Nat /\ during(g, timesSince(s)) \in Nat
      BY <1>2, <1>3, DuringIsNat
    <3> QED BY <1>4, <3>1, <3>2
  <2>3. CASE ~(f[ms] + 1 <= Cap)
    <3>1. g[ms] = Cap /\ g[ms] <= during(g, timesSince(s)) /\ during(g, timesSince(s)) \in Nat
      BY <1>3, <2>1, <2>3, DuringIsNat
    <3> QED BY <1>0, <3>1, LimiterNumbers
  <2> QED BY <2>2, <2>3
<1>6. during(g, D \cap timesSince(s)) <= n + 1
  <2>1. during(f, D \cap timesSince(s)) \in Nat /\ during(g, D \cap timesSince(s)) \in Nat
    BY <1>2, <1>3, DuringIsNat
  <2>2. during(g, D \cap timesSince(s)) <= during(f, D \cap timesSince(s)) + 1
    BY <1>3
  <2> QED BY <1>0, <1>4, <2>1, <2>2
<1>7. during(g, D \ timesSince(s)) <= limit
  <2>1. ms \notin D \ timesSince(s)
    BY <1>0, <1>2 DEF timesSince
  <2> QED BY <1>3, <1>4, <2>1
<1>8. \A t \in D : t >= r => g[t] = 0
  BY <1>0, <1>2, <1>3, <1>4, LimiterNumbers DEF timesAfter
<1> HIDE DEF g, D
<1>9. windowHolds(ms, g, dropped, e2)
  BY <1>0, <1>1, <1>5, <1>6, <1>7, <1>8 DEF windowHolds, D
<1> QED BY <1>1, <1>9 DEF g

(* Time passes: what is older than a window is forgotten.                  *)
Later(f, ms) == [t \in Ms |-> IF t > ms - windowMs THEN f[t] ELSE 0]
LaterDrop(dropped, ms) == IF dropped > ms - windowMs THEN dropped ELSE 0

LEMMA LaterHistory ==
  ASSUME NEW ms \in Ms, ms + 1 \in Ms, NEW f, NEW dropped, historyHolds(ms, f, dropped)
  PROVE  /\ historyHolds(ms + 1, Later(f, ms + 1), LaterDrop(dropped, ms + 1))
         /\ LaterDrop(dropped, ms + 1) < ms + 1
         /\ \A S : during(Later(f, ms + 1), timesAfter(LaterDrop(dropped, ms + 1)) \cap S)
                       <= during(f, timesAfter(dropped) \cap S)
         /\ \A t \in Ms : Later(f, ms + 1)[t] \in {0, f[t]} /\ (t > (ms + 1) - windowMs => Later(f, ms + 1)[t] = f[t])
         /\ \A t \in Ms : t \in timesAfter(LaterDrop(dropped, ms + 1)) /\ Later(f, ms + 1)[t] # 0 => t \in timesAfter(dropped)
<1> DEFINE g == Later(f, ms + 1)
           d == LaterDrop(dropped, ms + 1)
<1>1. /\ f \in Requests /\ ms \in Nat /\ dropped \in 0..ms
      /\ \A t \in Ms : t > ms \/ t <= ms - windowMs => f[t] = 0
      /\ \A t \in Ms : f[t] \in 0..Cap
  BY LimiterNumbers DEF historyHolds, Requests
<1>2. g \in Requests /\ \A t \in Ms : g[t] = IF t > (ms + 1) - windowMs THEN f[t] ELSE 0
  BY <1>1, LimiterNumbers DEF Later, Requests
<1>3. d \in 0..ms /\ d \in 0..(ms + 1) /\ d < ms + 1
      /\ d = IF dropped > (ms + 1) - windowMs THEN dropped ELSE 0
  BY <1>1, LimiterNumbers DEF LaterDrop
<1> HIDE DEF g, d
<1>4. historyHolds(ms + 1, g, d)
  BY <1>1, <1>2, <1>3, LimiterNumbers DEF historyHolds
<1>5. \A t \in Ms : t \in timesAfter(d) /\ g[t] # 0 => t \in timesAfter(dropped)
  BY <1>1, <1>2, <1>3, LimiterNumbers DEF timesAfter
<1>6. ASSUME NEW S PROVE during(g, timesAfter(d) \cap S) <= during(f, timesAfter(dropped) \cap S)
  <2>1. \A t \in Ms : t \in timesAfter(d) \cap S => g[t] = 0 \/ (t \in timesAfter(dropped) \cap S /\ g[t] <= f[t])
    BY <1>1, <1>2, <1>5
  <2> QED BY <1>1, <1>2, <2>1, DuringGrows
<1> QED BY <1>2, <1>3, <1>4, <1>5, <1>6 DEF g, d

LEMMA LaterFree ==
  ASSUME NEW ms \in Ms, ms + 1 \in Ms, NEW f, NEW dropped, historyHolds(ms, f, dropped),
         freeHolds(ms, f, dropped)
  PROVE  freeHolds(ms + 1, Later(f, ms + 1), LaterDrop(dropped, ms + 1))
<1> DEFINE g == Later(f, ms + 1)
           d == LaterDrop(dropped, ms + 1)
<1>1. during(g, timesAfter(d) \cap Ms) <= during(f, timesAfter(dropped) \cap Ms)
  BY LaterHistory
<1>2. timesAfter(d) \cap Ms = timesAfter(d) /\ timesAfter(dropped) \cap Ms = timesAfter(dropped)
  BY DEF timesAfter
<1>3. g \in Requests /\ f \in Requests
  BY LaterHistory DEF historyHolds
<1>4. during(g, timesAfter(d)) \in Nat /\ during(f, timesAfter(dropped)) \in Nat /\ during(f, timesAfter(dropped)) <= limit
  BY <1>3, DuringIsNat DEF freeHolds
<1>5. f[ms + 1] = 0 /\ g[ms + 1] \in {0, f[ms + 1]}
  BY LaterHistory, LimiterNumbers DEF historyHolds
<1> HIDE DEF g, d
<1>6. during(g, timesAfter(d)) <= limit
  <2>1. during(g, timesAfter(d)) <= during(f, timesAfter(dropped))
    BY <1>1, <1>2, Zenon
  <2> QED BY <1>4, <2>1, LimiterNumbers
<1>7. g[ms + 1] = 0
  BY <1>5
<1> QED BY <1>6, <1>7 DEF freeHolds, g, d

LEMMA LaterWindow ==
  ASSUME NEW ms \in Ms, ms + 1 \in Ms, NEW f, NEW dropped, historyHolds(ms, f, dropped),
         NEW e, windowHolds(ms, f, dropped, e)
  PROVE  windowHolds(ms + 1, Later(f, ms + 1), LaterDrop(dropped, ms + 1), e)
<1> DEFINE g == Later(f, ms + 1)
           d == LaterDrop(dropped, ms + 1)
<1>0. PICK s \in Nat, r \in Nat, n \in 1..limit :
         /\ s = e.resetAtMs - windowMs /\ r = e.resetAtMs /\ n = e.count /\ s \in 1..ms /\ e \in Window
  BY LimiterNumbers DEF windowHolds, Window
<1>1. /\ (r > ms => n <= during(f, timesSince(s))) /\ during(f, timesAfter(dropped) \cap timesSince(s)) <= n
      /\ during(f, timesAfter(dropped) \ timesSince(s)) <= limit /\ \A t \in timesAfter(dropped) : t >= r => f[t] = 0
  BY <1>0 DEF windowHolds
<1>2. g \in Requests /\ f \in Requests /\ ms \in Nat
  BY LaterHistory, LimiterNumbers DEF historyHolds
<1>3. /\ \A S : during(g, timesAfter(d) \cap S) <= during(f, timesAfter(dropped) \cap S)
      /\ \A t \in Ms : g[t] \in {0, f[t]} /\ (t > (ms + 1) - windowMs => g[t] = f[t])
      /\ \A t \in Ms : t \in timesAfter(d) /\ g[t] # 0 => t \in timesAfter(dropped)
  BY LaterHistory
<1> HIDE DEF g, d
<1>4. r > ms + 1 => n <= during(g, timesSince(s))
  <2>1. ASSUME r > ms + 1 PROVE \A t \in Ms : t \in timesSince(s) => f[t] = g[t]
    BY <1>0, <1>2, <1>3, <2>1, LimiterNumbers DEF timesSince
  <2>2. ASSUME r > ms + 1 PROVE during(f, timesSince(s)) <= during(g, timesSince(s))
    <3>1. \A t \in Ms : t \in timesSince(s) => f[t] <= g[t]
      BY <1>2, <2>1, <2>2, LimiterNumbers DEF Requests
    <3> QED BY <1>2, <3>1, DuringGrows
  <2>3. during(f, timesSince(s)) \in Nat /\ during(g, timesSince(s)) \in Nat
    BY <1>2, DuringIsNat
  <2> QED BY <1>0, <1>1, <1>2, <2>2, <2>3
<1>5. during(g, timesAfter(d) \cap timesSince(s)) <= n
  <2>1. during(g, timesAfter(d) \cap timesSince(s)) \in Nat /\ during(f, timesAfter(dropped) \cap timesSince(s)) \in Nat
    BY <1>2, DuringIsNat
  <2>2. during(g, timesAfter(d) \cap timesSince(s)) <= during(f, timesAfter(dropped) \cap timesSince(s))
    BY <1>3
  <2> QED BY <1>0, <1>1, <2>1, <2>2
<1>6. during(g, timesAfter(d) \ timesSince(s)) <= limit
  <2>1. timesAfter(d) \ timesSince(s) = timesAfter(d) \cap (Ms \ timesSince(s))
        /\ timesAfter(dropped) \ timesSince(s) = timesAfter(dropped) \cap (Ms \ timesSince(s))
    BY DEF timesAfter
  <2>2. during(g, timesAfter(d) \ timesSince(s)) <= during(f, timesAfter(dropped) \ timesSince(s))
    BY <1>3, <2>1
  <2>3. during(g, timesAfter(d) \ timesSince(s)) \in Nat /\ during(f, timesAfter(dropped) \ timesSince(s)) \in Nat
    BY <1>2, DuringIsNat
  <2> QED BY <1>1, <2>2, <2>3, LimiterNumbers
<1>7. \A t \in timesAfter(d) : t >= r => g[t] = 0
  BY <1>1, <1>3 DEF timesAfter
<1>8. s \in 1..(ms + 1)
  BY <1>0, <1>2
<1> QED BY <1>0, <1>4, <1>5, <1>6, <1>7, <1>8 DEF windowHolds, g, d

-----------------------------------------------------------------------------
LEMMA GrantedIsDuring ==
  ASSUME NEW c, granted[c] \in Requests
  PROVE  grantedLately(c) = during(granted[c], Ms)
<1>1. grantedLately(c) = SumOf(granted[c], Ms)
  BY DEF grantedLately, SumOf
<1>2. PICK w : w = [t \in Ms |-> IF t \in Ms THEN granted[c][t] ELSE 0]
  OBVIOUS
<1>3. \A t \in Ms : granted[c][t] \in Int /\ w[t] = granted[c][t]
  BY <1>2, LimiterNumbers DEF Requests
<1>4. SumOf(w, Ms) = SumOf(granted[c], Ms)
  <2>1. IsFiniteSet(Ms)
    BY LimiterNumbers
  <2> QED BY <1>3, <2>1, SumAgrees
<1> QED BY <1>1, <1>2, <1>4 DEF during

(* A client within its window was granted something lately.                *)
LEMMA LiveIsBusy ==
  ASSUME LimiterInv, NEW c \in Clients, live(c)
  PROVE  during(granted[c], Ms) > 0
<1>1. /\ granted[c] \in Requests /\ windowHolds(nowMs, granted[c], droppedAt[c], entries[c])
      /\ entries[c].resetAtMs > nowMs
  BY DEF LimiterInv, LimiterTypes, clientHolds, live
<1>2. PICK s \in Int, n \in Nat : /\ s = entries[c].resetAtMs - windowMs /\ n = entries[c].count /\ n >= 1
                                  /\ n <= during(granted[c], timesSince(s))
  BY <1>1, LimiterNumbers DEF windowHolds, Window
<1>3. during(granted[c], timesSince(s)) <= during(granted[c], Ms)
  <2>1. \A t \in Ms : granted[c][t] <= granted[c][t]
    BY <1>1, LimiterNumbers DEF Requests
  <2> QED BY <1>1, <2>1, DuringGrows
<1>4. during(granted[c], timesSince(s)) \in Nat /\ during(granted[c], Ms) \in Nat
  BY <1>1, DuringIsNat
<1> QED BY <1>2, <1>3, <1>4

(* The clients that were granted something do not become fewer.            *)
LEMMA BusyGrows ==
  ASSUME NEW A, NEW B, A \subseteq B, B \subseteq Clients, Cardinality(A) >= maxEntries
  PROVE  Cardinality(B) >= maxEntries
<1>1. IsFiniteSet(B)
  BY LimiterNumbers, FS_Subset
<1>2. Cardinality(A) <= Cardinality(B) /\ Cardinality(A) \in Nat /\ Cardinality(B) \in Nat
  BY <1>1, FS_Subset, FS_CardinalityType
<1> QED BY <1>2, LimiterNumbers

LEMMA CheckKeepsInv ==
  ASSUME LimiterInv, NEW x \in Clients, check(x)
  PROVE  LimiterInv'
<1> DEFINE kept == IF live(x) THEN DOMAIN entries ELSE roomFor(x)
           entry == IF live(x) THEN entries[x] ELSE [count |-> 0, resetAtMs |-> nowMs + windowMs]
           granting == entry.count < limit
           counted == IF granting THEN [entry EXCEPT !.count = @ + 1] ELSE entry
<1>0. /\ LimiterTypes /\ nowMs \in Ms /\ nowMs \in Nat /\ nowMs >= 1
      /\ \A c \in Clients : clientHolds(c) /\ granted[c] \in Requests
  BY LimiterNumbers DEF LimiterInv, LimiterTypes
<1>1. /\ entries' = [c \in kept \cup {x} |-> IF c # x THEN entries[c] ELSE counted]
      /\ order' = IF live(x) THEN order ELSE (order \cap (kept \X kept)) \cup (kept \X {x})
      /\ granted' = IF granting THEN [granted EXCEPT ![x][nowMs] = Min({granted[x][nowMs] + 1, Cap})] ELSE granted
      /\ refused' = IF granting THEN {} ELSE {x}
      /\ droppedAt' = [c \in Clients |-> IF live(c) /\ c \notin kept \cup {x} THEN nowMs ELSE droppedAt[c]]
      /\ nowMs' = nowMs
  BY DEF check, Cap
<1>2. kept \subseteq DOMAIN entries /\ kept \subseteq Clients /\ (~live(x) => x \notin kept)
  BY <1>0 DEF roomFor, makeRoom, pruneExpired, LimiterTypes
<1>3. /\ granted' \in [Clients -> Requests]
      /\ \A c \in Clients : c # x => granted'[c] = granted[c]
      /\ granted'[x] = IF granting THEN OneMore(granted[x], nowMs) ELSE granted[x]
  <2>1. OneMore(granted[x], nowMs) \in Requests
    BY <1>0, OneMoreRequest
  <2>2. granting => granted' = [granted EXCEPT ![x] = OneMore(granted[x], nowMs)]
    BY <1>0, <1>1 DEF LimiterTypes, OneMore
  <2> QED BY <1>0, <1>1, <2>1, <2>2 DEF LimiterTypes
<1>4. \A c \in Clients : during(granted[c], Ms) <= during(granted'[c], Ms)
  <2>1. during(granted[x], Ms) <= during(OneMore(granted[x], nowMs), Ms)
    BY <1>0, OneMoreRequest
  <2>2. \A c \in Clients : during(granted[c], Ms) \in Nat
    BY <1>0, DuringIsNat
  <2> QED BY <1>3, <2>1, <2>2
<1>5. \A c \in Clients : busyBut(c) \subseteq {d \in Clients \ {c} : during(granted'[d], Ms) > 0}
  <2>1. \A c \in Clients : during(granted[c], Ms) \in Nat /\ during(granted'[c], Ms) \in Nat
    BY <1>0, <1>3, DuringIsNat
  <2> QED BY <1>4, <2>1 DEF busyBut
<1> HIDE DEF kept
<1>6. DOMAIN entries' = kept \cup {x} /\ entries'[x] = counted
  BY <1>1
<1>7. LimiterTypes'
  BY <1>0, <1>1, <1>2, <1>3, <1>6 DEF LimiterTypes
<1>8. clientHolds(x)'
  <2>1. /\ historyHolds(nowMs, granted[x], droppedAt[x]) /\ droppedAt'[x] = droppedAt[x]
        /\ x \in DOMAIN entries => windowHolds(nowMs, granted[x], droppedAt[x], entries[x])
        /\ x \notin DOMAIN entries => freeHolds(nowMs, granted[x], droppedAt[x])
    BY <1>0, <1>1 DEF clientHolds
  <2>2. historyHolds(nowMs, granted'[x], droppedAt[x])
    BY <1>0, <1>3, <2>1, OneMoreHistory
  <2>5. droppedAt'[x] = nowMs' => Cardinality(busyBut(x)') >= maxEntries
    <3>1. droppedAt'[x] = nowMs' => Cardinality(busyBut(x)) >= maxEntries
      BY <1>0, <1>1, <2>1 DEF clientHolds
    <3>2. busyBut(x) \subseteq busyBut(x)' /\ busyBut(x)' \subseteq Clients
      BY <1>5 DEF busyBut
    <3> QED BY <3>1, <3>2, BusyGrows
  <2>3. CASE ~live(x)
    <3>1. freeHolds(nowMs, granted[x], droppedAt[x])
      <4>1. CASE x \notin DOMAIN entries
        BY <2>1, <4>1
      <4>2. CASE x \in DOMAIN entries
        <5>1. entries[x].resetAtMs <= nowMs
          <6>1. entries[x].resetAtMs \in Nat /\ ~(entries[x].resetAtMs > nowMs)
            BY <2>1, <2>3, <4>2 DEF live, windowHolds, Window
          <6> QED BY <1>0, <6>1
        <5> QED BY <1>0, <2>1, <4>2, <5>1, ExpiredIsFree
      <4> QED BY <4>1, <4>2
    <3>2. /\ entry = [count |-> 0, resetAtMs |-> nowMs + windowMs] /\ granting
          /\ counted = [count |-> 1, resetAtMs |-> nowMs + windowMs]
      BY <2>3, LimiterNumbers
    <3>3. windowHolds(nowMs, granted'[x], droppedAt[x], counted)
      BY <1>0, <1>3, <2>1, <3>1, <3>2, NewWindow
    <3>4. refused' = {}
      BY <1>1, <3>2
    <3> HIDE DEF counted, granting
    <3> QED BY <1>1, <1>6, <2>1, <2>2, <2>5, <3>3, <3>4 DEF clientHolds
  <2>4. CASE live(x)
    <3>1. /\ x \in DOMAIN entries /\ entries[x].resetAtMs > nowMs /\ entry = entries[x]
          /\ entries[x] \in Window
      BY <2>1, <2>4 DEF live, windowHolds
    <3>2. windowHolds(nowMs, granted'[x], droppedAt[x], counted)
      BY <1>0, <1>3, <2>1, <3>1, SameWindow
    <3>3. x \in refused' => counted = entries[x] /\ entries[x].count = limit
      BY <1>1, <3>1, LimiterNumbers DEF Window
    <3> HIDE DEF counted, granting, entry
    <3> QED BY <1>1, <1>6, <2>1, <2>2, <2>5, <3>1, <3>2, <3>3 DEF clientHolds, live
  <2> QED BY <2>3, <2>4
<1>9. ASSUME NEW c \in Clients, c # x PROVE clientHolds(c)'
  <2>1. /\ historyHolds(nowMs, granted[c], droppedAt[c])
        /\ c \in DOMAIN entries => windowHolds(nowMs, granted[c], droppedAt[c], entries[c])
        /\ c \notin DOMAIN entries => freeHolds(nowMs, granted[c], droppedAt[c])
        /\ droppedAt[c] = nowMs => Cardinality(busyBut(c)) >= maxEntries
    BY <1>0 DEF clientHolds
  <2>2. /\ granted'[c] = granted[c] /\ c \notin refused' /\ nowMs' = nowMs
        /\ c \in DOMAIN entries' <=> c \in kept
        /\ c \in kept => c \in DOMAIN entries /\ entries'[c] = entries[c]
        /\ droppedAt'[c] = IF live(c) /\ c \notin kept THEN nowMs ELSE droppedAt[c]
    BY <1>1, <1>2, <1>3, <1>6, <1>9
  <2>3. historyHolds(nowMs, granted[c], nowMs) /\ freeHolds(nowMs, granted[c], nowMs)
    BY <1>0, <2>1, DroppedIsFree
  <2>4. c \in DOMAIN entries /\ ~live(c) => freeHolds(nowMs, granted[c], droppedAt[c])
    <3>1. ASSUME c \in DOMAIN entries, ~live(c) PROVE entries[c].resetAtMs <= nowMs
      <4>1. entries[c].resetAtMs \in Nat /\ ~(entries[c].resetAtMs > nowMs)
        BY <2>1, <3>1 DEF live, windowHolds, Window
      <4> QED BY <1>0, <4>1
    <3> QED BY <1>0, <2>1, <3>1, ExpiredIsFree
  <2>5. busyBut(c) \subseteq busyBut(c)' /\ busyBut(c)' \subseteq Clients
    BY <1>5 DEF busyBut
  <2>6. CASE live(c) /\ c \notin kept
    <3>1. ~live(x) /\ kept = roomFor(x) /\ c \in DOMAIN entries \ {x}
      BY <1>9, <2>6 DEF kept, live
    <3> DEFINE rest == pruneExpired(DOMAIN entries \ {x})
               Y == younger(c, rest)
    <3>2. kept = makeRoom(rest) /\ c \in rest
      BY <2>6, <3>1 DEF roomFor, pruneExpired
    <3>3. ~(Cardinality(Y) < maxEntries - 1)
      BY <2>6, <3>2 DEF makeRoom
    <3>4. /\ Y \subseteq Clients \ {c, x} /\ \A d \in Y : live(d)
      BY <1>0 DEF younger, pruneExpired, LimiterTypes
    <3>5. IsFiniteSet(Y) /\ Cardinality(Y) \in Nat
      BY <3>4, LimiterNumbers, FS_Subset, FS_CardinalityType
    <3> HIDE DEF Y
    <3>6. Cardinality(Y \cup {x}) = Cardinality(Y) + 1
      BY <3>4, <3>5, FS_AddElement
    <3>7. Cardinality(Y \cup {x}) >= maxEntries
      BY <3>3, <3>5, <3>6, LimiterNumbers
    <3>8. ASSUME NEW d \in Y PROVE during(granted'[d], Ms) > 0
      BY <1>3, <3>4, LiveIsBusy
    <3>9. during(granted'[x], Ms) > 0
      <4>1. granted'[x] = OneMore(granted[x], nowMs)
        BY <1>3, <3>1, LimiterNumbers
      <4>2. 1 <= granted'[x][nowMs] /\ granted'[x] \in Requests
        BY <1>0, <4>1, OneMoreRequest
      <4>3. granted'[x][nowMs] <= during(granted'[x], Ms) /\ during(granted'[x], Ms) \in Nat
            /\ granted'[x][nowMs] \in Nat
        BY <1>0, <4>2, DuringIsNat, LimiterNumbers DEF Requests
      <4> QED BY <4>2, <4>3
    <3>10. Y \cup {x} \subseteq busyBut(c)'
      BY <1>9, <3>4, <3>8, <3>9 DEF busyBut
    <3>11. Cardinality(busyBut(c)') >= maxEntries
      BY <2>5, <3>7, <3>10, BusyGrows
    <3> QED BY <2>2, <2>3, <2>6, <3>11 DEF clientHolds
  <2>7. CASE ~(live(c) /\ c \notin kept)
    <3>1. droppedAt'[c] = droppedAt[c]
      BY <2>2, <2>7
    <3>2. droppedAt'[c] = nowMs' => Cardinality(busyBut(c)') >= maxEntries
      BY <2>1, <2>2, <2>5, <3>1, BusyGrows
    <3> QED BY <2>1, <2>2, <2>4, <2>7, <3>1, <3>2 DEF clientHolds, live
  <2> QED BY <2>6, <2>7
<1> QED BY <1>7, <1>8, <1>9 DEF LimiterInv

LEMMA ElapseKeepsInv ==
  ASSUME LimiterInv, Elapse PROVE LimiterInv'
<1>1. /\ LimiterTypes /\ nowMs \in Ms /\ nowMs + 1 \in Ms /\ nowMs' = nowMs + 1
      /\ nowMs + 1 \in Nat /\ nowMs \in Nat
      /\ UNCHANGED <<entries, order>> /\ refused' = {}
  BY LimiterNumbers DEF LimiterInv, LimiterTypes, Elapse, Ms
<1>2. /\ granted' = [c \in Clients |-> Later(granted[c], nowMs + 1)]
      /\ droppedAt' = [c \in Clients |-> LaterDrop(droppedAt[c], nowMs + 1)]
  <2>1. PICK n : n = nowMs' /\ n = nowMs + 1
    BY <1>1
  <2>2. /\ granted' = [c \in Clients |-> Later(granted[c], n)]
        /\ droppedAt' = [c \in Clients |-> LaterDrop(droppedAt[c], n)]
    BY <2>1 DEF Elapse, Later, LaterDrop
  <2> QED BY <2>1, <2>2
<1>3. ASSUME NEW c \in Clients PROVE clientHolds(c)'
  <2>1. /\ historyHolds(nowMs, granted[c], droppedAt[c])
        /\ c \in DOMAIN entries => windowHolds(nowMs, granted[c], droppedAt[c], entries[c])
        /\ c \notin DOMAIN entries => freeHolds(nowMs, granted[c], droppedAt[c])
    BY DEF LimiterInv, clientHolds
  <2>2. /\ historyHolds(nowMs + 1, granted'[c], droppedAt'[c]) /\ droppedAt'[c] < nowMs + 1
        /\ c \in DOMAIN entries => windowHolds(nowMs + 1, granted'[c], droppedAt'[c], entries[c])
        /\ c \notin DOMAIN entries => freeHolds(nowMs + 1, granted'[c], droppedAt'[c])
    BY <1>1, <1>2, <2>1, LaterHistory, LaterFree, LaterWindow
  <2>3. ~(droppedAt'[c] = nowMs + 1)
    BY <1>1, <2>2 DEF historyHolds
  <2> QED BY <1>1, <2>2, <2>3 DEF clientHolds
<1>4. \A c \in Clients : granted'[c] \in Requests /\ droppedAt'[c] \in Nat
  BY <1>1, <1>3 DEF clientHolds, historyHolds
<1>5. LimiterTypes'
  BY <1>1, <1>2, <1>4 DEF LimiterTypes
<1> QED BY <1>3, <1>5 DEF LimiterInv

(* An instance that starts knows of nobody.                                *)
LEMMA EmptyMapHolds ==
  ASSUME nowMs' \in Ms, entries' = noEntries, order' = {}, refused' = {},
         granted' = [c \in Clients |-> [t \in Ms |-> 0]], droppedAt' = [c \in Clients |-> 0]
  PROVE  LimiterInv'
<1> DEFINE none == [t \in Ms |-> 0]
<1>1. none \in Requests /\ \A t \in Ms : none[t] = 0
  BY LimiterNumbers DEF Requests
<1>2. DOMAIN entries' = {} /\ nowMs' \in Nat /\ nowMs' >= 1
  BY LimiterNumbers DEF noEntries
<1>3. \A c \in Clients : granted'[c] = none /\ droppedAt'[c] = 0
  OBVIOUS
<1>4. granted' \in [Clients -> Requests] /\ droppedAt' \in [Clients -> Nat]
  BY <1>1
<1> HIDE DEF none
<1>5. during(none, timesAfter(0)) = 0
  BY <1>1, DuringOfZeros
<1>6. PICK n \in Ms : n = nowMs'
  OBVIOUS
<1>7. historyHolds(n, none, 0) /\ freeHolds(n, none, 0) /\ n # 0
  BY <1>1, <1>5, LimiterNumbers DEF historyHolds, freeHolds
<1>8. ASSUME NEW c \in Clients PROVE clientHolds(c)'
  <2>1. granted'[c] = none /\ droppedAt'[c] = 0 /\ c \notin DOMAIN entries' /\ c \notin refused'
    BY <1>2, <1>3
  <2>2. historyHolds(n, granted'[c], droppedAt'[c]) /\ freeHolds(n, granted'[c], droppedAt'[c])
    BY <1>7, <2>1
  <2> QED BY <1>6, <1>7, <2>1, <2>2 DEF clientHolds
<1> QED BY <1>2, <1>4, <1>8 DEF LimiterInv, LimiterTypes

LEMMA LimiterInvImpliesLimits ==
  ASSUME LimiterInv PROVE LimitsAreKept
<1> SUFFICES ASSUME NEW c \in Clients
             PROVE  /\ c \in refused => grantedLately(c) >= limit
                    /\ grantedLately(c) > 2 * limit => droppedAt[c] > 0
                    /\ droppedAt[c] = nowMs =>
                          Cardinality({d \in Clients \ {c} : grantedLately(d) > 0}) >= maxEntries
  BY DEF LimitsAreKept
<1>1. clientHolds(c) /\ LimiterTypes /\ \A d \in Clients : granted[d] \in Requests
  BY DEF LimiterInv, LimiterTypes
<1>2. \A d \in Clients : grantedLately(d) = during(granted[d], Ms) /\ during(granted[d], Ms) \in Nat
  BY <1>1, GrantedIsDuring, DuringIsNat
<1>3. c \in refused => during(granted[c], Ms) >= limit
  <2> SUFFICES ASSUME c \in refused PROVE during(granted[c], Ms) >= limit
    OBVIOUS
  <2>1. /\ windowHolds(nowMs, granted[c], droppedAt[c], entries[c])
        /\ entries[c].resetAtMs > nowMs /\ entries[c].count = limit
    BY <1>1 DEF clientHolds, live
  <2>2. PICK s : limit <= during(granted[c], timesSince(s))
    BY <2>1 DEF windowHolds
  <2>3. \A t \in Ms : granted[c][t] <= granted[c][t]
    BY <1>1, LimiterNumbers DEF Requests
  <2>4. during(granted[c], timesSince(s)) <= during(granted[c], Ms)
    BY <1>1, <2>3, DuringGrows
  <2>5. during(granted[c], timesSince(s)) \in Nat
    BY <1>1, DuringIsNat
  <2> QED BY <1>2, <2>2, <2>4, <2>5, LimiterNumbers
<1>4. ASSUME droppedAt[c] = 0 PROVE during(granted[c], Ms) <= 2 * limit
  <2>1. timesAfter(0) = Ms
    BY LimiterNumbers DEF timesAfter
  <2>2. CASE c \notin DOMAIN entries
    <3>1. during(granted[c], Ms) <= limit
      BY <1>1, <1>4, <2>1, <2>2 DEF clientHolds, freeHolds
    <3> QED BY <1>2, <3>1, LimiterNumbers
  <2>3. CASE c \in DOMAIN entries
    <3>1. PICK s \in Int, n \in 1..limit :
            /\ during(granted[c], Ms \cap timesSince(s)) <= n
            /\ during(granted[c], Ms \ timesSince(s)) <= limit
      <4>1. windowHolds(nowMs, granted[c], 0, entries[c])
        BY <1>1, <1>4, <2>3 DEF clientHolds
      <4>2. entries[c].count \in 1..limit /\ entries[c].resetAtMs - windowMs \in Int
        BY <4>1, LimiterNumbers DEF windowHolds, Window
      <4>3. /\ during(granted[c], Ms \cap timesSince(entries[c].resetAtMs - windowMs)) <= entries[c].count
            /\ during(granted[c], Ms \ timesSince(entries[c].resetAtMs - windowMs)) <= limit
        BY <2>1, <4>1 DEF windowHolds
      <4> QED BY <4>2, <4>3
    <3>2. granted[c] \in Requests
      BY <1>1
    <3>3. during(granted[c], Ms) = during(granted[c], Ms \cap timesSince(s)) + during(granted[c], Ms \ timesSince(s))
      BY <3>2, DuringParts
    <3>4. during(granted[c], Ms \cap timesSince(s)) \in Nat /\ during(granted[c], Ms \ timesSince(s)) \in Nat
      BY <3>2, DuringIsNat
    <3> QED BY <3>1, <3>3, <3>4, LimiterNumbers
  <2> QED BY <2>2, <2>3
<1>5. {d \in Clients \ {c} : grantedLately(d) > 0} = busyBut(c)
  BY <1>2 DEF busyBut
<1>6. droppedAt[c] \in Nat
  BY <1>1 DEF LimiterTypes
<1>7. grantedLately(c) > 2 * limit => droppedAt[c] > 0
  BY <1>2, <1>4, <1>6, LimiterNumbers
<1>8. droppedAt[c] = nowMs => Cardinality(busyBut(c)) >= maxEntries
  BY <1>1 DEF clientHolds
<1> HIDE DEF busyBut, grantedLately
<1> QED BY <1>2, <1>3, <1>5, <1>7, <1>8

(* A refused client had its limit within a window, none gets more than      *)
(* twice the limit in one unless its window was dropped, and a window is    *)
(* dropped only with the map full of others that are within theirs          *)
(* (src/rate-limit.ts, FixedWindowRateLimiter.check).                       *)
THEOREM LimiterKeepsLimits == LimiterSpec => []LimitsAreKept
<1>1. ASSUME LimiterInit PROVE LimiterInv
  <2> DEFINE none == [t \in Ms |-> 0]
  <2>1. none \in Requests /\ \A t \in Ms : none[t] = 0
    BY LimiterNumbers DEF Requests
  <2>2. /\ entries = noEntries /\ DOMAIN entries = {} /\ nowMs = 1 /\ order = {} /\ refused = {}
        /\ \A c \in Clients : granted[c] = none /\ droppedAt[c] = 0
        /\ granted \in [Clients -> Requests] /\ droppedAt \in [Clients -> Nat]
    BY <1>1, <2>1 DEF LimiterInit, noEntries
  <2> HIDE DEF none
  <2>3. during(none, timesAfter(0)) = 0
    BY <2>1, DuringOfZeros
  <2>4. historyHolds(1, none, 0) /\ freeHolds(1, none, 0)
    BY <2>1, <2>3, LimiterNumbers DEF historyHolds, freeHolds
  <2>5. \A c \in Clients : clientHolds(c)
    BY <2>2, <2>4 DEF clientHolds
  <2> QED BY <2>2, <2>5, LimiterNumbers DEF LimiterInv, LimiterTypes
<1>2. ASSUME LimiterInv, [LimiterNext]_limiterVars PROVE LimiterInv'
  <2>1. CASE Elapse
    BY <1>2, <2>1, ElapseKeepsInv
  <2>2. CASE ColdStart
    BY <1>2, <2>2, EmptyMapHolds DEF ColdStart, LimiterInv, LimiterTypes
  <2>3. CASE \E c \in Clients : check(c)
    BY <1>2, <2>3, CheckKeepsInv
  <2>4. CASE UNCHANGED limiterVars
    BY <1>2, <2>4 DEF limiterVars, LimiterInv, LimiterTypes, clientHolds, busyBut, live
  <2> QED BY <1>2, <2>1, <2>2, <2>3, <2>4 DEF LimiterNext
<1>3. LimiterInv => LimitsAreKept
  BY LimiterInvImpliesLimits
<1> QED BY <1>1, <1>2, <1>3, PTL DEF LimiterSpec
=============================================================================
