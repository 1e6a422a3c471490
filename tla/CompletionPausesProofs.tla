----------------------- MODULE CompletionPausesProofs -----------------------
(***************************************************************************)
(* Facts about the pause ledger, for any number of pauses and any clock:   *)
(* its history stays a sequence of disjoint intervals, and on such a       *)
(* history the binary search with its single look finds every overlap.     *)
(***************************************************************************)
EXTENDS CompletionPauses, Integers, TLAPS, WellFoundedInduction, SequenceTheorems

(* The order of the naturals as a relation, for the library's theorems.    *)
LEMMA NatOrder ==
  \E R : IsWellFoundedOn(R, Nat) /\ \A x, y \in Nat : y < x => <<y, x>> \in R
<1>1. \A x, y \in Nat : y < x => <<y, x>> \in OpToRel(<, Nat)
  BY DEF OpToRel
<1> QED BY <1>1, NatLessThanWellFounded, Zenon

(* A set of naturals with an element has a least one.                      *)
LEMMA LeastElement ==
  ASSUME NEW T \in SUBSET Nat, T # {}
  PROVE  \E x \in T : \A y \in T : x <= y
<1>1. PICK R : IsWellFoundedOn(R, Nat) /\ \A x, y \in Nat : y < x => <<y, x>> \in R
  BY NatOrder
<1>2. PICK x \in T : \A y \in T : ~ (<<y, x>> \in R)
  BY <1>1, WFMin
<1>3. ASSUME NEW y \in T PROVE x <= y
  <2>1. x \in Nat /\ y \in Nat
    OBVIOUS
  <2>2. ~ (y < x)
    BY <1>1, <1>2, <2>1, Zenon
  <2> QED BY <2>1, <2>2
<1> QED BY <1>3

-----------------------------------------------------------------------------

(* The ledger as two functions on 1 .. n and 1 .. k, with values in Nat.    *)
LEMMA LedgerShape ==
  ASSUME PausesTypeOK
  PROVE  /\ completionPauseGeneration \in Nat /\ completionPauseGeneration >= 1
         /\ closedCount =
              IF completionPaused THEN completionPauseGeneration - 1 ELSE completionPauseGeneration
         /\ completionPaused \in BOOLEAN
         /\ closedCount \in Nat
         /\ \A i \in 1 .. completionPauseGeneration :
               completionPauseStartedAt[i] \in Nat /\ completionPauseStartedAt[i] <= MaxTime
         /\ \A i \in 1 .. closedCount :
               completionPauseEndedAt[i] \in Nat /\ completionPauseEndedAt[i] <= MaxTime
<1>1. /\ completionPauseGeneration \in Nat /\ completionPauseGeneration >= 1
      /\ completionPaused \in BOOLEAN
  BY PauseBounds DEF PausesTypeOK
<1>2. closedCount =
        IF completionPaused THEN completionPauseGeneration - 1 ELSE completionPauseGeneration
  BY DEF closedCount
<1>3. closedCount \in Nat
  BY <1>1, <1>2
<1>4. ASSUME NEW i \in 1 .. completionPauseGeneration
      PROVE  completionPauseStartedAt[i] \in Nat /\ completionPauseStartedAt[i] <= MaxTime
  <2>1. completionPauseStartedAt \in Seq(0 .. MaxTime) /\ i \in 1 .. Len(completionPauseStartedAt)
    BY DEF PausesTypeOK, completionPauseGeneration
  <2>2. completionPauseStartedAt[i] \in 0 .. MaxTime
    BY <2>1, ElementOfSeq
  <2> QED BY <2>2, PauseBounds
<1>5. ASSUME NEW i \in 1 .. closedCount
      PROVE  completionPauseEndedAt[i] \in Nat /\ completionPauseEndedAt[i] <= MaxTime
  <2>1. completionPauseEndedAt \in Seq(0 .. MaxTime) /\ i \in 1 .. Len(completionPauseEndedAt)
    BY DEF PausesTypeOK
  <2>2. completionPauseEndedAt[i] \in 0 .. MaxTime
    BY <2>1, ElementOfSeq
  <2> QED BY <2>2, PauseBounds
<1> QED BY <1>1, <1>2, <1>3, <1>4, <1>5

(* Whatever the time asked about, there is a first pause that ended after  *)
(* it, or none did and the answer is closedCount + 1.                      *)
LEMMA FirstEndedExists ==
  ASSUME PausesTypeOK, NEW t \in Nat
  PROVE  \E i \in 1 .. closedCount + 1 : IsFirstEndedAfter(t, i)
<1> DEFINE later == {j \in 1 .. closedCount : completionPauseEndedAt[j] > t}
<1>1. closedCount \in Nat /\ \A j \in 1 .. closedCount : completionPauseEndedAt[j] \in Nat
  BY LedgerShape
<1>2. CASE later = {}
  <2>1. closedCount + 1 \in 1 .. closedCount + 1
    BY <1>1
  <2>2. IsFirstEndedAfter(t, closedCount + 1)
    BY <1>1, <1>2 DEF IsFirstEndedAfter
  <2> QED BY <2>1, <2>2
<1>3. CASE later # {}
  <2>1. later \in SUBSET Nat
    BY <1>1
  <2>2. PICK i \in later : \A y \in later : i <= y
    BY <1>3, <2>1, LeastElement
  <2>3. \A j \in 1 .. i - 1 : j \in 1 .. closedCount /\ j \notin later
    BY <1>1, <2>2
  <2>4. IsFirstEndedAfter(t, i)
    BY <1>1, <2>2, <2>3 DEF IsFirstEndedAfter
  <2> QED BY <1>1, <2>2, <2>4
<1> QED BY <1>2, <1>3

(* And it is the only one, so any two searches agree.                      *)
LEMMA FirstEndedUnique ==
  ASSUME PausesTypeOK, NEW t \in Nat,
         NEW i \in 1 .. closedCount + 1, IsFirstEndedAfter(t, i),
         NEW j \in 1 .. closedCount + 1, IsFirstEndedAfter(t, j)
  PROVE  i = j
<1>1. closedCount \in Nat /\ \A k \in 1 .. closedCount : completionPauseEndedAt[k] \in Nat
  BY LedgerShape
<1>2. ~ (i < j)
  BY <1>1 DEF IsFirstEndedAfter
<1>3. ~ (j < i)
  BY <1>1 DEF IsFirstEndedAfter
<1> QED BY <1>1, <1>2, <1>3

(* On disjoint pauses in order, the one look the search takes at its       *)
(* result, and the one at the open pause, decide for every window whether  *)
(* SOME pause overlaps it (LockInDuolingoEscrow.sol:561-587).              *)
THEOREM SearchDecidesOverlap ==
  ASSUME PausesTypeOK, PausesInOrder,
         NEW s \in Nat, NEW d \in Nat
  PROVE  completionPauseAffected(s, d) <=> SomePauseOverlaps(s, d)
<1> DEFINE n == completionPauseGeneration
           k == closedCount
           low == firstEndedAfter(s)
<1>1. /\ n \in Nat /\ n >= 1
      /\ k = IF completionPaused THEN n - 1 ELSE n
      /\ completionPaused \in BOOLEAN
      /\ \A i \in 1 .. n : completionPauseStartedAt[i] \in Nat
      /\ \A i \in 1 .. k : completionPauseEndedAt[i] \in Nat
  BY LedgerShape
<1>2. low \in 1 .. k + 1 /\ IsFirstEndedAfter(s, low)
  BY FirstEndedExists DEF firstEndedAfter
<1>3. /\ low \in Nat /\ low >= 1 /\ low <= k + 1
      /\ \A j \in 1 .. low - 1 : completionPauseEndedAt[j] <= s
      /\ low <= k => completionPauseEndedAt[low] > s
  BY <1>1, <1>2 DEF IsFirstEndedAfter
<1>4. ASSUME NEW i \in 1 .. n, completionPauseStartedAt[i] < d,
             i <= k => completionPauseEndedAt[i] > s
      PROVE  completionPauseAffected(s, d)
  <2>1. CASE i <= k
    <3>1. low <= i
      BY <1>1, <1>3, <1>4, <2>1
    <3>2. completionPauseStartedAt[low] <= completionPauseStartedAt[i]
      <4>1. CASE low = i
        BY <1>1, <1>4, <4>1
      <4>2. CASE low < i
        <5>1. low \in 1 .. k /\ low \in 1 .. n
          BY <1>1, <1>3, <2>1, <3>1
        <5>2. completionPauseEndedAt[low] <= completionPauseStartedAt[i]
          BY <1>1, <1>4, <4>2, <5>1 DEF PausesInOrder
        <5>3. completionPauseStartedAt[low] <= completionPauseEndedAt[low]
          BY <5>1 DEF PausesInOrder
        <5> QED BY <1>1, <1>4, <5>1, <5>2, <5>3
      <4> QED BY <1>1, <1>3, <3>1, <4>1, <4>2
    <3>3. low <= k /\ completionPauseStartedAt[low] < d
      BY <1>1, <1>3, <1>4, <2>1, <3>1, <3>2
    <3> QED BY <3>3 DEF completionPauseAffected
  <2>2. CASE i > k
    <3>1. completionPaused /\ i = n
      BY <1>1, <2>2
    <3> QED BY <1>4, <3>1 DEF completionPauseAffected
  <2> QED BY <1>1, <2>1, <2>2
<1>5. ASSUME completionPauseAffected(s, d)
      PROVE  SomePauseOverlaps(s, d)
  <2>1. CASE low <= k /\ completionPauseStartedAt[low] < d
    BY <1>1, <1>3, <2>1 DEF SomePauseOverlaps
  <2>2. CASE completionPaused /\ completionPauseStartedAt[n] < d
    BY <1>1, <2>2 DEF SomePauseOverlaps
  <2> QED BY <1>5, <2>1, <2>2 DEF completionPauseAffected
<1> QED BY <1>4, <1>5 DEF SomePauseOverlaps

-----------------------------------------------------------------------------

LedgerOK == PausesTypeOK /\ PausesInOrder

(* The deployed contract's ledger: one open pause.                         *)
LEMMA LedgerInit ==
  ASSUME InitPauses PROVE LedgerOK
<1>1. /\ completionPaused = TRUE /\ now = 0 /\ 0 \in 0 .. MaxTime
      /\ Len(completionPauseStartedAt) = 1 /\ completionPauseStartedAt[1] = 0
      /\ Len(completionPauseEndedAt) = 0
      /\ completionPauseStartedAt \in Seq(0 .. MaxTime)
      /\ completionPauseEndedAt \in Seq(0 .. MaxTime)
  BY PauseBounds DEF InitPauses
<1>2. completionPauseGeneration = 1 /\ closedCount = 0
  BY <1>1 DEF completionPauseGeneration, closedCount
<1>3. PausesTypeOK
  BY <1>1, <1>2, PauseBounds DEF PausesTypeOK
<1>4. PausesInOrder
  BY <1>1, <1>2 DEF PausesInOrder
<1> QED BY <1>3, <1>4 DEF LedgerOK

(* A step that touches neither the ledger nor the clock.                   *)
LEMMA LedgerStutter ==
  ASSUME LedgerOK, UNCHANGED <<now, pauseVars>>
  PROVE  LedgerOK'
BY DEF LedgerOK, PausesTypeOK, PausesInOrder, pauseVars, completionPauseGeneration, closedCount

(* A block.                                                                *)
LEMMA LedgerTick ==
  ASSUME LedgerOK, Tick, UNCHANGED pauseVars
  PROVE  LedgerOK'
<1>1. /\ completionPauseGeneration' = completionPauseGeneration /\ closedCount' = closedCount
      /\ completionPauseStartedAt' = completionPauseStartedAt
      /\ completionPauseEndedAt' = completionPauseEndedAt
      /\ completionPaused' = completionPaused
  BY DEF pauseVars, completionPauseGeneration, closedCount
<1>2. now \in 0 .. MaxTime /\ now < MaxTime /\ now' = now + 1
  BY DEF LedgerOK, PausesTypeOK, Tick
<1>3. now' \in 0 .. MaxTime /\ now \in Nat /\ now <= now'
  BY <1>2, PauseBounds
<1>4. PausesTypeOK'
  BY <1>1, <1>3 DEF LedgerOK, PausesTypeOK
<1>5. PausesInOrder'
  <2>1. /\ \A i \in 1 .. completionPauseGeneration : completionPauseStartedAt[i] <= now'
        /\ \A i \in 1 .. closedCount : completionPauseEndedAt[i] <= now'
    BY <1>3, LedgerShape DEF LedgerOK, PausesInOrder
  <2> QED BY <1>1, <2>1 DEF LedgerOK, PausesInOrder
<1> QED BY <1>4, <1>5 DEF LedgerOK

(* The owner's switch: opening appends a pause that starts after every     *)
(* other has ended, closing ends the last one, repeating does nothing.     *)
LEMMA LedgerSwitch ==
  ASSUME LedgerOK, NEW paused \in BOOLEAN, setCompletionPaused(paused)
  PROVE  LedgerOK'
<1> DEFINE n == completionPauseGeneration
           k == closedCount
<1>1. /\ n \in Nat /\ n >= 1 /\ k \in Nat /\ now \in 0 .. MaxTime /\ now \in Nat
      /\ n \in 1 .. MaxPauses
      /\ k = IF completionPaused THEN n - 1 ELSE n
      /\ Len(completionPauseStartedAt) = n /\ Len(completionPauseEndedAt) = k
      /\ completionPauseStartedAt \in Seq(0 .. MaxTime)
      /\ completionPauseEndedAt \in Seq(0 .. MaxTime)
      /\ completionPaused \in BOOLEAN
  BY LedgerShape, PauseBounds DEF LedgerOK, PausesTypeOK, completionPauseGeneration
<1>2. /\ \A i \in 1 .. n : completionPauseStartedAt[i] <= now /\ completionPauseStartedAt[i] \in Nat
      /\ \A i \in 1 .. k : /\ completionPauseStartedAt[i] <= completionPauseEndedAt[i]
                           /\ completionPauseEndedAt[i] <= now /\ completionPauseEndedAt[i] \in Nat
      /\ \A i, j \in 1 .. n : i < j => completionPauseEndedAt[i] <= completionPauseStartedAt[j]
  BY LedgerShape DEF LedgerOK, PausesInOrder
<1>3. completionPaused' = paused /\ now' = now
  BY DEF setCompletionPaused
<1>4. CASE paused /\ ~completionPaused /\ OpenPause
  <2>1. /\ completionPauseStartedAt' = Append(completionPauseStartedAt, now)
        /\ completionPauseEndedAt' = completionPauseEndedAt /\ n < MaxPauses
    BY <1>4 DEF OpenPause
  <2>2. /\ completionPauseStartedAt' \in Seq(0 .. MaxTime)
        /\ Len(completionPauseStartedAt') = n + 1
        /\ \A i \in 1 .. n : completionPauseStartedAt'[i] = completionPauseStartedAt[i]
        /\ completionPauseStartedAt'[n + 1] = now
    BY <1>1, <2>1, AppendProperties
  <2>3. completionPauseGeneration' = n + 1 /\ closedCount' = n /\ k = n
    BY <1>1, <1>3, <1>4, <2>2 DEF completionPauseGeneration, closedCount
  <2>4. PausesTypeOK'
    BY <1>1, <1>3, <1>4, <2>1, <2>2, <2>3, PauseBounds DEF PausesTypeOK
  <2>5. PausesInOrder'
    <3>1. ASSUME NEW i \in 1 .. n + 1, NEW j \in 1 .. n + 1, i < j
          PROVE  completionPauseEndedAt'[i] <= completionPauseStartedAt'[j]
      BY <1>1, <1>2, <2>1, <2>2, <2>3, <3>1
    <3>2. \A i \in 1 .. n + 1 : completionPauseStartedAt'[i] <= now'
      BY <1>1, <1>2, <1>3, <2>2
    <3>3. \A i \in 1 .. n : /\ completionPauseStartedAt'[i] <= completionPauseEndedAt'[i]
                            /\ completionPauseEndedAt'[i] <= now'
      BY <1>1, <1>2, <1>3, <2>1, <2>2, <2>3
    <3> QED BY <2>3, <3>1, <3>2, <3>3 DEF PausesInOrder
  <2> QED BY <2>4, <2>5 DEF LedgerOK
<1>5. CASE ~paused /\ completionPaused /\ ClosePause
  <2>1. /\ completionPauseEndedAt' = Append(completionPauseEndedAt, now)
        /\ completionPauseStartedAt' = completionPauseStartedAt
    BY <1>5 DEF ClosePause
  <2>2. /\ completionPauseEndedAt' \in Seq(0 .. MaxTime)
        /\ Len(completionPauseEndedAt') = k + 1
        /\ \A i \in 1 .. k : completionPauseEndedAt'[i] = completionPauseEndedAt[i]
        /\ completionPauseEndedAt'[k + 1] = now
    BY <1>1, <2>1, AppendProperties
  <2>3. completionPauseGeneration' = n /\ closedCount' = n /\ n = k + 1
    BY <1>1, <1>3, <1>5, <2>1 DEF completionPauseGeneration, closedCount
  <2>4. PausesTypeOK'
    BY <1>1, <1>3, <1>5, <2>1, <2>2, <2>3 DEF PausesTypeOK
  <2>5. PausesInOrder'
    <3>1. ASSUME NEW i \in 1 .. n, NEW j \in 1 .. n, i < j
          PROVE  completionPauseEndedAt'[i] <= completionPauseStartedAt'[j]
      BY <1>1, <1>2, <2>1, <2>2, <2>3, <3>1
    <3>2. \A i \in 1 .. n : completionPauseStartedAt'[i] <= now'
      BY <1>2, <1>3, <2>1
    <3>3. \A i \in 1 .. n : /\ completionPauseStartedAt'[i] <= completionPauseEndedAt'[i]
                            /\ completionPauseEndedAt'[i] <= now'
      BY <1>1, <1>2, <1>3, <2>1, <2>2, <2>3
    <3> QED BY <2>3, <3>1, <3>2, <3>3 DEF PausesInOrder
  <2> QED BY <2>4, <2>5 DEF LedgerOK
<1>6. CASE UNCHANGED <<completionPauseStartedAt, completionPauseEndedAt>> /\ paused = completionPaused
  BY <1>3, <1>6, LedgerStutter DEF pauseVars
<1> QED BY <1>4, <1>5, <1>6 DEF setCompletionPaused

(* A pause opened, or an open one closed, after the deadline overlaps      *)
(* nothing that was not overlapped before.                                 *)
LEMMA SwitchAfterDeadline ==
  ASSUME LedgerOK, NEW s \in Nat, NEW d \in Nat, now >= d,
         NEW paused \in BOOLEAN, setCompletionPaused(paused), ~SomePauseOverlaps(s, d)
  PROVE  ~SomePauseOverlaps(s, d)'
<1> DEFINE n == completionPauseGeneration
<1>1. /\ n \in Nat /\ closedCount = IF completionPaused THEN n - 1 ELSE n
      /\ completionPaused \in BOOLEAN /\ now \in Nat
      /\ completionPauseStartedAt \in Seq(0 .. MaxTime)
      /\ completionPauseEndedAt \in Seq(0 .. MaxTime)
      /\ Len(completionPauseStartedAt) = n /\ Len(completionPauseEndedAt) = closedCount
  BY LedgerShape, PauseBounds DEF LedgerOK, PausesTypeOK, completionPauseGeneration
<1>2. completionPaused' = paused /\ now' = now
  BY DEF setCompletionPaused
<1>3. CASE paused /\ ~completionPaused /\ OpenPause
  <2>1. /\ completionPauseStartedAt' = Append(completionPauseStartedAt, now)
        /\ completionPauseEndedAt' = completionPauseEndedAt
    BY <1>3 DEF OpenPause
  <2>2. /\ Len(completionPauseStartedAt') = n + 1
        /\ \A i \in 1 .. n : completionPauseStartedAt'[i] = completionPauseStartedAt[i]
        /\ completionPauseStartedAt'[n + 1] = now
    BY <1>1, <2>1, AppendProperties
  <2>3. completionPauseGeneration' = n + 1 /\ closedCount' = n /\ closedCount = n
    BY <1>1, <1>2, <1>3, <2>2 DEF completionPauseGeneration, closedCount
  <2>4. ASSUME NEW i \in 1 .. n + 1, completionPauseStartedAt'[i] < d,
               i <= n => completionPauseEndedAt'[i] > s
        PROVE  FALSE
    <3>1. CASE i = n + 1
      BY <1>1, <2>2, <2>4, <3>1
    <3>2. CASE i \in 1 .. n
      BY <2>1, <2>2, <2>3, <2>4, <3>2 DEF SomePauseOverlaps
    <3> QED BY <1>1, <3>1, <3>2
  <2> QED BY <2>3, <2>4 DEF SomePauseOverlaps
<1>4. CASE ~paused /\ completionPaused /\ ClosePause
  <2>1. /\ completionPauseStartedAt' = completionPauseStartedAt
        /\ completionPauseEndedAt' = Append(completionPauseEndedAt, now)
    BY <1>4 DEF ClosePause
  <2>2. \A i \in 1 .. closedCount : completionPauseEndedAt'[i] = completionPauseEndedAt[i]
    BY <1>1, <2>1, AppendProperties
  <2>3. completionPauseGeneration' = n /\ closedCount' = n /\ closedCount = n - 1
    BY <1>1, <1>2, <1>4, <2>1 DEF completionPauseGeneration, closedCount
  <2>4. ASSUME NEW i \in 1 .. n, completionPauseStartedAt'[i] < d,
               i <= n => completionPauseEndedAt'[i] > s
        PROVE  FALSE
    <3>1. i <= closedCount => completionPauseEndedAt[i] > s
      BY <1>1, <2>2, <2>3, <2>4
    <3> QED BY <2>1, <2>4, <3>1 DEF SomePauseOverlaps
  <2> QED BY <2>3, <2>4 DEF SomePauseOverlaps
<1>5. CASE UNCHANGED <<completionPauseStartedAt, completionPauseEndedAt>> /\ paused = completionPaused
  BY <1>2, <1>5 DEF SomePauseOverlaps, completionPauseGeneration, closedCount
<1> QED BY <1>3, <1>4, <1>5 DEF setCompletionPaused

(* And it takes away no overlap there was: what ends now ends after s.     *)
LEMMA OverlapStays ==
  ASSUME LedgerOK, NEW s \in Nat, NEW d \in Nat, s < d, now >= d,
         NEW paused \in BOOLEAN, setCompletionPaused(paused), SomePauseOverlaps(s, d)
  PROVE  SomePauseOverlaps(s, d)'
<1> DEFINE n == completionPauseGeneration
<1>1. /\ n \in Nat /\ closedCount = IF completionPaused THEN n - 1 ELSE n
      /\ completionPaused \in BOOLEAN /\ now \in Nat
      /\ completionPauseStartedAt \in Seq(0 .. MaxTime)
      /\ completionPauseEndedAt \in Seq(0 .. MaxTime)
      /\ Len(completionPauseStartedAt) = n /\ Len(completionPauseEndedAt) = closedCount
  BY LedgerShape, PauseBounds DEF LedgerOK, PausesTypeOK, completionPauseGeneration
<1>2. completionPaused' = paused /\ now' = now
  BY DEF setCompletionPaused
<1>3. PICK i \in 1 .. n : /\ completionPauseStartedAt[i] < d
                          /\ i <= closedCount => completionPauseEndedAt[i] > s
  BY DEF SomePauseOverlaps
<1>4. CASE paused /\ ~completionPaused /\ OpenPause
  <2>1. /\ completionPauseStartedAt' = Append(completionPauseStartedAt, now)
        /\ completionPauseEndedAt' = completionPauseEndedAt
    BY <1>4 DEF OpenPause
  <2>2. /\ Len(completionPauseStartedAt') = n + 1
        /\ completionPauseStartedAt'[i] = completionPauseStartedAt[i]
    BY <1>1, <2>1, AppendProperties
  <2>3. completionPauseGeneration' = n + 1 /\ closedCount' = n /\ closedCount = n
    BY <1>1, <1>2, <1>4, <2>2 DEF completionPauseGeneration, closedCount
  <2> QED BY <1>1, <1>3, <2>1, <2>2, <2>3 DEF SomePauseOverlaps
<1>5. CASE ~paused /\ completionPaused /\ ClosePause
  <2>1. /\ completionPauseStartedAt' = completionPauseStartedAt
        /\ completionPauseEndedAt' = Append(completionPauseEndedAt, now)
    BY <1>5 DEF ClosePause
  <2>2. /\ completionPauseGeneration' = n /\ closedCount' = n /\ closedCount = n - 1
    BY <1>1, <1>2, <1>5, <2>1 DEF completionPauseGeneration, closedCount
  <2>3. completionPauseEndedAt'[i] > s
    <3>1. CASE i = n
      <4>1. completionPauseEndedAt'[n] = now
        BY <1>1, <2>1, <2>2, AppendProperties
      <4> QED BY <1>1, <3>1, <4>1
    <3>2. CASE i # n
      <4>1. completionPauseEndedAt'[i] = completionPauseEndedAt[i] /\ i <= closedCount
        BY <1>1, <2>1, <2>2, <3>2, AppendProperties
      <4> QED BY <1>3, <4>1
    <3> QED BY <3>1, <3>2
  <2> QED BY <1>3, <2>1, <2>2, <2>3 DEF SomePauseOverlaps
<1>6. CASE UNCHANGED <<completionPauseStartedAt, completionPauseEndedAt>> /\ paused = completionPaused
  BY <1>2, <1>6 DEF SomePauseOverlaps, completionPauseGeneration, closedCount
<1> QED BY <1>4, <1>5, <1>6 DEF setCompletionPaused

LEMMA SearchDecidesEverywhere ==
  LedgerOK => \A s, d \in Nat : completionPauseAffected(s, d) <=> SomePauseOverlaps(s, d)
BY SearchDecidesOverlap DEF LedgerOK

LEMMA SearchDecidesNext ==
  LedgerOK' => (\A s, d \in Nat : completionPauseAffected(s, d) <=> SomePauseOverlaps(s, d))'
BY SearchDecidesEverywhere, PTL

(* Once its deadline is behind it, no flip of the switch changes what      *)
(* settlement is told about a window.                                      *)
THEOREM SwitchCannotReopenWindow ==
  ASSUME LedgerOK, NEW s \in Nat, NEW d \in Nat, s < d, now >= d,
         NEW paused \in BOOLEAN, setCompletionPaused(paused)
  PROVE  completionPauseAffected(s, d)' <=> completionPauseAffected(s, d)
<1>1. completionPauseAffected(s, d) <=> SomePauseOverlaps(s, d)
  BY SearchDecidesEverywhere
<1>2. completionPauseAffected(s, d)' <=> SomePauseOverlaps(s, d)'
  BY LedgerSwitch, SearchDecidesNext
<1>3. SomePauseOverlaps(s, d)' <=> SomePauseOverlaps(s, d)
  BY SwitchAfterDeadline, OverlapStays
<1> QED BY <1>1, <1>2, <1>3

(* Nor does a step that leaves the ledger alone.                           *)
LEMMA AffectedFrame ==
  ASSUME LedgerOK, LedgerOK', NEW s \in Nat, NEW d \in Nat, UNCHANGED pauseVars
  PROVE  completionPauseAffected(s, d)' <=> completionPauseAffected(s, d)
<1>1. completionPauseAffected(s, d) <=> SomePauseOverlaps(s, d)
  BY SearchDecidesEverywhere
<1>2. completionPauseAffected(s, d)' <=> SomePauseOverlaps(s, d)'
  BY SearchDecidesNext
<1>3. SomePauseOverlaps(s, d)' <=> SomePauseOverlaps(s, d)
  BY DEF SomePauseOverlaps, pauseVars, completionPauseGeneration, closedCount
<1> QED BY <1>1, <1>2, <1>3
=============================================================================
