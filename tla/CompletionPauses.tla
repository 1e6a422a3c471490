-------------------------- MODULE CompletionPauses --------------------------
(***************************************************************************)
(* The completion-pause ledger both escrows keep (LockInDuolingoEscrow.sol *)
(* and LockInEscrow.sol carry the same code): the history of the owner's   *)
(* pauses of evidence submission, and the question settlement asks of it,  *)
(* did a pause overlap a Lock's submission window?                         *)
(*                                                                         *)
(* The two Solidity mappings generation -> timestamp are sequences here,   *)
(* so the current generation is the length of the first one, and an open   *)
(* pause is one that has no entry in the second one yet.                   *)
(***************************************************************************)
EXTENDS Naturals, Sequences

CONSTANTS
    MaxTime,        \* bound of the model: the last block timestamp
    MaxPauses       \* bound of the model: the last pause generation

ASSUME PauseBounds == MaxTime \in Nat /\ MaxPauses \in Nat \ {0}

VARIABLES
    now,                         \* block.timestamp
    completionPaused,
    completionPauseStartedAt,
    completionPauseEndedAt

pauseVars == <<completionPaused, completionPauseStartedAt, completionPauseEndedAt>>

completionPauseGeneration == Len(completionPauseStartedAt)

(* Deployment: completion starts paused, in generation 1, since now. *)
InitPauses ==
    /\ now = 0
    /\ completionPaused = TRUE
    /\ completionPauseStartedAt = <<now>>
    /\ completionPauseEndedAt = <<>>

(* Only a flip of the flag touches the ledger: pausing while paused must   *)
(* not restart the open pause, unpausing twice must not end it again.      *)
OpenPause ==
    /\ completionPauseGeneration < MaxPauses
    /\ completionPauseStartedAt' = Append(completionPauseStartedAt, now)
    /\ UNCHANGED completionPauseEndedAt

ClosePause ==
    /\ completionPauseEndedAt' = Append(completionPauseEndedAt, now)
    /\ UNCHANGED completionPauseStartedAt

setCompletionPaused(paused) ==
    /\ \/ paused /\ ~completionPaused /\ OpenPause
       \/ ~paused /\ completionPaused /\ ClosePause
       \/ /\ paused = completionPaused
          /\ UNCHANGED <<completionPauseStartedAt, completionPauseEndedAt>>
    /\ completionPaused' = paused
    /\ UNCHANGED now

(* The chain's clock; blocks may share a timestamp, so any number of       *)
(* transactions may happen between two ticks.                              *)
Tick ==
    /\ now < MaxTime
    /\ now' = now + 1

-----------------------------------------------------------------------------
(* The test settlement makes.                                              *)

closedCount ==
    IF completionPaused THEN completionPauseGeneration - 1 ELSE completionPauseGeneration

(* What the binary search over the closed pauses returns: the first one    *)
(* that ended after t, or closedCount + 1. Module PauseSearch is the loop  *)
(* itself, with the proof that it returns this index.                      *)
Bug_IsFirstEndedAtOrAfter(t, i) ==   \* bug: >= in the search
    /\ \A j \in 1 .. i - 1 : completionPauseEndedAt[j] < t
    /\ i <= closedCount => completionPauseEndedAt[i] >= t

IsFirstEndedAfter(t, i) ==
    /\ \A j \in 1 .. i - 1 : completionPauseEndedAt[j] <= t
    /\ i <= closedCount => completionPauseEndedAt[i] > t

firstEndedAfter(t) == CHOOSE i \in 1 .. closedCount + 1 : IsFirstEndedAfter(t, i)

(* Of the closed pauses only that first one is looked at, then the open one. *)
completionPauseAffected(startsAt, deadline) ==
    \/ LET low == firstEndedAfter(startsAt)
       IN  low <= closedCount /\ completionPauseStartedAt[low] < deadline
    \/ /\ completionPaused
       /\ completionPauseStartedAt[completionPauseGeneration] < deadline

-----------------------------------------------------------------------------
(* What the ledger should be.                                              *)

PausesTypeOK ==
    /\ now \in 0 .. MaxTime
    /\ completionPaused \in BOOLEAN
    /\ completionPauseStartedAt \in Seq(0 .. MaxTime)
    /\ completionPauseEndedAt \in Seq(0 .. MaxTime)
    /\ completionPauseGeneration \in 1 .. MaxPauses
    /\ Len(completionPauseEndedAt) = closedCount

(* The pauses are disjoint intervals of the past, in order: the fact the   *)
(* binary search and its single look at the first candidate rest on.       *)
PausesInOrder ==
    /\ \A i \in 1 .. completionPauseGeneration : completionPauseStartedAt[i] <= now
    /\ \A i \in 1 .. closedCount :
          /\ completionPauseStartedAt[i] <= completionPauseEndedAt[i]
          /\ completionPauseEndedAt[i] <= now
    /\ \A i, j \in 1 .. completionPauseGeneration :
          i < j => completionPauseEndedAt[i] <= completionPauseStartedAt[j]

(* Reference definition: SOME pause was in force at or after startsAt and  *)
(* began before the deadline.                                              *)
SomePauseOverlaps(startsAt, deadline) ==
    \E i \in 1 .. completionPauseGeneration :
        /\ completionPauseStartedAt[i] < deadline
        /\ i <= closedCount => completionPauseEndedAt[i] > startsAt

(* The one look the search takes at its result is enough: for every window *)
(* a Lock could have, it says what a scan of every pause would say.        *)
SearchFindsEveryPause ==
    \A s \in 0 .. MaxTime, d \in 0 .. MaxTime :
        completionPauseAffected(s, d) <=> SomePauseOverlaps(s, d)
=============================================================================
