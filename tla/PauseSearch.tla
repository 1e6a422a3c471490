----------------------------- MODULE PauseSearch -----------------------------
(***************************************************************************)
(* _completionPauseAffected's binary search, step by step, over every      *)
(* pause history the owner can produce. A transaction is atomic on chain:  *)
(* while a search runs neither the clock nor the ledger moves.             *)
(***************************************************************************)
EXTENDS CompletionPauses, Integers

VARIABLES
    phase,        \* "idle", "searching" or "found"
    startsAt,     \* the Lock's start, the search key
    low, high     \* the loop's variables

vars == <<now, pauseVars, phase, startsAt, low, high>>

Init ==
    /\ InitPauses
    /\ phase = "idle"
    /\ startsAt = 0 /\ low = 1 /\ high = 1

(* Between transactions. *)
OwnerOrBlock ==
    /\ phase = "idle"
    /\ \/ \E paused \in BOOLEAN : setCompletionPaused(paused)
       \/ Tick /\ UNCHANGED pauseVars
    /\ UNCHANGED <<phase, startsAt, low, high>>

Begin(t) ==
    /\ phase = "idle"
    /\ phase' = "searching"
    /\ startsAt' = t
    /\ low' = 1
    /\ high' = closedCount + 1
    /\ UNCHANGED <<now, pauseVars>>

Bug_middle == low   \* bug: a scan, not a binary search
middle == low + (high - low) \div 2

Bug_endedAfterStart(i) == completionPauseEndedAt[i] >= startsAt   \* bug: >=
endedAfterStart(i) == completionPauseEndedAt[i] > startsAt

Halve ==
    /\ phase = "searching" /\ low < high
    /\ \/ /\ endedAfterStart(middle)
          /\ high' = middle
          /\ UNCHANGED low
       \/ /\ ~endedAfterStart(middle)
          /\ low' = middle + 1
          /\ UNCHANGED high
    /\ UNCHANGED <<now, pauseVars, phase, startsAt>>

LeaveLoop ==
    /\ phase = "searching" /\ ~(low < high)
    /\ phase' = "found"
    /\ UNCHANGED <<now, pauseVars, startsAt, low, high>>

Return ==
    /\ phase = "found"
    /\ phase' = "idle"
    /\ UNCHANGED <<now, pauseVars, startsAt, low, high>>

Next == OwnerOrBlock \/ (\E t \in 0 .. MaxTime : Begin(t)) \/ Halve \/ LeaveLoop \/ Return

Spec == Init /\ [][Next]_vars

-----------------------------------------------------------------------------

(* The ledger and the loop's variables keep their types. *)
TypeOK ==
    /\ PausesTypeOK
    /\ phase \in {"idle", "searching", "found"}
    /\ startsAt \in 0 .. MaxTime
    /\ low \in Nat \ {0} /\ high \in Nat \ {0}

(* The loop invariant: everything below low ended too early, everything    *)
(* from high on did not, and the two never cross.                          *)
LoopInvariant ==
    phase # "idle" =>
        /\ low <= high /\ high <= closedCount + 1
        /\ \A j \in 1 .. low - 1 : completionPauseEndedAt[j] <= startsAt
        /\ \A j \in high .. closedCount : completionPauseEndedAt[j] > startsAt

(* When the loop ends, low is the first closed pause that ended after the  *)
(* start of the Lock (LockInDuolingoEscrow.sol:570-576).                   *)
SearchCorrect == phase = "found" => IsFirstEndedAfter(startsAt, low)

(* Settlement cannot run out of gas on a long pause history: every round   *)
(* of the loop at least halves what is left, so it always ends.            *)
EveryRoundHalves ==
    [][phase = "searching" /\ phase' = "searching" => 2 * (high' - low') <= high - low]_vars
=============================================================================
