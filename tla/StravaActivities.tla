-------------------------- MODULE StravaActivities --------------------------
(***************************************************************************)
(* src/strava-activities.ts: which of an athlete's activities counts for a *)
(* Lock day. An activity is what Strava's API says of it; distances are    *)
(* metres, moving and elapsed times seconds, start dates the model's time. *)
(***************************************************************************)
EXTENDS Integers, FiniteSets

CONSTANT PageSize   \* per_page: 50

ASSUME PageIsPositive == PageSize \in Nat \ {0}

(* The window fetchStravaActivities asks Strava for is a second wider than *)
(* the day on either side; only one page of it is read.                    *)
asked(all, from, to) == {a \in all : a.startsAt >= from /\ a.startsAt <= to}

pages(all, from, to) ==
    LET found == asked(all, from, to)
        size == IF Cardinality(found) < PageSize THEN Cardinality(found) ELSE PageSize
    IN  {page \in SUBSET found : Cardinality(page) = size}

inWindow(list, from, to) == {a \in list : a.startsAt >= from /\ a.startsAt < to}

hasGps(a) == a.gps
isRun(a) == a.sport = "Run"
outdoor(a) == ~a.manual /\ ~a.trainer /\ ~a.flagged /\ hasGps(a)

(* "The longest qualifying run of the day": the longest of the outdoor     *)
(* runs, before it is known whether it qualifies.                          *)
candidates(list, from, to) == {a \in inWindow(list, from, to) : isRun(a) /\ outdoor(a)}

longest(runs) == {a \in runs : \A b \in runs : b.distance <= a.distance}

(* The plausibility envelope.                                              *)
plausible(a) ==
    /\ a.movingTime > 0 /\ a.elapsedTime >= a.movingTime
    /\ a.distance <= a.movingTime * 9
    /\ a.distance * 2 >= a.movingTime
    /\ a.elapsedTime <= a.movingTime * 4 + 900

(* What selectQualifyingRun may return for a list: one of these, or it     *)
(* throws when there is none.                                              *)
selectQualifyingRun(list, from, to, minDistance) ==
    {a \in longest(candidates(list, from, to)) : a.distance >= minDistance /\ plausible(a)}
=============================================================================
