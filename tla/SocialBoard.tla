----------------------------- MODULE SocialBoard -----------------------------
(***************************************************************************)
(* Names and rankings: the handles of LockInEscrow.sol, and the board that *)
(* app/api/social/leaderboard and src/social-score.ts rebuild from the     *)
(* events of the two escrows, each read by a load of its own, in one call  *)
(* or, when the endpoint refuses the range, in pages, while blocks keep    *)
(* coming.                                                                 *)
(***************************************************************************)
EXTENDS Integers, Sequences, FiniteSets, SequencesExt

CONSTANTS
    Players, Handles, NoHandle,
    Today, ScoreDays,       \* UTC days: the board's, and those a run may be on
    DuolingoBlocks,         \* blocks the Duolingo escrow may have been deployed in
    PageBlocks,             \* FALLBACK_BLOCK_RANGE
    MaxBlocks               \* bound on the blocks (one event each)

NoOne == "no one"

ASSUME BoardAssumption == NoHandle \notin Handles /\ NoOne \notin Players /\ ScoreDays \subseteq Nat /\ Today \in Nat
                          /\ PageBlocks \in Nat \ {0} /\ DuolingoBlocks \subseteq Nat \ {0}

Escrows == {"lockIn", "duolingo"}

VARIABLES
    deploymentBlock, \* each escrow's first block, which the program is configured with
    log,            \* the escrows' events, one per block
    profiles,       \* playerHandle, handleOwner, playerProfileHidden, scored days
    past,           \* history: profiles as of each block
    reading,        \* a load of the board in flight
    cached          \* the route's answer, until it expires

boardVars == <<deploymentBlock, log, profiles, past, reading, cached>>

NotReading == [latest |-> 0, loads |-> [e \in Escrows |-> [from |-> 0, events |-> <<>>]]]

BoardInit ==
    /\ \E block \in DuolingoBlocks :
         deploymentBlock = [e \in Escrows |-> IF e = "lockIn" THEN 1 ELSE block]
    /\ log = <<>> /\ past = <<>>
    /\ profiles = [playerHandle |-> [p \in Players |-> NoHandle],
                   handleOwner |-> [h \in Handles |-> NoOne],
                   hidden |-> [p \in Players |-> FALSE],
                   scored |-> [p \in Players |-> {}],
                   finished |-> [p \in Players |-> {}]]
    /\ reading = NotReading /\ cached = NotReading

emit(event, newProfiles) ==
    /\ Len(log) < MaxBlocks
    /\ log' = Append(log, event)
    /\ profiles' = newProfiles
    /\ past' = Append(past, newProfiles)
    /\ UNCHANGED <<deploymentBlock, reading, cached>>

-----------------------------------------------------------------------------
(* The contract.                                                             *)
freeHandle(p, h) == profiles.handleOwner[h] \in {NoOne, p}

\* The old handle becomes free; setting the handle one has changes nothing.
released(p) == [h \in Handles |-> IF h = profiles.playerHandle[p] THEN NoOne ELSE profiles.handleOwner[h]]

setPlayerHandle(p, h) ==
    /\ freeHandle(p, h) /\ profiles.playerHandle[p] # h
    /\ emit([kind |-> "PlayerHandleSet", player |-> p, value |-> h],
            [profiles EXCEPT !.playerHandle[p] = h, !.handleOwner = [released(p) EXCEPT ![h] = p]])

clearPlayerHandle(p) ==
    /\ profiles.playerHandle[p] # NoHandle
    /\ emit([kind |-> "PlayerHandleSet", player |-> p, value |-> NoHandle],
            [profiles EXCEPT !.playerHandle[p] = NoHandle, !.handleOwner = released(p)])

setPlayerProfileHidden(p, hidden) ==
    emit([kind |-> "PlayerProfileVisibilityUpdated", player |-> p, value |-> hidden],
         [profiles EXCEPT !.hidden[p] = hidden])

\* _recordVerifiedDay: a UTC day is awarded once per player.
LockScoreAwarded(p, d) ==
    /\ d \notin profiles.scored[p]
    /\ emit([kind |-> "LockScoreAwarded", player |-> p, value |-> d],
            [profiles EXCEPT !.scored[p] = @ \cup {d}])

\* The Duolingo escrow's event, once per finished Lock: a day may come twice.
CompletionVerified(p, d) ==
    /\ Len(log) + 1 >= deploymentBlock["duolingo"]
    /\ emit([kind |-> "CompletionVerified", player |-> p, value |-> d],
            [profiles EXCEPT !.finished[p] = @ \cup {d}])

-----------------------------------------------------------------------------
(* GET leaderboard: the head is read first and bounds every later read. The  *)
(* two escrows' loads go on side by side; the board waits for both.          *)
loadLeaderboard ==
    /\ reading = NotReading /\ cached = NotReading /\ log # <<>>
    /\ reading' = [latest |-> Len(log),
                   loads |-> [e \in Escrows |-> [from |-> deploymentBlock[e], events |-> <<>>]]]
    /\ UNCHANGED <<deploymentBlock, log, profiles, past, cached>>

unread(e) == reading # NotReading /\ reading.loads[e].from <= reading.latest

\* The events of the next blocks, of which buildSocialLeaderboards uses this escrow's.
readTo(e, to, next) ==
    /\ reading' = [reading EXCEPT !.loads[e] = [from |-> next, events |-> @.events \o SubSeq(log, @.from, to)]]
    /\ UNCHANGED <<deploymentBlock, log, profiles, past, cached>>

readAllEvents(e) ==
    /\ unread(e) /\ reading.loads[e].from = deploymentBlock[e]
    /\ readTo(e, reading.latest, reading.latest + 1)

Bug_pageEnd(from, latest) ==    \* bug: the last block of a page is left out
    IF from + PageBlocks - 1 > latest THEN latest ELSE from + PageBlocks - 2
pageEnd(from, latest) == IF from + PageBlocks - 1 > latest THEN latest ELSE from + PageBlocks - 1
readEventRange(e) ==
    /\ unread(e) /\ reading.latest - deploymentBlock[e] >= PageBlocks
    /\ LET from == reading.loads[e].from IN readTo(e, pageEnd(from, reading.latest), from + PageBlocks)

BoardRead ==
    /\ reading # NotReading /\ \A e \in Escrows : ~unread(e)
    /\ cached' = reading /\ reading' = NotReading
    /\ UNCHANGED <<deploymentBlock, log, profiles, past>>

ReadFails ==
    /\ reading # NotReading
    /\ reading' = NotReading
    /\ UNCHANGED <<deploymentBlock, log, profiles, past, cached>>

CacheExpires ==
    /\ cached # NotReading
    /\ cached' = NotReading
    /\ UNCHANGED <<deploymentBlock, log, profiles, past, reading>>

BoardNext ==
    \/ \E p \in Players :
         \/ \E h \in Handles : setPlayerHandle(p, h)
         \/ clearPlayerHandle(p)
         \/ \E hidden \in BOOLEAN : setPlayerProfileHidden(p, hidden)
         \/ \E d \in ScoreDays : LockScoreAwarded(p, d) \/ CompletionVerified(p, d)
    \/ \E e \in Escrows : readAllEvents(e) \/ readEventRange(e)
    \/ loadLeaderboard \/ BoardRead \/ ReadFails \/ CacheExpires

BoardSpec == BoardInit /\ [][BoardNext]_boardVars

-----------------------------------------------------------------------------
(* buildSocialLeaderboards over the events that were read.                   *)
eventsRead(kind) == cached.loads[IF kind = "CompletionVerified" THEN "duolingo" ELSE "lockIn"].events
eventsOf(p, kind) ==
    {i \in 1..Len(eventsRead(kind)) : eventsRead(kind)[i].player = p /\ eventsRead(kind)[i].kind = kind}
latest(p, kind, default) ==
    IF eventsOf(p, kind) = {} THEN default ELSE eventsRead(kind)[Max(eventsOf(p, kind))].value

daysOf(p, kind) == {eventsRead(kind)[i].value : i \in eventsOf(p, kind)}
overallDays(p) == daysOf(p, "LockScoreAwarded") \cup daysOf(p, "CompletionVerified")
shownHandle(p) == IF latest(p, "PlayerProfileVisibilityUpdated", FALSE) THEN NoHandle
                  ELSE latest(p, "PlayerHandleSet", NoHandle)

utcWeekStartDay == Today - ((Today + 3) % 7)
weeklyDays(p) == {d \in overallDays(p) : utcWeekStartDay <= d /\ d < utcWeekStartDay + 7}
lockScore(p) == 10 * Cardinality(overallDays(p))

(* However it was read and whatever landed meanwhile, the board is the       *)
(* contracts' state at one block: every player under the handle they then    *)
(* had unless hidden, no handle twice, ten points for a day however many     *)
(* runs and lessons it held, and on the board exactly with a day this week.  *)
BoardMatchesContract ==
    cached # NotReading =>
        LET then == past[cached.latest]
            verified(p) == then.scored[p] \cup then.finished[p]
        IN \A p \in Players :
             /\ shownHandle(p) = IF then.hidden[p] THEN NoHandle ELSE then.playerHandle[p]
             /\ \A q \in Players \ {p} : shownHandle(p) # NoHandle => shownHandle(p) # shownHandle(q)
             /\ lockScore(p) = 10 * Cardinality(verified(p))
             /\ weeklyDays(p) # {} <=> \E d \in verified(p) : (d + 3) \div 7 = (Today + 3) \div 7
             /\ \A h \in Handles : then.handleOwner[h] = p <=> then.playerHandle[p] = h
=============================================================================
