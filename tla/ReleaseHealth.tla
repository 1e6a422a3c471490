---------------------------- MODULE ReleaseHealth ----------------------------
(***************************************************************************)
(* What a page offers: components/use-release-health.ts over               *)
(* app/api/health and src/product-flags.ts.  An answer is green only if    *)
(* every check of the chain and the configuration holds and the flags      *)
(* agree with the contract's switches; a warm instance keeps a green one   *)
(* and shares one read among the callers that wait.  The chain's values    *)
(* are read one by one and may change in between.                          *)
(***************************************************************************)
EXTENDS Integers, FiniteSets

CONSTANTS
    Actions,                \* newPacts, join, checkIns
    Polls,                  \* requests of a page that may be under way at once
    HealthTtl, MaxRead,     \* HEALTH_TTL_MS and maxDuration
    MaxSecond               \* bound on the clock

ASSUME HealthAssumption == HealthTtl \in Nat /\ MaxRead \in Nat /\ MaxSecond \in Nat

VARIABLES
    second,
    flags,          \* the flags of this deployment that read "true"
    open,           \* the actions whose switch on the contract is not paused
    cachedHealth,   \* the green answer kept, if any
    healthInFlight, \* the read under way, if any, and how each switch stood since it began
    polls,          \* the page's requests
    health,         \* what the page shows
    openUntil       \* history: the last second each switch was open

healthVars == <<second, flags, open, cachedHealth, healthInFlight, polls, health, openUntil>>

CLOSED_ACTIONS == [actions |-> {}, asked |-> 0]
IdlePoll == [step |-> "idle", asked |-> 0, actions |-> {}]

HealthInit ==
    /\ second = 1
    /\ flags \in SUBSET Actions /\ open \in SUBSET Actions
    /\ cachedHealth = {} /\ healthInFlight = {}
    /\ polls = [p \in Polls |-> IdlePoll]
    /\ health = CLOSED_ACTIONS
    /\ openUntil = [x \in Actions |-> IF x \in open THEN 1 ELSE 0]

(* The contract's owner pauses an action or opens it.                        *)
Turn(x) ==
    /\ open' = (open \ {x}) \cup ({x} \ open)
    /\ openUntil' = [openUntil EXCEPT ![x] = second]
    /\ healthInFlight' = {[read EXCEPT !.everOpen = @ \cup {x}, !.everPaused = @ \cup {x}] : read \in healthInFlight}
    /\ UNCHANGED <<second, flags, cachedHealth, polls, health>>

PassSecond ==
    /\ second < MaxSecond
    /\ \A read \in healthInFlight : second < read.since + MaxRead
    /\ second' = second + 1
    /\ openUntil' = [x \in Actions |-> IF x \in open THEN second' ELSE openUntil[x]]
    /\ UNCHANGED <<flags, open, cachedHealth, healthInFlight, polls, health>>

-----------------------------------------------------------------------------
(* GET health.                                                               *)
Bug_fresh(kept) == TRUE     \* bug: the kept answer never expires
fresh(kept) == second < kept.expiresAt

Get(p) ==
    /\ polls[p].step = "idle"
    /\ IF \E kept \in cachedHealth : fresh(kept)
       THEN /\ polls' = [polls EXCEPT ![p] = [step |-> "answered", asked |-> second,
                             actions |-> (CHOOSE kept \in cachedHealth : TRUE).actions]]
            /\ UNCHANGED healthInFlight
       ELSE /\ polls' = [polls EXCEPT ![p] = [IdlePoll EXCEPT !.step = "waiting", !.asked = second]]
            /\ healthInFlight' = IF healthInFlight # {} THEN healthInFlight
                                 ELSE {[since |-> second, everOpen |-> open, everPaused |-> Actions \ open]}
    /\ UNCHANGED <<second, flags, open, cachedHealth, health, openUntil>>

(* respond: with the flags and the switches not in step, nothing is offered. *)
flagPauseAlignment(read) == read = flags
respond(read, ok) == IF ok /\ flagPauseAlignment(read) THEN flags \cap read ELSE {}

answer(actions) ==
    polls' = [p \in Polls |->
        IF polls[p].step = "waiting" THEN [polls[p] EXCEPT !.step = "answered", !.actions = actions] ELSE polls[p]]

\* Each switch as it stood at some moment of the read; any other check may fail.
readHealth(inFlight, read, ok) ==
    /\ read \subseteq inFlight.everOpen /\ Actions \ read \subseteq inFlight.everPaused
    /\ answer(respond(read, ok))
    /\ cachedHealth' = IF ok /\ flagPauseAlignment(read)
                       THEN {[expiresAt |-> second + HealthTtl, actions |-> respond(read, ok)]} ELSE cachedHealth
    /\ healthInFlight' = {}
    /\ UNCHANGED <<second, flags, open, health, openUntil>>

(* The instance goes, with what it kept and what it was reading.            *)
Cold ==
    /\ cachedHealth' = {} /\ healthInFlight' = {}
    /\ answer({})
    /\ UNCHANGED <<second, flags, open, health, openUntil>>

(* The page applies the answers as they come, whatever their order.         *)
refresh(p) ==
    /\ polls[p].step = "answered"
    /\ health' = IF polls[p].actions = {} THEN CLOSED_ACTIONS
                 ELSE [actions |-> polls[p].actions, asked |-> polls[p].asked]
    /\ polls' = [polls EXCEPT ![p] = IdlePoll]
    /\ UNCHANGED <<second, flags, open, cachedHealth, healthInFlight, openUntil>>

HealthNext ==
    \/ \E x \in Actions : Turn(x)
    \/ PassSecond \/ Cold
    \/ \E inFlight \in healthInFlight, read \in SUBSET Actions, ok \in BOOLEAN : readHealth(inFlight, read, ok)
    \/ \E p \in Polls : Get(p) \/ refresh(p)

HealthSpec == HealthInit /\ [][HealthNext]_healthVars

-----------------------------------------------------------------------------
(* "Anything unproven reports false": a page offers an action only if the    *)
(* deployment means to and its switch was open at most one read and one      *)
(* cache's life before the page asked for the answer it shows, which need    *)
(* not be the last one it asked for; and all it means to or nothing.         *)
OfferedWasOpen ==
    /\ health.actions # {} => health.actions = flags
    /\ \A x \in health.actions : openUntil[x] >= health.asked - HealthTtl - MaxRead
=============================================================================
