----------------------------- MODULE RateLimiter -----------------------------
(***************************************************************************)
(* src/rate-limit.ts: the in-memory fixed-window limiter in front of every *)
(* endpoint that costs something.  One warm instance holds one map per     *)
(* policy, from the client's key to its window, in insertion order; a full *)
(* map drops expired windows first and then the oldest ones, live or not.  *)
(***************************************************************************)
EXTENDS Integers, FiniteSets, FiniteSetsExt

CONSTANTS
    Clients,        \* keys: a client address, with or without a signed scope
    limit, windowMs, maxEntries,
    MaxMs           \* bound on Date.now()

ASSUME LimiterAssumption == limit \in Nat \ {0} /\ windowMs \in Nat \ {0}
                            /\ maxEntries \in Nat \ {0} /\ MaxMs \in Nat \ {0} /\ IsFiniteSet(Clients)

VARIABLES
    nowMs,
    entries,        \* the Map, from a key to its window [count, resetAtMs]
    order,          \* its insertion order: <<a, b>> when a was there before b
    granted,        \* history: requests of each client let through, at each time of the last
                    \* window, counted up to one more than twice the limit
    refused,        \* history: the client the last check refused, if it did
    droppedAt       \* history: when a live window of each client was dropped in the last window, or 0

limiterVars == <<nowMs, entries, order, granted, refused, droppedAt>>

Ms == 1..MaxMs

noEntries == [c \in {} |-> 0]

LimiterInit ==
    /\ nowMs = 1
    /\ entries = noEntries /\ order = {}
    /\ granted = [c \in Clients |-> [t \in Ms |-> 0]]
    /\ refused = {}
    /\ droppedAt = [c \in Clients |-> 0]

live(client) == client \in DOMAIN entries /\ entries[client].resetAtMs > nowMs

pruneExpired(keys) == {c \in keys : live(c)}

\* The oldest are deleted while the map is full: the youngest maxEntries - 1 stay.
younger(c, keys) == {d \in keys : <<c, d>> \in order}
Bug_makeRoom(keys) ==   \* bug: a map with one place left counts as full
    {c \in keys : Cardinality(younger(c, keys)) < maxEntries - 2}
makeRoom(keys) == {c \in keys : Cardinality(younger(c, keys)) < maxEntries - 1}

\* The keys that stay when `client` gets a new window.
roomFor(client) ==
    LET others == DOMAIN entries \ {client}
    IN IF Cardinality(others) >= maxEntries THEN makeRoom(pruneExpired(others)) ELSE others

check(client) ==
    LET kept == IF live(client) THEN DOMAIN entries ELSE roomFor(client)
        entry == IF live(client) THEN entries[client]
                 ELSE [count |-> 0, resetAtMs |-> nowMs + windowMs]
        allowed == entry.count < limit
    IN /\ entries' = [c \in kept \cup {client} |->
                        IF c # client THEN entries[c]
                        ELSE IF allowed THEN [entry EXCEPT !.count = @ + 1] ELSE entry]
       /\ order' = IF live(client) THEN order
                   ELSE (order \cap (kept \X kept)) \cup (kept \X {client})
       /\ granted' = IF allowed THEN [granted EXCEPT ![client][nowMs] = Min({@ + 1, 2 * limit + 1})] ELSE granted
       /\ refused' = IF allowed THEN {} ELSE {client}
       /\ droppedAt' = [c \in Clients |-> IF live(c) /\ c \notin kept \cup {client} THEN nowMs ELSE droppedAt[c]]
       /\ UNCHANGED nowMs

Elapse ==
    /\ nowMs < MaxMs
    /\ nowMs' = nowMs + 1
    /\ granted' = [c \in Clients |-> [t \in Ms |-> IF t > nowMs' - windowMs THEN granted[c][t] ELSE 0]]
    /\ refused' = {}
    /\ droppedAt' = [c \in Clients |-> IF droppedAt[c] > nowMs' - windowMs THEN droppedAt[c] ELSE 0]
    /\ UNCHANGED <<entries, order>>

\* A cold start: the map is this instance's only memory.
ColdStart ==
    /\ entries' = noEntries /\ order' = {}
    /\ granted' = [c \in Clients |-> [t \in Ms |-> 0]]
    /\ refused' = {}
    /\ droppedAt' = [c \in Clients |-> 0]
    /\ UNCHANGED nowMs

LimiterNext == Elapse \/ ColdStart \/ \E c \in Clients : check(c)

LimiterSpec == LimiterInit /\ [][LimiterNext]_limiterVars

-----------------------------------------------------------------------------
grantedLately(client) == MapThenSumSet(LAMBDA t : granted[client][t], Ms)

(* What a client may rely on and what the endpoint may rely on: a request is *)
(* refused only after `limit` were let through less than a window ago; no    *)
(* window-long stretch lets through more than twice the limit unless the     *)
(* client's window was dropped in it; and a live window is dropped only      *)
(* while at least maxEntries other clients are within theirs.                *)
LimitsAreKept ==
    \A c \in Clients :
        /\ c \in refused => grantedLately(c) >= limit
        /\ grantedLately(c) > 2 * limit => droppedAt[c] > 0
        /\ droppedAt[c] = nowMs => Cardinality({d \in Clients \ {c} : grantedLately(d) > 0}) >= maxEntries
=============================================================================
