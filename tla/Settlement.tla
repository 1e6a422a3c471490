----------------------------- MODULE Settlement -----------------------------
(***************************************************************************)
(* What a Lock promises, without saying how: players put down one and the  *)
(* same stake, some of them finish, the Lock is settled once, and then the *)
(* whole pool goes to the winners in shares that differ by at most one     *)
(* base unit. README.md, "Settlement": finishers split the pool, and if    *)
(* the Lock is cancelled or nobody finishes everybody gets the stake back. *)
(***************************************************************************)
EXTENDS Integers, FiniteSetsExt

CONSTANT Players

VARIABLES stake, players, finishers, outcome, paid

svars == <<stake, players, finishers, outcome, paid>>

Winners == IF outcome = "refund" \/ finishers = {} THEN players ELSE finishers
Pool == stake * Cardinality(players)
TotalPaid(f) == LET amount(w) == f[w] IN MapThenSumSet(amount, Players)

Init ==
    /\ stake = 0
    /\ players = {} /\ finishers = {}
    /\ outcome = "open"
    /\ paid = [w \in Players |-> 0]

(* Once somebody has finished, nobody can buy in any more. *)
Enter(w) ==
    /\ outcome = "open" /\ finishers = {}
    /\ w \notin players
    /\ players' = players \cup {w}
    /\ stake' \in Nat \ {0}
    /\ players # {} => stake' = stake
    /\ UNCHANGED <<finishers, outcome, paid>>

Finish(w) ==
    /\ outcome = "open"
    /\ w \in players \ finishers
    /\ finishers' = finishers \cup {w}
    /\ UNCHANGED <<stake, players, outcome, paid>>

Settle ==
    /\ outcome = "open" /\ players # {}
    /\ outcome' \in {"refund", "split"}
    /\ UNCHANGED <<stake, players, finishers, paid>>

FairAmount(x) ==
    LET n == Cardinality(Winners) IN x \in {Pool \div n, (Pool + n - 1) \div n}

Pay(w) ==
    /\ outcome # "open"
    /\ w \in Winners /\ paid[w] = 0
    /\ paid' = [paid EXCEPT ![w] = paid'[w]]
    /\ FairAmount(paid'[w])
    /\ TotalPaid(paid') <= Pool
    /\ (\A v \in Winners : paid'[v] # 0) => TotalPaid(paid') = Pool
    /\ UNCHANGED <<stake, players, finishers, outcome>>

Next == Settle \/ \E w \in Players : Enter(w) \/ Finish(w) \/ Pay(w)

Spec == Init /\ [][Next]_svars
=============================================================================
