--------------------------- MODULE MCDuolingoLock ---------------------------
(* Model values and bounds for the backend and the contract together. *)
EXTENDS DuolingoLockProperties, TLC

CONSTANTS a, b, i1, i2, h1, h2

(* Wallet a proves one account; wallet b could prove either. *)
Accounts == a :> {i1} @@ b :> {i1, i2}
OwnAccounts == a :> {i1} @@ b :> {i2}

OnePact == 1 .. 1

(* What the backend hashes into a nullifier: an account and a create nonce, *)
(* or an account, a purpose and a Lock.                                     *)
BackendNullifiers ==
    (Identities \X {"create"} \X Nonces) \cup (Identities \X {"join", "final"} \X PactIds)
NoNullifiers == [w \in Wallets |-> {}]

(* Bound of the races run: requests overlap only when they verify one and   *)
(* the same session, as a polling client's do.                              *)
busy(h) == handlers[h] # Idle
OneSessionAtATime ==
    \A h, k \in Handlers : h # k /\ busy(h) /\ busy(k) =>
        /\ handlers[h].step # "saving" /\ handlers[k].step # "saving"
        /\ handlers[h].session = handlers[k].session

Symmetry == Permutations(Handlers)
=============================================================================
