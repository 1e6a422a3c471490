-------------------------- MODULE MCDuolingoEscrow --------------------------
(* Model values and bounds for LockInDuolingoEscrow.sol on its own. *)
EXTENDS DuolingoEscrowProperties, TLC

CONSTANTS a, b, c, i1, i2, n1, n2, n3

(* Each wallet proves one account of its own. *)
OwnIdentity == [w \in Wallets |-> {w}]
TwoProofsEach == Wallets \X {"baseline", "final"}
OwnNullifiers == [w \in Wallets |-> {w} \X {"baseline", "final"}]
Symmetry == Permutations(Wallets)

(* Every wallet can prove every account, with any nullifier. *)
AnyIdentity == [w \in Wallets |-> Identities]
AnyNullifier == [w \in Wallets |-> Nullifiers]
EvidenceSymmetry ==
    Permutations(Wallets) \cup Permutations(Identities) \cup Permutations(Nullifiers)

OnePact == 1 .. 1
TwoPacts == 1 .. 2
=============================================================================
