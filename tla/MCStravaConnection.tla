-------------------------- MODULE MCStravaConnection --------------------------
(* Model values and symmetry for the Strava connection. *)
EXTENDS StravaConnection, TLC

CONSTANTS w1, w2, ann, ben, r1, r2

Symmetry == Permutations(Wallets) \cup Permutations(Athletes) \cup Permutations(Requests)
=============================================================================
