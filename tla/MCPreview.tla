------------------------------ MODULE MCPreview ------------------------------
(* One wallet's preview on its own, with two targets to choose from and room *)
(* for one proof of a baseline, one of a final and one more baseline.        *)
EXTENDS Preview, TLC

PreviewSymmetry == Permutations(Calls)
=============================================================================
