--------------------------- MODULE MCAccrualLedger ---------------------------
(* Two months of two days, two transactions at a time. *)
EXTENDS AccrualLedger, TLC

Symmetry == Permutations(Workers)
=============================================================================
