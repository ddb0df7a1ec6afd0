--------------------------- MODULE MCHiringRequests ---------------------------
(***************************************************************************)
(* Instances of HiringRequests for TLC.                                    *)
(***************************************************************************)
EXTENDS HiringRequests, TLC

Symmetry == Permutations(Officers) \cup Permutations(Workers) \cup Permutations(Complete)

=============================================================================
