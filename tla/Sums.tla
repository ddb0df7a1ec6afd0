-------------------------------- MODULE Sums --------------------------------
(***************************************************************************)
(* What the rows of a set add up to.  The modules state every total with   *)
(* this one operator, so that the facts of SumsProofs apply to all.        *)
(***************************************************************************)
EXTENDS FiniteSetsExt

\* The sum of f[i] over the members i of S.
SumOver(f, S) == MapThenSumSet(LAMBDA i : f[i], S)

=============================================================================
