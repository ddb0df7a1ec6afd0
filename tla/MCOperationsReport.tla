-------------------------- MODULE MCOperationsReport --------------------------
(***************************************************************************)
(* Instances of OperationsReport for TLC.                                  *)
(***************************************************************************)
EXTENDS OperationsReport

CONSTANTS r1, r2, a, b

=============================================================================
