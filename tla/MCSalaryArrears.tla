--------------------------- MODULE MCSalaryArrears ---------------------------
(***************************************************************************)
(* Instances of SalaryArrears for TLC.                                     *)
(***************************************************************************)
EXTENDS SalaryArrears

=============================================================================
