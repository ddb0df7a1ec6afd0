-------------------------- MODULE MCPendingActions --------------------------
(***************************************************************************)
(* Instances of PendingActions for TLC: an employee or two, a branch       *)
(* clerk, a manager who is first approver and accountant, an HR manager    *)
(* with superuser rights, and an HR officer.                               *)
(***************************************************************************)
EXTENDS PendingActions, TLC

CONSTANTS ali, mona, clerk, manager, hr, officer

\* Requests are interchangeable.
Symmetry == Permutations(Requests)

=============================================================================
