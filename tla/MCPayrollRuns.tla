--------------------------- MODULE MCPayrollRuns ---------------------------
(***************************************************************************)
(* Instances of PayrollRuns for TLC: two branches, the standard run of     *)
(* each for the first month, the consolidated run of both, and a run of    *)
(* the second month that late items and reopening concern.                 *)
(***************************************************************************)
EXTENDS PayrollRuns, TLC

CONSTANTS ali, mona, a, b, A1, B1, C1, A2, absence, loan

MCRunMonth == [r \in Runs |-> IF r = A2 THEN 2 ELSE 1]
MCRunBranches ==
    [r \in Runs |-> CASE r \in {A1, A2} -> {a} [] r = B1 -> {b} [] OTHER -> {a, b}]
MCConsolidated == Runs \cap {C1}
MCItemEmployee == [i \in Items |-> ali]
MCItemMonth == [i \in Items |-> 1]
MCInstallments == Items \cap {loan}
MCHomeBranch == [e \in Employees |-> IF e = ali THEN a ELSE b]

\* Two workers are interchangeable.
Symmetry == Permutations(Workers)

=============================================================================
