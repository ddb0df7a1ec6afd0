-------------------------- MODULE MCLoanInstallments --------------------------
(***************************************************************************)
(* Instances of LoanInstallments for TLC: a loan of two installments and   *)
(* one of a single installment that competes for the same salary.          *)
(***************************************************************************)
EXTENDS LoanInstallments

CONSTANTS i1, i2, j1

MCLoanOf == [i \in Installments |-> IF i = j1 THEN 2 ELSE 1]
MCDueMonth == [i \in Installments |-> IF i = i2 THEN 2 ELSE 1]
MCDueAmount == [i \in Installments |-> IF i = j1 THEN 1 ELSE 2]

=============================================================================
