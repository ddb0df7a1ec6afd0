--------------------------- MODULE LoanInstallments ---------------------------
(***************************************************************************)
(* The loans of one employee and the payroll runs that collect them, one   *)
(* run a month.  A draft lists the installments of its month: those the    *)
(* salary has room for are deducted, the others deferred.  Locking the run *)
(* marks the first PAID and carries the others to the next month: merged   *)
(* into the loan's installment of that month, or moved there.  Unlocking   *)
(* undoes it.                                                              *)
(*                                                                         *)
(* Each handler is one transaction and one step here: what interleaves     *)
(* inside it is the subject of PayrollRuns.                                *)
(***************************************************************************)
EXTENDS Naturals, FiniteSets, Sums

CONSTANTS
    LastMonth,      \* the months that have a run are 1..LastMonth
    LastLoan,       \* the loans are 1..LastLoan, in the order of their ids
    Installments,
    LoanOf,         \* [Installments -> Loans]
    DueMonth,       \* [Installments -> Months]: as generated
    DueAmount,      \* [Installments -> Nat]: as generated
    Salaries        \* what a month's salary may leave for loans

Months == 1..LastMonth
Loans == 1..LastLoan
NoMonth == 0

ASSUME LoanAssumption ==
    /\ LastMonth \in Nat
    /\ LastLoan \in Nat
    /\ LoanOf \in [Installments -> Loans]
    /\ DueMonth \in [Installments -> Months]
    /\ DueAmount \in [Installments -> Nat \ {0}]
    /\ Salaries \subseteq Nat
    /\ \A l \in Loans : \E i \in Installments : LoanOf[i] = l
    /\ \A i, j \in Installments :
          LoanOf[i] = LoanOf[j] /\ DueMonth[i] = DueMonth[j] => i = j

VARIABLES
    loan,     \* loan[l]: none, active, paid, deleted
    inst,     \* inst[i]: the row of installment i
    run,      \* run[m]: absent, draft, locked
    line,     \* line[m]: the loan_installments listed in the breakdown of m
    deferred, \* deferred[m]: the deferred_installments of m
    overtaken,\* history: an Overtaken draft was locked
    outdated  \* history: an Outdated draft was locked

history == <<overtaken, outdated>>
vars == <<loan, inst, run, line, deferred, history>>

-----------------------------------------------------------------------------
Row == [status : {"none", "pending", "paid", "skipped"}, amount : Nat,
        month : Nat, run : Months \cup {NoMonth}]

\* mode is "" until the run is locked; from is the month a shift left.
Carried == [id : Installments, mode : {"", "merged", "shifted"},
            target : SUBSET Installments, from : Nat]

\* The type of every variable; a deferral has a target exactly when merged.
TypeOK ==
    /\ loan \in [Loans -> {"none", "active", "paid", "deleted"}]
    /\ inst \in [Installments -> Row]
    /\ run \in [Months -> {"absent", "draft", "locked"}]
    /\ \A m \in Months :
          /\ line[m] \subseteq [id : Installments, amount : Nat]
          /\ deferred[m] \subseteq Carried
          /\ \A d \in deferred[m] : d.mode # "" => run[m] = "locked"
          /\ \A d \in deferred[m] : Cardinality(d.target) = IF d.mode = "merged" THEN 1 ELSE 0
    /\ overtaken \in BOOLEAN /\ outdated \in BOOLEAN

Init ==
    /\ loan = [l \in Loans |-> "none"]
    /\ inst = [i \in Installments |->
                 [status |-> "none", amount |-> DueAmount[i],
                  month |-> DueMonth[i], run |-> NoMonth]]
    /\ run = [m \in Months |-> "absent"]
    /\ line = [m \in Months |-> {}]
    /\ deferred = [m \in Months |-> {}]
    /\ overtaken = FALSE /\ outdated = FALSE

-----------------------------------------------------------------------------
(* Loans.                                                                  *)

\* An approved loan request generates the installments.
Issue(l) ==
    /\ loan[l] = "none"
    /\ loan' = [loan EXCEPT ![l] = "active"]
    /\ inst' = [i \in Installments |->
                  IF LoanOf[i] = l THEN [inst[i] EXCEPT !.status = "pending"]
                  ELSE inst[i]]
    /\ UNCHANGED <<run, line, deferred, history>>

\* unique_together of (loan, month): a handler that breaks it is rolled back.
OneAMonth(rows) ==
    \A i, j \in Installments :
        LoanOf[i] = LoanOf[j] /\ rows[i].month = rows[j].month => i = j

Amounts == [i \in Installments |-> inst[i].amount]

Sum(S) == SumOver(Amounts, S)

Consumed(l) ==
    \E i \in Installments :
        /\ LoanOf[i] = l
        /\ inst[i].status = "paid" \/ inst[i].run # NoMonth

\* A loan is soft-deleted, its installments stay; refused once one of them
\* was collected.
DeleteLoan(l) ==
    /\ loan[l] \in {"active", "paid"}
    /\ ~Consumed(l)
    /\ loan' = [loan EXCEPT ![l] = "deleted"]
    /\ UNCHANGED <<inst, run, line, deferred, history>>

-----------------------------------------------------------------------------
(* Building a draft.                                                       *)

\* The installments of month m not bound to another run.
Due(m) ==
    {i \in Installments : /\ inst[i].status = "pending"
                          /\ inst[i].month = m
                          /\ loan[LoanOf[i]] # "deleted"
                          /\ inst[i].run \in {NoMonth, m}}

\* Loan by loan, an installment is deducted in full when what is left of the
\* salary s has room for it.
Left(m, s) ==
    LET left[l \in 0..LastLoan] ==
          IF l = 0 THEN s
          ELSE LET taken == {i \in Due(m) : LoanOf[i] = l /\ inst[i].amount <= left[l - 1]}
               IN  left[l - 1] - Sum(taken)
    IN  left

Included(m, s) == {i \in Due(m) : inst[i].amount <= Left(m, s)[LoanOf[i] - 1]}

\* A draft, new or not, is computed from scratch.
Build(m, s) ==
    /\ run[m] # "locked"
    /\ run' = [run EXCEPT ![m] = "draft"]
    /\ line' = [line EXCEPT ![m] =
                  {[id |-> i, amount |-> inst[i].amount] : i \in Included(m, s)}]
    /\ deferred' = [deferred EXCEPT ![m] =
                      {[id |-> i, mode |-> "", target |-> {}, from |-> NoMonth] :
                         i \in Due(m) \ Included(m, s)}]
    /\ UNCHANGED <<loan, inst, history>>

\* A draft is deleted: what referred to it is set to null.
Delete(m) ==
    /\ run[m] = "draft"
    /\ run' = [run EXCEPT ![m] = "absent"]
    /\ line' = [line EXCEPT ![m] = {}]
    /\ deferred' = [deferred EXCEPT ![m] = {}]
    /\ inst' = [i \in Installments |->
                  IF inst[i].run = m THEN [inst[i] EXCEPT !.run = NoMonth] ELSE inst[i]]
    /\ UNCHANGED <<loan, history>>

-----------------------------------------------------------------------------
(* Locking.                                                                *)

Listed(m) == {x.id : x \in line[m]}
Postponed(m) == {d.id : d \in deferred[m]}

\* Mutant: an item collected by another run meanwhile is not noticed.
Open_AnyStatus(i) == TRUE

Open(i) == inst[i].status = "pending" /\ inst[i].run = NoMonth

\* The installment of the same loan in the month after m.
NextOf(i, m) ==
    {j \in Installments \ {i} : /\ LoanOf[j] = LoanOf[i]
                                /\ inst[j].month = m + 1
                                /\ inst[j].status # "none"}

\* The next installment takes the amount only while it is pending (the items
\* of this run have just been marked PAID).
Mergeable(j, m) == inst[j].status = "pending" /\ j \notin Listed(m)

\* Mutant: the installment that took the amount is not remembered.
Carry_TargetLost(d, m) ==
    IF NextOf(d.id, m) = {}
    THEN [d EXCEPT !.mode = "shifted", !.from = inst[d.id].month]
    ELSE [d EXCEPT !.mode = "merged"]

\* How the deferred item d of run m is carried to the next month.
Carry(d, m) ==
    IF NextOf(d.id, m) = {}
    THEN [d EXCEPT !.mode = "shifted", !.from = inst[d.id].month]
    ELSE [d EXCEPT !.mode = "merged", !.target = NextOf(d.id, m)]

\* The rows after the items of run m are bound and its deferred ones carried.
Collected(m) ==
    [i \in Installments |->
        IF i \in Listed(m) THEN [inst[i] EXCEPT !.status = "paid", !.run = m]
        ELSE IF i \in Postponed(m)
        THEN IF NextOf(i, m) = {} THEN [inst[i] EXCEPT !.month = m + 1]
             ELSE [inst[i] EXCEPT !.status = "skipped", !.run = m]
        ELSE [inst[i] EXCEPT !.amount =
                @ + Sum({k \in Postponed(m) : i \in NextOf(k, m)})]]

PendingIn(l, rows) == {i \in Installments : LoanOf[i] = l /\ rows[i].status = "pending"}

\* Mutant: a loan is closed whatever is still pending.
Closed_Always(l, m) == loan[l] = "active" /\ \E i \in Listed(m) : LoanOf[i] = l

\* An active loan is PAID by the run that collects its last installment.
Closed(l, m) ==
    /\ loan[l] = "active"
    /\ \E i \in Listed(m) : LoanOf[i] = l
    /\ PendingIn(l, Collected(m)) = {}

Locked == {m \in Months : run[m] = "locked"}

\* The draft of m names an installment into which a run of a later month that is
\* locked has merged another: it was built before and is locked out of order.
Overtaken(m) ==
    \E n \in Locked : n > m /\ \E d \in deferred[n] :
        d.target \cap (Listed(m) \cup Postponed(m)) # {}

\* The draft of m deducts an amount that is not the installment's any more:
\* another run has merged a deferred one into it, or was reopened, since it was
\* built.  Locking compares ids, never amounts.
Outdated(m) == \E x \in line[m] : x.amount # inst[x.id].amount

Lock(m) ==
    /\ run[m] = "draft"
    /\ \A i \in Listed(m) \cup Postponed(m) : Open(i)
    /\ \A i \in Postponed(m) : \A j \in NextOf(i, m) : Mergeable(j, m)
    /\ run' = [run EXCEPT ![m] = "locked"]
    /\ inst' = Collected(m)
    /\ OneAMonth(inst')
    /\ deferred' = [deferred EXCEPT ![m] = {Carry(d, m) : d \in deferred[m]}]
    /\ loan' = [l \in Loans |-> IF Closed(l, m) THEN "paid" ELSE loan[l]]
    /\ overtaken' = (overtaken \/ Overtaken(m))
    /\ outdated' = (outdated \/ Outdated(m))
    /\ UNCHANGED line

-----------------------------------------------------------------------------
(* Unlocking.                                                              *)

\* Mutant: the amounts merged into the next installments stay there.
Reverted_AmountKept(m) ==
    [i \in Installments |->
        IF inst[i].run = m THEN [inst[i] EXCEPT !.status = "pending", !.run = NoMonth]
        ELSE IF \E d \in deferred[m] : d.id = i /\ d.mode = "shifted"
        THEN [inst[i] EXCEPT !.month =
                (CHOOSE d \in deferred[m] : d.id = i).from]
        ELSE inst[i]]

\* The rows after run m is undone: what it bound is pending again, a shifted
\* installment goes back, and a merged amount is taken off its target.
Reverted(m) ==
    [i \in Installments |->
        LET merged == {d.id : d \in {d \in deferred[m] : i \in d.target}}
            back == {d \in deferred[m] : d.id = i /\ d.mode = "shifted"}
            row == [inst[i] EXCEPT !.amount = @ - Sum(merged)]
        IN  IF inst[i].run = m THEN [row EXCEPT !.status = "pending", !.run = NoMonth]
            ELSE IF back # {} THEN [row EXCEPT !.month = (CHOOSE d \in back : TRUE).from]
            ELSE row]

LaterLocked(m) == \E n \in Months : n > m /\ run[n] = "locked"

\* The paid loans that have a pending installment again are active.
Unlock(m) ==
    /\ run[m] = "locked"
    /\ ~LaterLocked(m)
    /\ run' = [run EXCEPT ![m] = "draft"]
    /\ inst' = Reverted(m)
    /\ OneAMonth(inst')
    /\ deferred' = [deferred EXCEPT ![m] =
                      {[d EXCEPT !.mode = "", !.target = {}, !.from = NoMonth] : d \in @}]
    /\ loan' = [l \in Loans |->
                  IF loan[l] = "paid" /\ PendingIn(l, inst') # {} THEN "active" ELSE loan[l]]
    /\ UNCHANGED <<line, history>>

Next ==
    \/ \E l \in Loans : Issue(l) \/ DeleteLoan(l)
    \/ \E m \in Months :
         \/ \E s \in Salaries : Build(m, s)
         \/ Delete(m) \/ Lock(m) \/ Unlock(m)

Spec == Init /\ [][Next]_vars

-----------------------------------------------------------------------------
(* Properties.                                                             *)

Total(l, f) == SumOver(f, {i \in Installments : LoanOf[i] = l})

\* The amounts of a loan's rows add up to the loan: a skipped one has handed its
\* amount to the next.
AddsUp ==
    \A l \in Loans :
        Total(l, [i \in Installments |->
                    IF inst[i].status = "skipped" THEN 0 ELSE inst[i].amount])
        = Total(l, DueAmount)

\* What the locked run that collected installment i took from the salary.
Deducted(i) == (CHOOSE x \in line[inst[i].run] : x.id = i).amount

\* What the locked runs have deducted for a loan and what is still to be deducted
\* add up to the loan.
Repaid ==
    \A l \in Loans :
        Total(l, [i \in Installments |->
                    CASE inst[i].status = "skipped" -> 0
                      [] inst[i].status = "paid" -> Deducted(i)
                      [] OTHER -> inst[i].amount])
        = Total(l, DueAmount)

\* Until an overtaken draft is locked the rows of a loan add up to the loan,
\* whatever was deferred, merged, reopened and carried again.  The money does
\* too until an outdated draft is locked: the code lets one be locked, and marks
\* PAID a row of another amount than it deducted.
LoanConserved == ~overtaken => AddsUp /\ (~outdated => Repaid)

\* An installment is PAID exactly when one locked run deducts it, and SKIPPED
\* exactly when one locked run has merged it.
PaidOnce ==
    \A i \in Installments :
        /\ {m \in Locked : i \in Listed(m)} =
              IF inst[i].status = "paid" THEN {inst[i].run} ELSE {}
        /\ {m \in Locked : \E d \in deferred[m] : d.id = i /\ d.mode = "merged"} =
              IF inst[i].status = "skipped" THEN {inst[i].run} ELSE {}

\* A loan is PAID exactly when it was issued and nothing of it is pending.
LoanPaidWhenCollected ==
    \A l \in Loans :
        loan[l] \in {"active", "paid"} =>
            (loan[l] = "paid" <=> PendingIn(l, inst) = {})

=============================================================================
