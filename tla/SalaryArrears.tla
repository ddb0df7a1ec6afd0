---------------------------- MODULE SalaryArrears ----------------------------
(***************************************************************************)
(* The basic salary of one employee: changes with an effective date, each  *)
(* valid for the whole month of that date, and the arrears a payroll run   *)
(* pays for locked months that were paid less than they should have been.  *)
(*                                                                         *)
(* A change waits until its month begins, and is then applied to the       *)
(* employee's profile.  The salary of any month is worked out backwards    *)
(* from the profile, through the salaries the later changes replaced.      *)
(* Months are numbered; every month is worked in full, so that an amount   *)
(* of arrears is a difference of two basic salaries.                       *)
(***************************************************************************)
EXTENDS Integers, Sequences, Sums

CONSTANTS
    LastMonth,      \* bound of the instances
    Salaries,
    FirstSalary,    \* in the profile before any change
    MaxChanges      \* bound of the instances: changes and edits of the profile

ASSUME SalaryAssumption ==
    /\ LastMonth \in Nat \ {0}
    /\ Salaries \subseteq Nat
    /\ FirstSalary \in Salaries
    /\ MaxChanges \in Nat

Months == 1..LastMonth

VARIABLES
    office,     \* how the office works; never changes
    changes,    \* the EmployeeSalaryChange rows, in the order of their ids
    profile,    \* basic_salary of the Employee
    edits,      \* how often the form saved it, counted for the bound alone
    now,        \* the current month
    run,        \* the employee's line in the payroll run of each month
    built       \* the run that was built a moment ago, or 0

vars == <<office, changes, profile, edits, now, run, built>>

-----------------------------------------------------------------------------
\* regular: the salary changes through salary changes alone, and none is recorded
\* for a month before that of an earlier one; rebuilds: a draft is always built
\* again just before it is locked.
Offices == [regular : BOOLEAN, rebuilds : BOOLEAN]

Changes == [month : Months, old : Salaries, new : Salaries, applied : BOOLEAN]

Lines == [status : {"none", "draft", "locked"}, basic : Salaries, arrears : [Months -> Nat]]

NoLine == [status |-> "none", basic |-> FirstSalary, arrears |-> [k \in Months |-> 0]]

TypeOK ==
    /\ office \in Offices
    /\ changes \in Seq(Changes)
    /\ profile \in Salaries
    /\ edits \in Nat
    /\ now \in Months
    /\ run \in [Months -> Lines]
    /\ built \in 0..LastMonth

Init ==
    /\ office \in Offices
    /\ changes = <<>>
    /\ profile = FirstSalary
    /\ edits = 0
    /\ now \in Months
    /\ run = [m \in Months |-> NoLine]
    /\ built = 0

-----------------------------------------------------------------------------
(* The salary of a month.                                                  *)

\* order_by('effective_date', 'id')
Before(cs, i, j) ==
    \/ cs[i].month < cs[j].month
    \/ cs[i].month = cs[j].month /\ i < j

FirstOf(cs, S) == CHOOSE i \in S : \A j \in S \ {i} : Before(cs, i, j)
LastOf(cs, S) == CHOOSE i \in S : \A j \in S \ {i} : Before(cs, j, i)

Waiting(cs, m) == {i \in DOMAIN cs : ~cs[i].applied /\ cs[i].month <= m}
AppliedAfter(cs, m) == {i \in DOMAIN cs : cs[i].applied /\ cs[i].month > m}

\* basic_salary_for_period
BasicSalary(cs, p, m) ==
    IF Waiting(cs, m) # {} THEN cs[LastOf(cs, Waiting(cs, m))].new
    ELSE IF AppliedAfter(cs, m) # {} THEN cs[FirstOf(cs, AppliedAfter(cs, m))].old
    ELSE p

\* apply_due_salary_changes: the rows, and the profile, it leaves.
Applied(cs) ==
    [i \in DOMAIN cs |-> [cs[i] EXCEPT !.applied = @ \/ cs[i].month <= now]]

ProfileAfter(cs) ==
    IF Waiting(cs, now) = {} THEN profile ELSE cs[LastOf(cs, Waiting(cs, now))].new

-----------------------------------------------------------------------------
(* Changes.                                                                *)

\* Mutant: the salary replaced is taken from the profile.
Replaced_Profile(m) == profile

\* The salary of the month before.
Replaced(m) == BasicSalary(changes, profile, m - 1)

\* record_salary_change
Record(m, s) ==
    /\ Len(changes) + edits < MaxChanges
    /\ office.regular => \A i \in DOMAIN changes : changes[i].month <= m
    /\ LET cs == Append(changes, [month |-> m, old |-> Replaced(m), new |-> s,
                                  applied |-> FALSE])
       IN  changes' = Applied(cs) /\ profile' = ProfileAfter(cs)
    /\ built' = 0
    /\ UNCHANGED <<office, edits, now, run>>

\* The employee form saves the basic salary of the profile, changed by its user
\* or as it was read a moment before, and records no change.
EditProfile(s) ==
    /\ ~office.regular
    /\ Len(changes) + edits < MaxChanges
    /\ profile' = s
    /\ edits' = edits + 1
    /\ built' = 0
    /\ UNCHANGED <<office, changes, now, run>>

\* The daily command apply_salary_changes.
ApplyDue ==
    /\ Waiting(changes, now) # {}
    /\ changes' = Applied(changes)
    /\ profile' = ProfileAfter(changes)
    /\ built' = 0
    /\ UNCHANGED <<office, edits, now, run>>

NextMonth ==
    /\ now < LastMonth
    /\ now' = now + 1
    /\ built' = 0
    /\ UNCHANGED <<office, changes, profile, edits, run>>

-----------------------------------------------------------------------------
(* Runs.                                                                   *)

IsLocked(m) == run[m].status = "locked"

\* What locked runs have paid for the basic salary of month k.
PaidFor(k, locked) ==
    run[k].basic + SumOver([m \in Months |-> run[m].arrears[k]], locked)

\* Mutant: arrears paid before are not subtracted.
Owed_Again(k, locked, due) ==
    IF due > run[k].basic THEN due - run[k].basic ELSE 0

\* Mutant: a month that was paid too much is set off.
Owed_Signed(k, locked, due) == due - PaidFor(k, locked)

Owed(k, locked, due) ==
    IF due > PaidFor(k, locked) THEN due - PaidFor(k, locked) ELSE 0

\* salary_arrears_for_period: for each month before m that is locked and not
\* before the first change.
Arrears(cs, p, m) ==
    LET locked == {k \in Months \ {m} : IsLocked(k)}
    IN  [k \in Months |->
            IF k < m /\ k \in locked /\ \E i \in DOMAIN cs : cs[i].month <= k
            THEN Owed(k, locked, BasicSalary(cs, p, k)) ELSE 0]

\* The page that builds applies the changes that are due first.
Build(m) ==
    /\ ~IsLocked(m)
    /\ changes' = Applied(changes)
    /\ profile' = ProfileAfter(changes)
    /\ run' = [run EXCEPT ![m] = [status |-> "draft",
                                  basic |-> BasicSalary(changes', profile', m),
                                  arrears |-> Arrears(changes', profile', m)]]
    /\ built' = m
    /\ UNCHANGED <<office, edits, now>>

\* The financial audit lets a draft be locked only with the basic salary the
\* month has now; it does not compute the arrears again.
Lock(m) ==
    /\ run[m].status = "draft"
    /\ m <= now
    /\ run[m].basic = BasicSalary(changes, profile, m)
    /\ office.rebuilds => built = m
    /\ run' = [run EXCEPT ![m].status = "locked"]
    /\ built' = 0
    /\ UNCHANGED <<office, changes, profile, edits, now>>

\* Mutant: an earlier month can be opened again.
Reopenable_Any(m) == IsLocked(m)

Reopenable(m) == IsLocked(m) /\ \A k \in Months : k > m => ~IsLocked(k)

\* The lines stay as they were paid until the draft is built again.
Unlock(m) ==
    /\ Reopenable(m)
    /\ run' = [run EXCEPT ![m].status = "draft"]
    /\ built' = 0
    /\ UNCHANGED <<office, changes, profile, edits, now>>

DeleteDraft(m) ==
    /\ run[m].status = "draft"
    /\ run' = [run EXCEPT ![m] = NoLine]
    /\ built' = 0
    /\ UNCHANGED <<office, changes, profile, edits, now>>

Next ==
    \/ \E m \in Months, s \in Salaries : Record(m, s)
    \/ \E s \in Salaries : EditProfile(s)
    \/ ApplyDue
    \/ NextMonth
    \/ \E m \in Months : Build(m) \/ Lock(m) \/ Unlock(m) \/ DeleteDraft(m)

Spec == Init /\ [][Next]_vars

-----------------------------------------------------------------------------
(* Properties.                                                             *)

\* The rule of salary_changes.py: a change holds for the whole month of its
\* date, and from then on until the next one.
Reaching(m) == {i \in DOMAIN changes : changes[i].month <= m}

Agreed(m) ==
    IF Reaching(m) = {} THEN FirstSalary ELSE changes[LastOf(changes, Reaching(m))].new

\* The code's way back from the profile finds the salary of every month, past
\* or to come, applied or waiting, in a regular office: no employee form has
\* saved the profile's salary, and changes are recorded in order.
SalaryOfMonth ==
    office.regular => \A m \in Months : BasicSalary(changes, profile, m) = Agreed(m)

Paid(k) == PaidFor(k, {m \in Months : IsLocked(m)})

\* The highest salary ever agreed for the month.
Highest(k) == Max({FirstSalary} \cup {changes[i].new : i \in Reaching(k)})

\* No difference is paid twice in a regular office where drafts are built again
\* before they are locked: basic and arrears of a locked month never exceed the
\* highest salary agreed for it.
NeverOverpaid ==
    office.regular /\ office.rebuilds =>
        \A k \in Months : IsLocked(k) => Paid(k) <= Highest(k)

\* The same, with drafts locked as they were built: "paid in the first open
\* run, once".
ArrearsOnce ==
    office.regular => \A k \in Months : IsLocked(k) => Paid(k) <= Highest(k)

\* Locking a run leaves nothing owed for the months before it, and pays no
\* more than was owed.
Settles(m) ==
    office.regular /\ office.rebuilds /\ run[m].status = "draft" /\ IsLocked(m)' =>
        \A k \in Months : k < m /\ IsLocked(k) =>
            /\ Paid(k)' >= Agreed(k)
            /\ run[m].arrears[k] > 0 => Paid(k)' = Agreed(k)

CaughtUp == [][\A m \in Months : Settles(m)]_vars

=============================================================================
