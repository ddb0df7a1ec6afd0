---------------------------- MODULE PayrollRuns ----------------------------
(***************************************************************************)
(* The monthly payroll runs of apps/payroll: a draft is built from the     *)
(* employees of a branch (a standard run) or of several branches (a        *)
(* consolidated run), locked to pay them, unlocked by a superuser, and     *)
(* deleted.  Locking a run binds every deduction item it charges to it     *)
(* (applied_to_payroll) and writes one accrual row per employee.           *)
(*                                                                         *)
(* The handlers run concurrently in web processes and Celery workers, over *)
(* PostgreSQL at READ COMMITTED.  A handler is a task of a worker, cut     *)
(* where another transaction can commit: after the status is read, after   *)
(* the row lock is taken, at the commit.  Amounts are abstracted: a line   *)
(* is its employee and the items of its breakdown.                         *)
(***************************************************************************)
EXTENDS Naturals, FiniteSets

CONSTANTS
    Employees, Branches, Months, Items, Workers,
    Runs,            \* the rows the unique constraints of PayrollRun allow
    RunMonth,        \* [Runs -> Months]
    RunBranches,     \* [Runs -> SUBSET Branches]: the branches a run covers
    Consolidated,    \* the runs of kind CONSOLIDATED; the others are STANDARD
    ItemEmployee,    \* [Items -> Employees]
    ItemMonth,       \* [Items -> Months]
    Installments,    \* the items that are loan installments
    HomeBranch,      \* [Employees -> Branches]: where each starts
    NoRun, Nobody,   \* null references
    MaxStaffChanges  \* bound on the transfers, terminations and reactivations

ASSUME PayrollAssumption ==
    /\ Months \subseteq Nat
    /\ RunMonth \in [Runs -> Months]
    /\ RunBranches \in [Runs -> SUBSET Branches]
    /\ Consolidated \subseteq Runs
    /\ ItemEmployee \in [Items -> Employees]
    /\ ItemMonth \in [Items -> Months]
    /\ Installments \subseteq Items
    /\ HomeBranch \in [Employees -> Branches]
    /\ NoRun \notin Runs
    /\ Nobody \notin Workers
    /\ MaxStaffChanges \in Nat

VARIABLES
    status,   \* status[r]: absent (no row), draft, purged (soft-deleted), locked
    lines,    \* lines[r]: the employees with a PayrollLine in r
    charged,  \* charged[r]: the items listed in the breakdown of r's lines
    applied,  \* applied[i]: the item's applied_to_payroll
    item,     \* item[i]: future, recorded, deleted
    ledger,   \* <<employee, month, run>>: the MONTHLY_PAYROLL accrual rows
    branch,   \* branch[e]: the employee's current branch
    duty,     \* duty[e]: the employee's status is ACTIVE or LEAVE
    moved,    \* moved[e][m]: e's last transfer of month m, <<from, to>>
    rowLock,  \* rowLock[r]: the worker whose transaction holds r's row
    task,     \* task[w]: what w's handler has read and done so far
    changes   \* staff changes so far (a bound, not state of the program)

runVars == <<status, lines, charged>>
staffVars == <<branch, duty, moved, changes>>
vars == <<runVars, applied, item, ledger, staffVars, rowLock, task>>

-----------------------------------------------------------------------------
RunStatus == {"absent", "draft", "purged", "locked"}
TaskKinds == {"build", "rebuild", "built", "rebuilt", "lock", "bound",
              "unlock", "delete", "edit"}
ItemStates == {"future", "recorded", "deleted"}

\* A handler in progress on run r, with the lines and items it has computed
\* or read.
RunTask(k, r, E, I) == [kind |-> k, run |-> r, emps |-> E, items |-> I]
NoTask == [kind |-> "idle", run |-> NoRun, emps |-> {}, items |-> {}]

\* NoMove: the employee was not transferred in that month.
NoMove == <<>>

\* The type of every variable; the row of a run is locked by a handler that
\* works on that run, never left behind by one that ended.
TypeOK ==
    /\ status \in [Runs -> RunStatus]
    /\ lines \in [Runs -> SUBSET Employees]
    /\ charged \in [Runs -> SUBSET Items]
    /\ applied \in [Items -> Runs \cup {NoRun}]
    /\ item \in [Items -> ItemStates]
    /\ ledger \subseteq Employees \X Months \X (Runs \cup {NoRun})
    /\ branch \in [Employees -> Branches]
    /\ duty \in [Employees -> BOOLEAN]
    /\ moved \in [Employees -> [Months -> {NoMove} \cup (Branches \X Branches)]]
    /\ rowLock \in [Runs -> Workers \cup {Nobody}]
    /\ \A r \in Runs : rowLock[r] # Nobody => task[rowLock[r]].run = r
    /\ task \in [Workers ->
            [kind : TaskKinds \cup {"idle"}, run : Runs \cup {NoRun},
             emps : SUBSET Employees, items : SUBSET Items]]
    /\ \A w \in Workers :
            task[w].kind \in TaskKinds \ {"edit"} <=> task[w].run \in Runs
    /\ changes \in Nat

Init ==
    /\ status = [r \in Runs |-> "absent"]
    /\ lines = [r \in Runs |-> {}]
    /\ charged = [r \in Runs |-> {}]
    /\ applied = [i \in Items |-> NoRun]
    /\ item = [i \in Items |-> "future"]
    /\ ledger = {}
    /\ branch = HomeBranch
    /\ duty = [e \in Employees |-> TRUE]
    /\ moved = [e \in Employees |-> [m \in Months |-> NoMove]]
    /\ rowLock = [r \in Runs |-> Nobody]
    /\ task = [w \in Workers |-> NoTask]
    /\ changes = 0

-----------------------------------------------------------------------------
(* What a build reads.                                                     *)

\* Mutant: the lines of other runs are not looked at.
PaidElsewhere_Ignored(e, m, r) == {}

\* The other locked runs that pay e for the month m.
PaidElsewhere(e, m, r) ==
    {s \in Runs \ {r} : status[s] = "locked" /\ RunMonth[s] = m /\ e \in lines[s]}

\* e is on the payroll of branch b for month m: it is there now, or it was
\* transferred there in m, and it was not transferred away from b in m.
OnBranchPayroll(e, b, m) ==
    LET mv == moved[e][m]
    IN  /\ duty[e]
        /\ branch[e] = b \/ (mv # NoMove /\ mv[2] = b)
        /\ mv = NoMove \/ mv[1] # b

\* The employees a build of r gives a line to.
Eligible(r) ==
    {e \in Employees :
        /\ \E b \in RunBranches[r] : OnBranchPayroll(e, b, RunMonth[r])
        /\ PaidElsewhere(e, RunMonth[r], r) = {}}

\* A past month of e is closed: one of its paying runs is locked.
MonthClosed(e, m) ==
    \E s \in Runs : status[s] = "locked" /\ RunMonth[s] = m /\ e \in lines[s]

\* The items a build of r charges to the employees of E: those of the month,
\* and those of a closed earlier month that were recorded late (installments
\* are never late); never one bound to another run.  A bound installment is
\* PAID and so not listed, even in the run it is bound to.
ItemsToCharge(r, E) ==
    {i \in Items :
        /\ item[i] = "recorded"
        /\ ItemEmployee[i] \in E
        /\ applied[i] = NoRun \/ (applied[i] = r /\ i \notin Installments)
        /\ \/ ItemMonth[i] = RunMonth[r]
           \/ /\ i \notin Installments
              /\ ItemMonth[i] < RunMonth[r]
              /\ MonthClosed(ItemEmployee[i], ItemMonth[i])}

-----------------------------------------------------------------------------
(* Row locks and tasks.                                                    *)

\* Mutant: the row is taken whoever holds it.
RowFree_Ignored(r, w) == TRUE
RowFree(r, w) == rowLock[r] \in {Nobody, w}
HasTask(w, kinds) == task[w].kind \in kinds

\* The rows locked after the transaction of w has ended.
Release(w) == [r \in Runs |-> IF rowLock[r] = w THEN Nobody ELSE rowLock[r]]

\* The transaction of w ends: its locks go with it.
Finish(w) ==
    /\ rowLock' = Release(w)
    /\ task' = [task EXCEPT ![w] = NoTask]

\* w continues with the row lock of r and the task t.
Hold(w, r, t) ==
    /\ rowLock' = [rowLock EXCEPT ![r] = w]
    /\ task' = [task EXCEPT ![w] = t]

\* Mutant: applied_to_payroll is left as it is.
Freed_Kept(r) == applied

\* The items bound to r are bound to no run any more.
Freed(r) == [i \in Items |-> IF applied[i] = r THEN NoRun ELSE applied[i]]

\* The row of r is hard-deleted and those of P soft-deleted: lines cascade,
\* items and accrual rows lose their reference (SET_NULL), and a handler of
\* another worker that holds the old primary key finds no row.
Erase(r, w, P) ==
    /\ status' = [s \in Runs |-> IF s = r THEN "absent"
                                ELSE IF s \in P THEN "purged" ELSE status[s]]
    /\ lines' = [lines EXCEPT ![r] = {}]
    /\ charged' = [charged EXCEPT ![r] = {}]
    /\ applied' = Freed(r)
    /\ ledger' = {x \in ledger : x[3] # r} \cup
                 {<<x[1], x[2], NoRun>> : x \in {y \in ledger : y[3] = r}}
    /\ rowLock' = Release(w)
    /\ task' = [v \in Workers |->
                  IF v = w \/ task[v].run = r THEN NoTask ELSE task[v]]

-----------------------------------------------------------------------------
(* Building a run.                                                         *)

\* A branch may not be built alone while a consolidated draft of the month
\* holds employees.
ConsolidatedDraftOpen(m) ==
    \E c \in Consolidated : /\ RunMonth[c] = m
                            /\ status[c] = "draft"
                            /\ lines[c] # {}

\* The run is fetched (or created, or restored, which takes its row at once)
\* and its status read; a locked run is refused.  The row lock of an existing
\* draft comes only later, in BuildWrite.
BuildBegin(w, r, kind) ==
    /\ HasTask(w, {"idle"})
    /\ \/ kind = "build" /\ (r \in Consolidated \/ ~ConsolidatedDraftOpen(RunMonth[r]))
       \/ kind = "rebuild" /\ status[r] = "draft"
    /\ \/ /\ status[r] = "draft"
          /\ task' = [task EXCEPT ![w] = RunTask(kind, r, {}, {})]
          /\ UNCHANGED rowLock
       \/ /\ status[r] \in {"absent", "purged"}
          /\ rowLock[r] = Nobody
          /\ Hold(w, r, RunTask(kind, r, {}, {}))
    /\ UNCHANGED <<runVars, applied, item, ledger, staffVars>>

\* The row lock is taken (its result is not looked at) and the lines are
\* computed from what is committed now.
BuildWrite(w) ==
    LET r == task[w].run
        E == Eligible(r)
        done == IF task[w].kind = "build" THEN "built" ELSE "rebuilt"
    IN  /\ HasTask(w, {"build", "rebuild"})
        /\ RowFree(r, w)
        /\ status[r] \in {"draft", "locked"} \/ rowLock[r] = w
        /\ Hold(w, r, RunTask(done, r, E, ItemsToCharge(r, E)))
        /\ UNCHANGED <<runVars, applied, item, ledger, staffVars>>

\* Mutant: the purge does not look at the status.
Superseded_AnyStatus(c) ==
    {s \in Runs \ Consolidated :
        /\ c \in Consolidated
        /\ RunMonth[s] = RunMonth[c]
        /\ RunBranches[s] \subseteq RunBranches[c]}

\* The standard drafts a consolidated build of c soft-deletes.
Superseded(c) ==
    {s \in Runs \ Consolidated :
        /\ c \in Consolidated
        /\ RunMonth[s] = RunMonth[c]
        /\ RunBranches[s] \subseteq RunBranches[c]
        /\ status[s] = "draft"}

\* The new lines replace the old ones; the purge of the superseded drafts
\* waits for their rows.
BuildCommit(w) ==
    LET r == task[w].run
    IN  /\ HasTask(w, {"built", "rebuilt"})
        /\ task[w].emps # {} \/ (HasTask(w, {"rebuilt"}) /\ r \notin Consolidated)
        /\ \A s \in Superseded(r) : RowFree(s, w)
        /\ status' = [s \in Runs |->
                        IF s \in Superseded(r) THEN "purged"
                        ELSE IF s = r /\ status[r] # "locked" THEN "draft"
                        ELSE status[s]]
        /\ lines' = [lines EXCEPT ![r] = task[w].emps]
        /\ charged' = [charged EXCEPT ![r] = task[w].items]
        /\ Finish(w)
        /\ UNCHANGED <<applied, item, ledger, staffVars>>

\* A build that finds nobody hard-deletes its run (a rebuild of a standard
\* run keeps it, see BuildCommit).
BuildEmpty(w) ==
    LET r == task[w].run
    IN  /\ HasTask(w, {"built", "rebuilt"})
        /\ task[w].emps = {}
        /\ HasTask(w, {"built"}) \/ r \in Consolidated
        /\ \A s \in Superseded(r) : RowFree(s, w)
        /\ Erase(r, w, Superseded(r))
        /\ UNCHANGED <<item, staffVars>>

-----------------------------------------------------------------------------
(* Locking and unlocking a run.                                            *)

\* The row lock is taken and the status and the lines read; the guards
\* refuse an employee who has left and one paid by another locked run of the
\* month.
LockBegin(w, r) ==
    /\ HasTask(w, {"idle"})
    /\ status[r] = "draft"
    /\ rowLock[r] = Nobody
    /\ \A e \in lines[r] : duty[e] /\ PaidElsewhere(e, RunMonth[r], r) = {}
    /\ Hold(w, r, RunTask("lock", r, lines[r], charged[r]))
    /\ UNCHANGED <<runVars, applied, item, ledger, staffVars>>

\* Mutant: items bound to another run meanwhile are not noticed.
Bindable_AnyOwner(I) == \A i \in I : item[i] = "recorded"

\* Every listed item is still there and bound to no run.
Bindable(I) == \A i \in I : item[i] = "recorded" /\ applied[i] = NoRun

\* The items are counted again before they are bound; when one is missing the
\* whole transaction is rolled back (Abort).
LockBind(w) ==
    /\ HasTask(w, {"lock"})
    /\ Bindable(task[w].items)
    /\ task' = [task EXCEPT ![w].kind = "bound"]
    /\ UNCHANGED <<runVars, applied, item, ledger, staffVars, rowLock>>

\* The items still unbound are bound, one accrual row per line read is
\* written, and the run is locked.
LockCommit(w) ==
    LET r == task[w].run
    IN  /\ HasTask(w, {"bound"})
        /\ applied' = [i \in Items |->
                        IF i \in task[w].items /\ applied[i] = NoRun
                        THEN r ELSE applied[i]]
        /\ ledger' = ledger \cup {<<e, RunMonth[r], r>> : e \in task[w].emps}
        /\ status' = [status EXCEPT ![r] = "locked"]
        /\ Finish(w)
        /\ UNCHANGED <<lines, charged, item, staffVars>>

\* Mutant: the months are compared the wrong way round.
LaterMonthLocked_Earlier(r) ==
    \E s \in Runs : /\ status[s] = "locked"
                   /\ RunMonth[s] < RunMonth[r]
                   /\ lines[s] \cap lines[r] # {}

\* A superuser reopens a locked run, unless a later month of one of its
\* employees is locked.
LaterMonthLocked(r) ==
    \E s \in Runs : /\ status[s] = "locked"
                   /\ RunMonth[s] > RunMonth[r]
                   /\ lines[s] \cap lines[r] # {}

UnlockBegin(w, r) ==
    /\ HasTask(w, {"idle"})
    /\ status[r] = "locked"
    /\ rowLock[r] = Nobody
    /\ ~LaterMonthLocked(r)
    /\ Hold(w, r, RunTask("unlock", r, {}, {}))
    /\ UNCHANGED <<runVars, applied, item, ledger, staffVars>>

\* Mutant: the accrual rows stay.
LedgerWithout_Kept(r) == ledger
LedgerWithout(r) == {x \in ledger : x[3] # r}

\* The items bound to the run are freed and its accrual rows deleted.
UnlockCommit(w) ==
    LET r == task[w].run
    IN  /\ HasTask(w, {"unlock"})
        /\ applied' = Freed(r)
        /\ ledger' = LedgerWithout(r)
        /\ status' = [status EXCEPT ![r] = "draft"]
        /\ Finish(w)
        /\ UNCHANGED <<lines, charged, item, staffVars>>

-----------------------------------------------------------------------------
(* Deleting a draft.                                                       *)

\* The view fetches the run; the service checks that status and nothing else.
DeleteBegin(w, r) ==
    /\ HasTask(w, {"idle"})
    /\ status[r] = "draft"
    /\ task' = [task EXCEPT ![w] = RunTask("delete", r, {}, {})]
    /\ UNCHANGED <<runVars, applied, item, ledger, staffVars, rowLock>>

DeleteCommit(w) ==
    LET r == task[w].run
    IN  /\ HasTask(w, {"delete"})
        /\ RowFree(r, w)
        /\ Erase(r, w, {})
        /\ UNCHANGED <<item, staffVars>>

-----------------------------------------------------------------------------
(* Deduction items.                                                        *)

\* An absence, a penalty, a shortage, an unpaid leave or an installment is
\* recorded; its date may lie in a month already closed.
Record(i) ==
    /\ item[i] = "future"
    /\ item' = [item EXCEPT ![i] = "recorded"]
    /\ UNCHANGED <<runVars, applied, ledger, staffVars, rowLock, task>>

\* An edit form reads the item; a bound item is refused.
EditBegin(w, i) ==
    /\ HasTask(w, {"idle"})
    /\ i \notin Installments
    /\ item[i] = "recorded"
    /\ applied[i] = NoRun
    /\ task' = [task EXCEPT ![w] = [NoTask EXCEPT !.kind = "edit", !.items = {i}]]
    /\ UNCHANGED <<runVars, applied, item, ledger, staffVars, rowLock>>

\* The form saves every column of the row it read, applied_to_payroll too.
EditSave(w) ==
    /\ HasTask(w, {"edit"})
    /\ applied' = [i \in Items |-> IF i \in task[w].items THEN NoRun ELSE applied[i]]
    /\ Finish(w)
    /\ UNCHANGED <<runVars, item, ledger, staffVars>>

\* The item read is soft-deleted.
EditDelete(w) ==
    /\ HasTask(w, {"edit"})
    /\ item' = [i \in Items |-> IF i \in task[w].items THEN "deleted" ELSE item[i]]
    /\ Finish(w)
    /\ UNCHANGED <<runVars, applied, ledger, staffVars>>

-----------------------------------------------------------------------------
(* Staff changes.                                                          *)

\* An approved transfer of month m moves the employee at once.
Transfer(w, e, b, m) ==
    /\ HasTask(w, {"idle"})
    /\ changes < MaxStaffChanges
    /\ b # branch[e]
    /\ branch' = [branch EXCEPT ![e] = b]
    /\ moved' = [moved EXCEPT ![e][m] = <<branch[e], b>>]
    /\ changes' = changes + 1
    /\ UNCHANGED <<runVars, applied, item, ledger, duty, rowLock, task>>

\* An approved termination also takes the employee's lines out of every
\* draft (a soft-deleted draft too), whoever holds its row.
Terminate(w, e) ==
    LET Draft(r) == status[r] \in {"draft", "purged"}
    IN  /\ HasTask(w, {"idle"})
        /\ changes < MaxStaffChanges
        /\ duty[e]
        /\ duty' = [duty EXCEPT ![e] = FALSE]
        /\ lines' = [r \in Runs |-> IF Draft(r) THEN lines[r] \ {e} ELSE lines[r]]
        /\ charged' = [r \in Runs |->
                         IF Draft(r)
                         THEN {i \in charged[r] : ItemEmployee[i] # e}
                         ELSE charged[r]]
        /\ changes' = changes + 1
        /\ UNCHANGED <<status, applied, item, ledger, branch, moved, rowLock, task>>

Reactivate(w, e) ==
    /\ HasTask(w, {"idle"})
    /\ changes < MaxStaffChanges
    /\ ~duty[e]
    /\ duty' = [duty EXCEPT ![e] = TRUE]
    /\ changes' = changes + 1
    /\ UNCHANGED <<runVars, applied, item, ledger, branch, moved, rowLock, task>>

-----------------------------------------------------------------------------
\* A transaction is rolled back: a refused guard, an exception, a killed
\* worker.  Nothing it did was committed.
Abort(w) ==
    /\ ~HasTask(w, {"idle"})
    /\ Finish(w)
    /\ UNCHANGED <<runVars, applied, item, ledger, staffVars>>

WorkerStep(w) ==
    \/ BuildWrite(w) \/ BuildCommit(w) \/ BuildEmpty(w)
    \/ LockBind(w) \/ LockCommit(w)
    \/ UnlockCommit(w)
    \/ DeleteCommit(w)
    \/ EditSave(w) \/ EditDelete(w)
    \/ Abort(w)

WorkerBegin(w) ==
    \/ \E r \in Runs :
         \/ \E kind \in {"build", "rebuild"} : BuildBegin(w, r, kind)
         \/ LockBegin(w, r) \/ UnlockBegin(w, r) \/ DeleteBegin(w, r)
    \/ \E i \in Items : EditBegin(w, i)
    \/ \E e \in Employees :
         \/ \E b \in Branches, m \in Months : Transfer(w, e, b, m)
         \/ Terminate(w, e) \/ Reactivate(w, e)

Next ==
    \/ \E w \in Workers : WorkerStep(w) \/ WorkerBegin(w)
    \/ \E i \in Items : Record(i)

Spec == Init /\ [][Next]_vars

-----------------------------------------------------------------------------
(* Properties.                                                             *)

Locked == {r \in Runs : status[r] = "locked"}

\* No employee is paid for the same month by two locked runs: transfers,
\* consolidated and branch drafts side by side, reopened runs and drafts that
\* have become stale do not defeat the guards of lock_payroll_run.
NoDoublePay ==
    \A r, s \in Locked :
        r # s /\ RunMonth[r] = RunMonth[s] => lines[r] \cap lines[s] = {}

\* A locked run has bound exactly the items its lines deduct: no item is
\* deducted by a locked run that does not own it (and so by two), and none is
\* taken off the books without being deducted.
ChargedOnce ==
    \A r \in Locked : charged[r] = {i \in Items : applied[i] = r}

\* A locked run has one accrual row for each of its lines, and there is no
\* other: leave and end-of-service balances grow once per paid month.
LedgerMatchesLines ==
    ledger = {x \in Employees \X Months \X Runs :
                /\ x[3] \in Locked
                /\ x[2] = RunMonth[x[3]]
                /\ x[1] \in lines[x[3]]}

\* A handler that has computed or read what it will write about a run holds
\* the row of the run until it is done, so two such handlers never work on the
\* same run; a handler that has only read the status does not.
WritersHoldRow ==
    \A w \in Workers :
        task[w].kind \in {"built", "rebuilt", "lock", "bound", "unlock"} =>
            rowLock[task[w].run] = w

\* Whatever the interleaving, an item or an accrual row that refers to a run
\* refers to a locked one: deleting, purging or rebuilding a draft beside a
\* concurrent lock leaves no item captured by an open run.
BoundOnlyToLocked ==
    /\ \A i \in Items : applied[i] # NoRun => applied[i] \in Locked
    /\ \A x \in ledger : x[3] # NoRun => x[3] \in Locked /\ x[2] = RunMonth[x[3]]

\* After a run is locked nothing rewrites its lines or its items; it can only
\* be reopened.
LockedFrozen ==
    [][\A r \in Locked :
          \/ status'[r] = "draft"
          \/ /\ status'[r] = "locked"
             /\ lines'[r] = lines[r]
             /\ charged'[r] = charged[r]]_vars

\* What the runs promise, in the terms of PayrollBook: a run is closed when
\* it is locked, and it owns the items bound to it.
Book == INSTANCE PayrollBook WITH
            closed <- Locked,
            paid <- [r \in Runs |-> IF status[r] = "locked" THEN lines[r] ELSE {}],
            owner <- applied

\* The runs implement the book: every step of a handler closes or reopens one
\* run, or changes nothing the book shows.
ImplementsBook == Book!Spec

=============================================================================
