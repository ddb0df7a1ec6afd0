------------------------- MODULE PayrollRunsProofs -------------------------
(***************************************************************************)
(* Proofs about PayrollRuns, for any employees, branches, months, items    *)
(* and runs.  First for any number of concurrent handlers: the types, the  *)
(* row locks, and that what refers to a run refers to a locked one.  Then  *)
(* for one handler at a time.                                              *)
(***************************************************************************)
EXTENDS PayrollRuns, TLAPS

-----------------------------------------------------------------------------
(* TypeOK in parts, so that an action is checked against those it touches. *)

RunsTyped ==
    /\ status \in [Runs -> RunStatus]
    /\ lines \in [Runs -> SUBSET Employees]
    /\ charged \in [Runs -> SUBSET Items]

BooksTyped ==
    /\ applied \in [Items -> Runs \cup {NoRun}]
    /\ item \in [Items -> ItemStates]
    /\ ledger \subseteq Employees \X Months \X (Runs \cup {NoRun})

StaffTyped ==
    /\ branch \in [Employees -> Branches]
    /\ duty \in [Employees -> BOOLEAN]
    /\ moved \in [Employees -> [Months -> {NoMove} \cup (Branches \X Branches)]]
    /\ changes \in Nat

Tasks == [kind : TaskKinds \cup {"idle"}, run : Runs \cup {NoRun},
          emps : SUBSET Employees, items : SUBSET Items]

\* A handler of a kind other than "edit" works on a run, and no other does.
TaskGood(t) == t \in Tasks /\ (t.kind \in TaskKinds \ {"edit"} <=> t.run \in Runs)

LocksTyped ==
    /\ rowLock \in [Runs -> Workers \cup {Nobody}]
    /\ \A r \in Runs : rowLock[r] # Nobody => task[rowLock[r]].run = r
    /\ task \in [Workers -> Tasks]
    /\ \A w \in Workers : TaskGood(task[w])

LEMMA TypeParts == TypeOK <=> RunsTyped /\ BooksTyped /\ StaffTyped /\ LocksTyped
BY DEF TypeOK, RunsTyped, BooksTyped, StaffTyped, LocksTyped, Tasks, TaskGood

\* The kinds of the handlers that hold their row.
Writing == {"built", "rebuilt", "lock", "bound", "unlock"}

LEMMA WritersByKind ==
    WritersHoldRow <=>
        \A w \in Workers : task[w].kind \in Writing => rowLock[task[w].run] = w
BY DEF WritersHoldRow, Writing

LEMMA NoTaskGood == TaskGood(NoTask) /\ NoTask.kind = "idle" /\ NoTask.run = NoRun
BY PayrollAssumption DEF TaskGood, NoTask, Tasks, TaskKinds

LEMMA RunTaskGood ==
    ASSUME NEW k \in TaskKinds \ {"edit"}, NEW r \in Runs, NEW E \in SUBSET Employees,
           NEW I \in SUBSET Items
    PROVE  /\ TaskGood(RunTask(k, r, E, I))
           /\ RunTask(k, r, E, I).kind = k
           /\ RunTask(k, r, E, I).run = r
           /\ RunTask(k, r, E, I).emps = E
           /\ RunTask(k, r, E, I).items = I
BY DEF TaskGood, RunTask, Tasks

-----------------------------------------------------------------------------
(* What happens to the row locks.                                          *)

Locking == LocksTyped /\ WritersHoldRow

\* A handler that ends releases its rows and no other.
LEMMA FinishLocks ==
    ASSUME Locking, NEW w \in Workers, Finish(w)
    PROVE  Locking'
<1>1. /\ rowLock' = [r \in Runs |-> IF rowLock[r] = w THEN Nobody ELSE rowLock[r]]
      /\ task' = [task EXCEPT ![w] = NoTask]
  BY DEF Finish, Release
<1>2. rowLock' \in [Runs -> Workers \cup {Nobody}]
  BY <1>1 DEF Locking, LocksTyped
<1>3. ASSUME NEW r \in Runs, rowLock'[r] # Nobody
      PROVE  task'[rowLock'[r]].run = r
  BY <1>1, <1>3 DEF Locking, LocksTyped
<1>4. task' \in [Workers -> Tasks] /\ \A v \in Workers : TaskGood(task'[v])
  BY <1>1, NoTaskGood DEF Locking, LocksTyped, TaskGood
<1>5. ASSUME NEW v \in Workers, task'[v].kind \in Writing
      PROVE  rowLock'[task'[v].run] = v
  <2>1. v # w
    BY <1>1, <1>5, NoTaskGood DEF Locking, LocksTyped, Writing
  <2>2. task'[v] = task[v]
    BY <1>1, <2>1 DEF Locking, LocksTyped
  <2>3. task[v].run \in Runs
    BY <1>5, <2>2 DEF Locking, LocksTyped, TaskGood, TaskKinds, Writing
  <2>4. rowLock[task[v].run] = v
    BY <1>5, <2>2 DEF Locking, WritersHoldRow, Writing
  <2> QED BY <1>1, <2>1, <2>2, <2>3, <2>4
<1> QED BY <1>2, <1>3, <1>4, <1>5, WritersByKind DEF Locking, LocksTyped, WritersHoldRow, Writing

\* A handler may take a free row, or one it holds, for the run it works on.
LEMMA HoldLocks ==
    ASSUME Locking, NEW w \in Workers, NEW r \in Runs, NEW t,
           TaskGood(t), t.run = r, RowFree(r, w),
           task[w].run \in {r, NoRun}, Hold(w, r, t)
    PROVE  Locking'
<1>1. /\ rowLock' = [rowLock EXCEPT ![r] = w]
      /\ task' = [task EXCEPT ![w] = t]
  BY DEF Hold
<1>2. rowLock' \in [Runs -> Workers \cup {Nobody}]
  BY <1>1 DEF Locking, LocksTyped
<1>3. ASSUME NEW s \in Runs, rowLock'[s] # Nobody
      PROVE  task'[rowLock'[s]].run = s
  <2>1. CASE s = r
    BY <1>1, <2>1 DEF Locking, LocksTyped
  <2>2. CASE s # r
    <3>1. rowLock'[s] = rowLock[s] /\ task[rowLock[s]].run = s
      BY <1>1, <1>3, <2>2 DEF Locking, LocksTyped
    <3>2. rowLock[s] # w
      BY <2>2, <3>1, PayrollAssumption
    <3> QED BY <1>1, <1>3, <3>1, <3>2 DEF Locking, LocksTyped
  <2> QED BY <2>1, <2>2
<1>4. task' \in [Workers -> Tasks] /\ \A v \in Workers : TaskGood(task'[v])
  BY <1>1 DEF Locking, LocksTyped, TaskGood
<1>5. ASSUME NEW v \in Workers, task'[v].kind \in Writing
      PROVE  rowLock'[task'[v].run] = v
  <2>1. CASE v = w
    BY <1>1, <2>1 DEF Locking, LocksTyped
  <2>2. CASE v # w
    <3>1. task'[v] = task[v]
      BY <1>1, <2>2 DEF Locking, LocksTyped
    <3>2. task[v].run \in Runs
      BY <1>5, <3>1 DEF Locking, LocksTyped, TaskGood, TaskKinds, Writing
    <3>3. rowLock[task[v].run] = v
      BY <1>5, <3>1 DEF Locking, WritersHoldRow, Writing
    <3>4. task[v].run # r
      BY <2>2, <3>3, PayrollAssumption DEF RowFree
    <3> QED BY <1>1, <3>1, <3>2, <3>3, <3>4 DEF Locking, LocksTyped
  <2> QED BY <2>1, <2>2
<1> QED BY <1>2, <1>3, <1>4, <1>5 DEF Locking, LocksTyped, WritersHoldRow, Writing

\* A handler may go on with another task on the same run, a writing one when
\* it holds the row.
LEMMA TaskLocks ==
    ASSUME Locking, NEW w \in Workers, NEW t, TaskGood(t),
           \/ task[w].run = NoRun
           \/ t.run = task[w].run,
           t.kind \in Writing => rowLock[t.run] = w,
           task' = [task EXCEPT ![w] = t], UNCHANGED rowLock
    PROVE  Locking'
<1>1. ASSUME NEW s \in Runs, rowLock'[s] # Nobody
      PROVE  task'[rowLock'[s]].run = s
  <2>1. rowLock'[s] \in Workers /\ task[rowLock'[s]].run = s
    BY <1>1 DEF Locking, LocksTyped
  <2> QED BY <2>1, PayrollAssumption DEF Locking, LocksTyped
<1>2. task' \in [Workers -> Tasks] /\ \A v \in Workers : TaskGood(task'[v])
  BY DEF Locking, LocksTyped, TaskGood
<1>3. ASSUME NEW v \in Workers, task'[v].kind \in Writing
      PROVE  rowLock'[task'[v].run] = v
  <2>1. CASE v = w
    BY <1>3, <2>1 DEF Locking, LocksTyped
  <2>2. CASE v # w
    BY <1>3, <2>2 DEF Locking, LocksTyped, WritersHoldRow, Writing
  <2> QED BY <2>1, <2>2
<1> QED BY <1>1, <1>2, <1>3 DEF Locking, LocksTyped, WritersHoldRow, Writing

\* Erasing a run nobody else holds ends the handlers that work on it.
LEMMA EraseLocks ==
    ASSUME Locking, NEW w \in Workers, NEW r \in Runs, NEW P,
           RowFree(r, w), Erase(r, w, P)
    PROVE  Locking'
<1>1. /\ rowLock' = [s \in Runs |-> IF rowLock[s] = w THEN Nobody ELSE rowLock[s]]
      /\ task' = [v \in Workers |-> IF v = w \/ task[v].run = r THEN NoTask ELSE task[v]]
  BY DEF Erase, Release
<1>2. rowLock' \in [Runs -> Workers \cup {Nobody}]
  BY <1>1 DEF Locking, LocksTyped
<1>3. ASSUME NEW s \in Runs, rowLock'[s] # Nobody
      PROVE  task'[rowLock'[s]].run = s
  <2>1. rowLock'[s] = rowLock[s] /\ rowLock[s] \in Workers \ {w} /\ task[rowLock[s]].run = s
    BY <1>1, <1>3 DEF Locking, LocksTyped
  <2>2. s # r
    BY <2>1, PayrollAssumption DEF RowFree
  <2> QED BY <1>1, <2>1, <2>2
<1>4. task' \in [Workers -> Tasks] /\ \A v \in Workers : TaskGood(task'[v])
  BY <1>1, NoTaskGood DEF Locking, LocksTyped, TaskGood
<1>5. ASSUME NEW v \in Workers, task'[v].kind \in Writing
      PROVE  rowLock'[task'[v].run] = v
  <2>1. v # w /\ task'[v] = task[v]
    BY <1>1, <1>5, NoTaskGood DEF Locking, LocksTyped, Writing
  <2>2. task[v].run \in Runs
    BY <1>5, <2>1 DEF Locking, LocksTyped, TaskGood, TaskKinds, Writing
  <2>3. rowLock[task[v].run] = v
    BY <1>5, <2>1 DEF Locking, WritersHoldRow, Writing
  <2> QED BY <1>1, <2>1, <2>2, <2>3
<1> QED BY <1>2, <1>3, <1>4, <1>5 DEF Locking, LocksTyped, WritersHoldRow, Writing

-----------------------------------------------------------------------------
(* The invariant for any number of handlers.                               *)

Inv == RunsTyped /\ BooksTyped /\ StaffTyped /\ Locking /\ BoundOnlyToLocked

\* A step that changes nothing but the tasks and the row locks.
LEMMA OnlyLocks ==
    ASSUME Inv, Locking', UNCHANGED <<runVars, applied, item, ledger, staffVars>>
    PROVE  Inv'
BY DEF Inv, RunsTyped, BooksTyped, StaffTyped, BoundOnlyToLocked, Locked, runVars, staffVars

LEMMA InitInv == Init => Inv
<1> SUFFICES ASSUME Init PROVE Inv
  OBVIOUS
<1>1. RunsTyped
  BY DEF Init, RunsTyped, RunStatus
<1>2. BooksTyped
  BY DEF Init, BooksTyped, ItemStates
<1>3. StaffTyped
  BY PayrollAssumption DEF Init, StaffTyped
<1>4. Locking
  BY NoTaskGood DEF Init, Locking, LocksTyped, WritersHoldRow, TaskGood
<1>5. BoundOnlyToLocked
  BY DEF Init, BoundOnlyToLocked
<1> QED BY <1>1, <1>2, <1>3, <1>4, <1>5 DEF Inv

LEMMA ItemsToChargeTyped == \A r, E : ItemsToCharge(r, E) \in SUBSET Items
BY DEF ItemsToCharge

LEMMA EligibleTyped == \A r : Eligible(r) \in SUBSET Employees
BY DEF Eligible

LEMMA BuildBeginInv ==
    ASSUME Inv, NEW w \in Workers, NEW r \in Runs, NEW kind \in {"build", "rebuild"},
           BuildBegin(w, r, kind)
    PROVE  Inv'
<1> DEFINE t == RunTask(kind, r, {}, {})
<1>1. TaskGood(t) /\ t.kind = kind /\ t.run = r
  BY RunTaskGood DEF TaskKinds
<1>2. task[w].run = NoRun
  BY DEF Inv, Locking, LocksTyped, TaskGood, Tasks, TaskKinds, BuildBegin, HasTask
<1>3. t.kind \notin Writing
  BY <1>1 DEF Writing
<1> HIDE DEF t
<1>4. CASE task' = [task EXCEPT ![w] = t] /\ UNCHANGED rowLock
  BY <1>1, <1>2, <1>3, <1>4, TaskLocks, OnlyLocks DEF Inv, BuildBegin
<1>5. CASE rowLock[r] = Nobody /\ Hold(w, r, t)
  BY <1>1, <1>2, <1>5, HoldLocks, OnlyLocks DEF Inv, BuildBegin, RowFree
<1> QED BY <1>4, <1>5 DEF BuildBegin, t

\* A handler with a task on a run: the run exists.
LEMMA TaskRun ==
    ASSUME Inv, NEW w \in Workers, task[w].kind \in TaskKinds \ {"edit"}
    PROVE  /\ task[w].run \in Runs
           /\ task[w].emps \in SUBSET Employees
           /\ task[w].items \in SUBSET Items
BY DEF Inv, Locking, LocksTyped, TaskGood, Tasks

LEMMA BuildWriteInv ==
    ASSUME Inv, NEW w \in Workers, BuildWrite(w)
    PROVE  Inv'
<1> DEFINE r == task[w].run
           E == Eligible(r)
           k == IF task[w].kind = "build" THEN "built" ELSE "rebuilt"
           t == RunTask(k, r, E, ItemsToCharge(r, E))
<1>1. r \in Runs
  BY TaskRun DEF BuildWrite, HasTask, TaskKinds
<1>2. k \in TaskKinds \ {"edit"}
  BY DEF TaskKinds
<1>3. TaskGood(t) /\ t.run = r
  BY <1>1, <1>2, RunTaskGood, EligibleTyped, ItemsToChargeTyped
<1>4. Hold(w, r, t) /\ RowFree(r, w) /\ UNCHANGED <<runVars, applied, item, ledger, staffVars>>
  BY DEF BuildWrite
<1>5. Locking'
  BY <1>1, <1>3, <1>4, HoldLocks DEF Inv
<1> QED BY <1>4, <1>5, OnlyLocks

LEMMA BuildCommitInv ==
    ASSUME Inv, NEW w \in Workers, BuildCommit(w)
    PROVE  Inv'
<1>1. /\ task[w].run \in Runs
      /\ task[w].emps \in SUBSET Employees
      /\ task[w].items \in SUBSET Items
  BY TaskRun DEF BuildCommit, HasTask, TaskKinds
<1>2. Locking'
  BY FinishLocks DEF Inv, BuildCommit
<1>3. RunsTyped'
  BY <1>1 DEF Inv, RunsTyped, RunStatus, BuildCommit
<1>4. BooksTyped' /\ StaffTyped'
  BY DEF Inv, BooksTyped, StaffTyped, BuildCommit, staffVars
<1>5. \A s \in Runs : status[s] = "locked" => status'[s] = "locked"
  BY DEF BuildCommit, Superseded
<1>6. BoundOnlyToLocked'
  BY <1>4, <1>5 DEF Inv, BoundOnlyToLocked, Locked, BuildCommit, BooksTyped
<1> QED BY <1>2, <1>3, <1>4, <1>6 DEF Inv

\* Erasing a run leaves the items and rows of the others.
LEMMA EraseInv ==
    ASSUME Inv, NEW w \in Workers, NEW r \in Runs, NEW P, RowFree(r, w),
           \A s \in P : s \in Runs => status[s] = "draft",
           Erase(r, w, P), UNCHANGED <<item, staffVars>>
    PROVE  Inv'
<1>1. Locking'
  BY EraseLocks DEF Inv
<1>2. RunsTyped'
  BY DEF Inv, RunsTyped, RunStatus, Erase
<1>3. StaffTyped'
  BY DEF Inv, StaffTyped, staffVars
<1>4. applied' = [i \in Items |-> IF applied[i] = r THEN NoRun ELSE applied[i]]
  BY DEF Erase, Freed
<1>5. applied' \in [Items -> Runs \cup {NoRun}]
  BY <1>4 DEF Inv, BooksTyped
<1>6. ASSUME NEW x \in ledger'
      PROVE  /\ x \in Employees \X Months \X (Runs \cup {NoRun})
             /\ x[3] # NoRun => x \in ledger /\ x[3] # r
  <2>1. CASE x \in ledger /\ x[3] # r
    BY <2>1 DEF Inv, BooksTyped
  <2>2. CASE \E y \in ledger : x = <<y[1], y[2], NoRun>>
    BY <2>2 DEF Inv, BooksTyped
  <2> QED BY <1>6, <2>1, <2>2 DEF Erase
<1>7. BooksTyped'
  BY <1>5, <1>6 DEF Inv, BooksTyped
<1>8. \A s \in Runs \ {r} : status[s] = "locked" => status'[s] = "locked"
  BY DEF Erase
<1>9. BoundOnlyToLocked'
  <2>1. ASSUME NEW i \in Items, applied'[i] # NoRun
        PROVE  applied'[i] \in Locked'
    BY <1>4, <1>8, <2>1 DEF Inv, BooksTyped, BoundOnlyToLocked, Locked
  <2>2. ASSUME NEW x \in ledger', x[3] # NoRun
        PROVE  x[3] \in Locked' /\ x[2] = RunMonth[x[3]]
    BY <1>6, <1>8, <2>2 DEF Inv, BoundOnlyToLocked, Locked
  <2> QED BY <2>1, <2>2 DEF BoundOnlyToLocked
<1> QED BY <1>1, <1>2, <1>3, <1>7, <1>9 DEF Inv

LEMMA BuildEmptyInv ==
    ASSUME Inv, NEW w \in Workers, BuildEmpty(w)
    PROVE  Inv'
<1>1. task[w].run \in Runs
  BY TaskRun DEF BuildEmpty, HasTask, TaskKinds
<1>2. RowFree(task[w].run, w)
  BY DEF Inv, Locking, WritersHoldRow, BuildEmpty, HasTask, RowFree
<1>3. \A s \in Superseded(task[w].run) : status[s] = "draft"
  BY DEF Superseded
<1> QED BY <1>1, <1>2, <1>3, EraseInv DEF BuildEmpty

LEMMA DeleteCommitInv ==
    ASSUME Inv, NEW w \in Workers, DeleteCommit(w)
    PROVE  Inv'
<1>1. task[w].run \in Runs
  BY TaskRun DEF DeleteCommit, HasTask, TaskKinds
<1> QED BY <1>1, EraseInv DEF DeleteCommit

LEMMA IdleRun ==
    ASSUME Inv, NEW w \in Workers, HasTask(w, {"idle"})
    PROVE  task[w].run = NoRun
BY DEF Inv, Locking, LocksTyped, TaskGood, Tasks, TaskKinds, HasTask

LEMMA LockBeginInv ==
    ASSUME Inv, NEW w \in Workers, NEW r \in Runs, LockBegin(w, r)
    PROVE  Inv'
<1> DEFINE t == RunTask("lock", r, lines[r], charged[r])
<1>1. lines[r] \in SUBSET Employees /\ charged[r] \in SUBSET Items
  BY DEF Inv, RunsTyped
<1>2. TaskGood(t) /\ t.run = r
  BY <1>1, RunTaskGood DEF TaskKinds
<1>3. Hold(w, r, t) /\ RowFree(r, w) /\ task[w].run = NoRun
  BY IdleRun DEF LockBegin, RowFree
<1> HIDE DEF t
<1>4. Locking'
  BY <1>2, <1>3, HoldLocks DEF Inv
<1> QED BY <1>4, OnlyLocks DEF LockBegin

LEMMA LockBindInv ==
    ASSUME Inv, NEW w \in Workers, LockBind(w)
    PROVE  Inv'
<1> DEFINE t == [task[w] EXCEPT !.kind = "bound"]
<1>1. task[w] \in Tasks /\ task[w].kind = "lock" /\ task[w].run \in Runs
  BY TaskRun DEF Inv, Locking, LocksTyped, LockBind, HasTask, TaskKinds
<1>2. TaskGood(t) /\ t.run = task[w].run
  BY <1>1 DEF TaskGood, Tasks, TaskKinds
<1>3. rowLock[task[w].run] = w
  BY <1>1 DEF Inv, Locking, WritersHoldRow
<1>4. task' = [task EXCEPT ![w] = t] /\ UNCHANGED rowLock
  BY DEF LockBind
<1> HIDE DEF t
<1>5. Locking'
  BY <1>2, <1>3, <1>4, TaskLocks DEF Inv
<1> QED BY <1>5, OnlyLocks DEF LockBind

LEMMA LockCommitInv ==
    ASSUME Inv, NEW w \in Workers, LockCommit(w)
    PROVE  Inv'
<1> DEFINE r == task[w].run
<1>1. r \in Runs /\ task[w].emps \in SUBSET Employees
  BY TaskRun DEF LockCommit, HasTask, TaskKinds
<1>2. Locking'
  BY FinishLocks DEF Inv, LockCommit
<1>3. RunsTyped'
  BY <1>1 DEF Inv, RunsTyped, RunStatus, LockCommit
<1>4. applied' = [i \in Items |-> IF i \in task[w].items /\ applied[i] = NoRun
                                   THEN r ELSE applied[i]]
  BY DEF LockCommit
<1>5. applied' \in [Items -> Runs \cup {NoRun}]
  BY <1>1, <1>4 DEF Inv, BooksTyped
<1>6. ledger' = ledger \cup {<<e, RunMonth[r], r>> : e \in task[w].emps}
  BY DEF LockCommit
<1>7. RunMonth[r] \in Months
  BY <1>1, PayrollAssumption
<1>8. BooksTyped' /\ StaffTyped'
  BY <1>1, <1>5, <1>6, <1>7 DEF Inv, BooksTyped, StaffTyped, LockCommit, staffVars
<1>9. /\ status'[r] = "locked"
      /\ \A s \in Runs : status[s] = "locked" => status'[s] = "locked"
  BY <1>1 DEF Inv, RunsTyped, LockCommit
<1>10. BoundOnlyToLocked'
  <2>1. ASSUME NEW i \in Items, applied'[i] # NoRun
        PROVE  applied'[i] \in Locked'
    BY <1>1, <1>4, <1>9, <2>1 DEF Inv, BooksTyped, BoundOnlyToLocked, Locked
  <2>2. ASSUME NEW x \in ledger', x[3] # NoRun
        PROVE  x[3] \in Locked' /\ x[2] = RunMonth[x[3]]
    BY <1>1, <1>6, <1>9, <2>2 DEF Inv, BoundOnlyToLocked, Locked
  <2> QED BY <2>1, <2>2 DEF BoundOnlyToLocked
<1> QED BY <1>2, <1>3, <1>8, <1>10 DEF Inv

LEMMA UnlockBeginInv ==
    ASSUME Inv, NEW w \in Workers, NEW r \in Runs, UnlockBegin(w, r)
    PROVE  Inv'
<1> DEFINE t == RunTask("unlock", r, {}, {})
<1>1. TaskGood(t) /\ t.run = r
  BY RunTaskGood DEF TaskKinds
<1>2. Hold(w, r, t) /\ RowFree(r, w) /\ task[w].run = NoRun
  BY IdleRun DEF UnlockBegin, RowFree
<1> HIDE DEF t
<1>3. Locking'
  BY <1>1, <1>2, HoldLocks DEF Inv
<1> QED BY <1>3, OnlyLocks DEF UnlockBegin

LEMMA UnlockCommitInv ==
    ASSUME Inv, NEW w \in Workers, UnlockCommit(w)
    PROVE  Inv'
<1> DEFINE r == task[w].run
<1>1. r \in Runs
  BY TaskRun DEF UnlockCommit, HasTask, TaskKinds
<1>2. Locking'
  BY FinishLocks DEF Inv, UnlockCommit
<1>3. RunsTyped'
  BY DEF Inv, RunsTyped, RunStatus, UnlockCommit
<1>4. /\ applied' = [i \in Items |-> IF applied[i] = r THEN NoRun ELSE applied[i]]
      /\ ledger' = {x \in ledger : x[3] # r}
  BY DEF UnlockCommit, Freed, LedgerWithout
<1>5. BooksTyped' /\ StaffTyped'
  BY <1>4 DEF Inv, BooksTyped, StaffTyped, UnlockCommit, staffVars
<1>6. \A s \in Runs \ {r} : status[s] = "locked" => status'[s] = "locked"
  BY DEF Inv, RunsTyped, UnlockCommit
<1>7. BoundOnlyToLocked'
  BY <1>4, <1>6 DEF Inv, BooksTyped, BoundOnlyToLocked, Locked
<1> QED BY <1>2, <1>3, <1>5, <1>7 DEF Inv

LEMMA DeleteBeginInv ==
    ASSUME Inv, NEW w \in Workers, NEW r \in Runs, DeleteBegin(w, r)
    PROVE  Inv'
<1> DEFINE t == RunTask("delete", r, {}, {})
<1>1. TaskGood(t) /\ t.kind \notin Writing
  BY RunTaskGood DEF TaskKinds, Writing
<1>2. task' = [task EXCEPT ![w] = t] /\ UNCHANGED rowLock /\ task[w].run = NoRun
  BY IdleRun DEF DeleteBegin
<1> HIDE DEF t
<1>3. Locking'
  BY <1>1, <1>2, TaskLocks DEF Inv
<1> QED BY <1>3, OnlyLocks DEF DeleteBegin

LEMMA RecordInv ==
    ASSUME Inv, NEW i \in Items, Record(i)
    PROVE  Inv'
<1>1. Locking'
  BY DEF Inv, Locking, LocksTyped, WritersHoldRow, Record
<1>2. RunsTyped' /\ StaffTyped'
  BY DEF Inv, RunsTyped, StaffTyped, Record, runVars, staffVars
<1>3. BooksTyped' /\ BoundOnlyToLocked'
  BY DEF Inv, BooksTyped, ItemStates, BoundOnlyToLocked, Locked, Record, runVars
<1> QED BY <1>1, <1>2, <1>3 DEF Inv

LEMMA EditBeginInv ==
    ASSUME Inv, NEW w \in Workers, NEW i \in Items, EditBegin(w, i)
    PROVE  Inv'
<1> DEFINE t == [NoTask EXCEPT !.kind = "edit", !.items = {i}]
<1>1. TaskGood(t) /\ t.kind \notin Writing
  BY PayrollAssumption DEF TaskGood, NoTask, Tasks, TaskKinds, Writing
<1>2. task' = [task EXCEPT ![w] = t] /\ UNCHANGED rowLock /\ task[w].run = NoRun
  BY IdleRun DEF EditBegin
<1> HIDE DEF t
<1>3. Locking'
  BY <1>1, <1>2, TaskLocks DEF Inv
<1> QED BY <1>3, OnlyLocks DEF EditBegin

LEMMA EditSaveInv ==
    ASSUME Inv, NEW w \in Workers, EditSave(w)
    PROVE  Inv'
<1>1. Locking'
  BY FinishLocks DEF Inv, EditSave
<1>2. RunsTyped' /\ StaffTyped'
  BY DEF Inv, RunsTyped, StaffTyped, EditSave, runVars, staffVars
<1>3. BooksTyped' /\ BoundOnlyToLocked'
  BY DEF Inv, BooksTyped, BoundOnlyToLocked, Locked, EditSave, runVars
<1> QED BY <1>1, <1>2, <1>3 DEF Inv

LEMMA EditDeleteInv ==
    ASSUME Inv, NEW w \in Workers, EditDelete(w)
    PROVE  Inv'
<1>1. Locking'
  BY FinishLocks DEF Inv, EditDelete
<1>2. RunsTyped' /\ StaffTyped'
  BY DEF Inv, RunsTyped, StaffTyped, EditDelete, runVars, staffVars
<1>3. BooksTyped' /\ BoundOnlyToLocked'
  BY DEF Inv, BooksTyped, ItemStates, BoundOnlyToLocked, Locked, EditDelete, runVars
<1> QED BY <1>1, <1>2, <1>3 DEF Inv

\* A staff change touches no lock, no book and no status.
LEMMA StaffInv ==
    ASSUME Inv, StaffTyped', RunsTyped',
           UNCHANGED <<status, applied, item, ledger, rowLock, task>>
    PROVE  Inv'
BY DEF Inv, BooksTyped, Locking, LocksTyped, WritersHoldRow, BoundOnlyToLocked, Locked

LEMMA TransferInv ==
    ASSUME Inv, NEW w \in Workers, NEW e \in Employees, NEW b \in Branches,
           NEW m \in Months, Transfer(w, e, b, m)
    PROVE  Inv'
<1>1. <<branch[e], b>> \in {NoMove} \cup (Branches \X Branches)
  BY DEF Inv, StaffTyped
<1>2. moved' = [moved EXCEPT ![e] = [@ EXCEPT ![m] = <<branch[e], b>>]]
  BY DEF Transfer
<1>3. moved' \in [Employees -> [Months -> {NoMove} \cup (Branches \X Branches)]]
  BY <1>1, <1>2, Zenon DEF Inv, StaffTyped
<1>4. StaffTyped'
  BY <1>3 DEF Inv, StaffTyped, Transfer
<1>5. RunsTyped'
  BY DEF Inv, RunsTyped, Transfer, runVars
<1> QED BY <1>4, <1>5, StaffInv DEF Transfer, runVars

LEMMA TerminateInv ==
    ASSUME Inv, NEW w \in Workers, NEW e \in Employees, Terminate(w, e)
    PROVE  Inv'
<1>1. StaffTyped'
  BY DEF Inv, StaffTyped, Terminate
<1>2. RunsTyped'
  BY DEF Inv, RunsTyped, Terminate
<1> QED BY <1>1, <1>2, StaffInv DEF Terminate

LEMMA ReactivateInv ==
    ASSUME Inv, NEW w \in Workers, NEW e \in Employees, Reactivate(w, e)
    PROVE  Inv'
<1>1. StaffTyped'
  BY DEF Inv, StaffTyped, Reactivate
<1>2. RunsTyped'
  BY DEF Inv, RunsTyped, Reactivate, runVars
<1> QED BY <1>1, <1>2, StaffInv DEF Reactivate, runVars

LEMMA AbortInv ==
    ASSUME Inv, NEW w \in Workers, Abort(w)
    PROVE  Inv'
<1>1. Locking'
  BY FinishLocks DEF Inv, Abort
<1> QED BY <1>1, OnlyLocks DEF Abort

LEMMA StepInv == Inv /\ [Next]_vars => Inv'
<1> SUFFICES ASSUME Inv, [Next]_vars PROVE Inv'
  OBVIOUS
<1>1. ASSUME NEW w \in Workers, WorkerStep(w) PROVE Inv'
  BY <1>1, BuildWriteInv, BuildCommitInv, BuildEmptyInv, LockBindInv, LockCommitInv,
     UnlockCommitInv, DeleteCommitInv, EditSaveInv, EditDeleteInv, AbortInv DEF WorkerStep
<1>2. ASSUME NEW w \in Workers, WorkerBegin(w) PROVE Inv'
  BY <1>2, BuildBeginInv, LockBeginInv, UnlockBeginInv, DeleteBeginInv, EditBeginInv,
     TransferInv, TerminateInv, ReactivateInv DEF WorkerBegin
<1>3. ASSUME NEW i \in Items, Record(i) PROVE Inv'
  BY <1>3, RecordInv
<1>4. CASE UNCHANGED vars
  <2>1. Locking'
    BY <1>4 DEF Inv, Locking, LocksTyped, WritersHoldRow, vars
  <2> QED BY <1>4, <2>1, OnlyLocks DEF vars
<1> QED BY <1>1, <1>2, <1>3, <1>4 DEF Next

\* The invariant holds however the handlers interleave.
THEOREM Invariance == Spec => []Inv
BY InitInv, StepInv, PTL DEF Spec

\* Every variable keeps its type, and a locked row belongs to a handler that
\* works on its run.
THEOREM TypeCorrect == Spec => []TypeOK
<1>1. Inv => TypeOK
  BY TypeParts DEF Inv, Locking
<1> QED BY <1>1, Invariance, PTL

\* A handler that is about to write a run holds its row: two of them never
\* work on the same run, whatever stale status they began with.
THEOREM WritersExclude == Spec => []WritersHoldRow
<1>1. Inv => WritersHoldRow
  BY DEF Inv, Locking
<1> QED BY <1>1, Invariance, PTL

\* Items and accrual rows refer to locked runs only, however builds, purges,
\* deletions and locks interleave.
THEOREM NothingCaptured == Spec => []BoundOnlyToLocked
<1>1. Inv => BoundOnlyToLocked
  BY DEF Inv
<1> QED BY <1>1, Invariance, PTL

-----------------------------------------------------------------------------
(***************************************************************************)
(* One handler at a time.  For any employees, branches, months, items and  *)
(* runs and any sequence of builds, locks, reopenings, deletions, edits,   *)
(* transfers and terminations: nobody is paid twice for a month, a locked  *)
(* run owns exactly what it deducts, and the runs implement PayrollBook.   *)
(* MCPayrollDoublePay shows what two handlers can do instead.              *)
(***************************************************************************)
\* There is no second handler.
SingleOperator == \A v, w \in Workers : v = w

\* Every item of a run's lines belongs to an employee of the run.
ItemsOfLines ==
    \A r \in Runs : \A i \in charged[r] : ItemEmployee[i] \in lines[r]

Books == NoDoublePay /\ ChargedOnce /\ LedgerMatchesLines /\ ItemsOfLines

\* What the handler in progress has read is still true.
TaskTruth(t) ==
    /\ t.kind \in {"build", "rebuild", "built", "rebuilt", "delete", "lock", "bound"} =>
          status[t.run] # "locked"
    /\ t.kind \in {"built", "rebuilt"} => \A i \in t.items : ItemEmployee[i] \in t.emps
    /\ t.kind \in {"lock", "bound"} =>
          /\ t.emps = lines[t.run]
          /\ t.items = charged[t.run]
          /\ \A s \in Runs : status[s] = "locked" /\ RunMonth[s] = RunMonth[t.run] =>
                lines[s] \cap lines[t.run] = {}
    /\ t.kind \in {"bound", "edit"} => \A i \in t.items : applied[i] = NoRun
    /\ t.kind = "unlock" =>
          /\ status[t.run] = "locked"
          /\ \A s \in Runs : status[s] = "locked" /\ RunMonth[s] > RunMonth[t.run] =>
                lines[s] \cap lines[t.run] = {}

\* The inductive invariant of one handler at a time.
SInv == Inv /\ Books /\ \A w \in Workers : TaskTruth(task[w])

-----------------------------------------------------------------------------
LEMMA IdleTruth == TaskTruth(NoTask)
BY DEF TaskTruth, NoTask

\* The handler ends: nothing it read matters any more.
LEMMA EndedTruth ==
    ASSUME SingleOperator, Inv, NEW w \in Workers, Finish(w)
    PROVE  \A v \in Workers : TaskTruth(task[v])'
<1>1. \A v \in Workers : task'[v] = NoTask
  BY DEF SingleOperator, Finish, Inv, Locking, LocksTyped
<1> QED BY <1>1 DEF TaskTruth, NoTask

\* The handler goes on with task t, and nothing else changes.
LEMMA GoneOnTruth ==
    ASSUME SingleOperator, SInv, NEW w \in Workers, NEW t, TaskTruth(t),
           task' = [task EXCEPT ![w] = t], UNCHANGED <<runVars, applied, ledger>>
    PROVE  Books' /\ \A v \in Workers : TaskTruth(task[v])'
<1>1. \A v \in Workers : task'[v] = t
  BY DEF SingleOperator, SInv, Inv, Locking, LocksTyped
<1>2. Books'
  BY DEF SInv, Books, NoDoublePay, ChargedOnce, LedgerMatchesLines, ItemsOfLines,
         Locked, runVars
<1>3. ASSUME NEW v \in Workers PROVE TaskTruth(task[v])'
  BY <1>1 DEF TaskTruth, runVars
<1> QED BY <1>2, <1>3

LEMMA BooksSame ==
    ASSUME Books, UNCHANGED <<runVars, applied, ledger>>
    PROVE  Books'
BY DEF Books, NoDoublePay, ChargedOnce, LedgerMatchesLines, ItemsOfLines, Locked, runVars

\* Rewriting runs that are not locked, keeping them unlocked, changes nothing
\* in the books but the items of the lines.
LEMMA BooksOfDrafts ==
    ASSUME Inv, Books, RunsTyped',
           \A s \in Runs : status'[s] = "locked" <=> status[s] = "locked",
           \A s \in Runs : status[s] = "locked" =>
               lines'[s] = lines[s] /\ charged'[s] = charged[s],
           UNCHANGED <<applied, ledger>>,
           ItemsOfLines'
    PROVE  Books'
<1>1. Locked' = Locked
  BY DEF Locked
<1>2. \A s \in Locked : lines'[s] = lines[s] /\ charged'[s] = charged[s]
  BY DEF Locked
<1>3. NoDoublePay'
  BY <1>1, <1>2 DEF Books, NoDoublePay
<1>4. ChargedOnce'
  BY <1>1, <1>2 DEF Books, ChargedOnce
<1>5. LedgerMatchesLines'
  BY <1>1, <1>2 DEF Books, LedgerMatchesLines
<1> QED BY <1>3, <1>4, <1>5 DEF Books

\* Nothing refers to a run that is not locked.
LEMMA NothingBound ==
    ASSUME Inv, NEW r \in Runs, status[r] # "locked"
    PROVE  /\ \A i \in Items : applied[i] # r
           /\ \A x \in ledger : x[3] # r
           /\ Freed(r) = applied
<1>1. r # NoRun
  BY PayrollAssumption
<1>2. \A i \in Items : applied[i] # r
  BY <1>1 DEF Inv, BoundOnlyToLocked, Locked
<1>3. \A x \in ledger : x[3] # r
  BY <1>1 DEF Inv, BoundOnlyToLocked, Locked
<1>4. Freed(r) = applied
  BY <1>2 DEF Freed, Inv, BooksTyped
<1> QED BY <1>2, <1>3, <1>4

-----------------------------------------------------------------------------
(* The steps of a handler.                                                 *)

LEMMA InitSerial == Init => SInv
<1> SUFFICES ASSUME Init PROVE SInv
  OBVIOUS
<1>1. Inv
  BY InitInv
<1>2. Locked = {}
  BY DEF Init, Locked
<1>3. Books
  BY <1>2 DEF Init, Books, NoDoublePay, ChargedOnce, LedgerMatchesLines, ItemsOfLines
<1>4. \A w \in Workers : TaskTruth(task[w])
  BY IdleTruth DEF Init
<1> QED BY <1>1, <1>3, <1>4 DEF SInv

LEMMA BuildBeginSerial ==
    ASSUME SingleOperator, SInv, NEW w \in Workers, NEW r \in Runs,
           NEW kind \in {"build", "rebuild"}, BuildBegin(w, r, kind)
    PROVE  Books' /\ \A v \in Workers : TaskTruth(task[v])'
<1> DEFINE t == RunTask(kind, r, {}, {})
<1>1. t.kind = kind /\ t.run = r
  BY RunTaskGood DEF TaskKinds
<1>2. status[r] # "locked"
  BY DEF BuildBegin
<1>3. TaskTruth(t)
  BY <1>1, <1>2 DEF TaskTruth
<1>4. task' = [task EXCEPT ![w] = t] /\ UNCHANGED <<runVars, applied, ledger>>
  BY DEF BuildBegin, Hold
<1> HIDE DEF t
<1> QED BY <1>3, <1>4, GoneOnTruth

LEMMA BuildWriteSerial ==
    ASSUME SingleOperator, SInv, NEW w \in Workers, BuildWrite(w)
    PROVE  Books' /\ \A v \in Workers : TaskTruth(task[v])'
<1> DEFINE r == task[w].run
           E == Eligible(r)
           k == IF task[w].kind = "build" THEN "built" ELSE "rebuilt"
           t == RunTask(k, r, E, ItemsToCharge(r, E))
<1>1. r \in Runs /\ k \in {"built", "rebuilt"}
  BY TaskRun DEF SInv, BuildWrite, HasTask, TaskKinds
<1>2. /\ t.kind = k
      /\ t.run = r
      /\ t.emps = E
      /\ t.items = ItemsToCharge(r, E)
  BY <1>1, RunTaskGood, EligibleTyped, ItemsToChargeTyped DEF TaskKinds
<1>3. status[r] # "locked"
  BY DEF SInv, TaskTruth, BuildWrite, HasTask
<1>4. \A i \in ItemsToCharge(r, E) : ItemEmployee[i] \in E
  BY DEF ItemsToCharge
<1>5. task' = [task EXCEPT ![w] = t] /\ UNCHANGED <<runVars, applied, ledger>>
  BY DEF BuildWrite, Hold
<1> HIDE DEF t, k, E
<1>6. TaskTruth(t)
  BY <1>1, <1>2, <1>3, <1>4 DEF TaskTruth
<1> QED BY <1>5, <1>6, GoneOnTruth

LEMMA BuildCommitSerial ==
    ASSUME SingleOperator, SInv, NEW w \in Workers, BuildCommit(w)
    PROVE  Books' /\ \A v \in Workers : TaskTruth(task[v])'
<1> DEFINE r == task[w].run
<1>1. /\ r \in Runs
      /\ status[r] # "locked"
      /\ \A i \in task[w].items : ItemEmployee[i] \in task[w].emps
  BY TaskRun DEF SInv, TaskTruth, BuildCommit, HasTask, TaskKinds
<1>2. Inv /\ Inv'
  BY BuildCommitInv DEF SInv
<1>3. \A s \in Runs : status'[s] = "locked" <=> status[s] = "locked"
  BY <1>1 DEF BuildCommit, Superseded
<1>4. \A s \in Runs \ {r} : lines'[s] = lines[s] /\ charged'[s] = charged[s]
  BY <1>2 DEF Inv, RunsTyped, BuildCommit
<1>5. lines'[r] = task[w].emps /\ charged'[r] = task[w].items
  BY <1>1, <1>2 DEF Inv, RunsTyped, BuildCommit
<1>6. ItemsOfLines'
  BY <1>1, <1>4, <1>5 DEF SInv, Books, ItemsOfLines
<1>7. Books'
  BY <1>1, <1>2, <1>3, <1>4, <1>6, BooksOfDrafts DEF SInv, Inv, BuildCommit
<1>8. \A v \in Workers : TaskTruth(task[v])'
  BY <1>2, EndedTruth DEF BuildCommit
<1> QED BY <1>7, <1>8

\* Erasing a run that is not locked.
LEMMA EraseSerial ==
    ASSUME SingleOperator, SInv, Inv', NEW w \in Workers, NEW r \in Runs, NEW P,
           status[r] # "locked",
           \A s \in P : s \in Runs => status[s] = "draft",
           Erase(r, w, P)
    PROVE  Books' /\ \A v \in Workers : TaskTruth(task[v])'
<1>1. Inv
  BY DEF SInv
<1>2. \A s \in Runs : status'[s] = "locked" <=> status[s] = "locked"
  BY DEF Erase
<1>3. \A s \in Runs \ {r} : lines'[s] = lines[s] /\ charged'[s] = charged[s]
  BY <1>1 DEF Inv, RunsTyped, Erase
<1>4. charged'[r] = {}
  BY <1>1 DEF Inv, RunsTyped, Erase
<1>5. ItemsOfLines'
  BY <1>3, <1>4 DEF SInv, Books, ItemsOfLines
<1>6. applied' = applied
  BY <1>1, NothingBound DEF Erase
<1>7. ledger' = ledger
  <2>1. \A x \in ledger : x[3] # r
    BY <1>1, NothingBound
  <2> QED BY <2>1 DEF Erase
<1>8. Books'
  BY <1>1, <1>2, <1>3, <1>5, <1>6, <1>7, BooksOfDrafts DEF SInv, Inv
<1>9. \A v \in Workers : task'[v] = NoTask
  BY DEF SingleOperator, Erase
<1>10. \A v \in Workers : TaskTruth(task[v])'
  BY <1>9 DEF TaskTruth, NoTask
<1> QED BY <1>8, <1>10

LEMMA BuildEmptySerial ==
    ASSUME SingleOperator, SInv, NEW w \in Workers, BuildEmpty(w)
    PROVE  Books' /\ \A v \in Workers : TaskTruth(task[v])'
<1>1. task[w].run \in Runs /\ status[task[w].run] # "locked"
  BY TaskRun DEF SInv, TaskTruth, BuildEmpty, HasTask, TaskKinds
<1>2. \A s \in Superseded(task[w].run) : status[s] = "draft"
  BY DEF Superseded
<1>3. Inv'
  BY BuildEmptyInv DEF SInv
<1> QED BY <1>1, <1>2, <1>3, EraseSerial DEF BuildEmpty

LEMMA DeleteCommitSerial ==
    ASSUME SingleOperator, SInv, NEW w \in Workers, DeleteCommit(w)
    PROVE  Books' /\ \A v \in Workers : TaskTruth(task[v])'
<1>1. task[w].run \in Runs /\ status[task[w].run] # "locked"
  BY TaskRun DEF SInv, TaskTruth, DeleteCommit, HasTask, TaskKinds
<1>2. Inv'
  BY DeleteCommitInv DEF SInv
<1> QED BY <1>1, <1>2, EraseSerial DEF DeleteCommit

LEMMA LockBeginSerial ==
    ASSUME SingleOperator, SInv, NEW w \in Workers, NEW r \in Runs, LockBegin(w, r)
    PROVE  Books' /\ \A v \in Workers : TaskTruth(task[v])'
<1> DEFINE t == RunTask("lock", r, lines[r], charged[r])
<1>1. lines[r] \in SUBSET Employees /\ charged[r] \in SUBSET Items
  BY DEF SInv, Inv, RunsTyped
<1>2. t.kind = "lock" /\ t.run = r /\ t.emps = lines[r] /\ t.items = charged[r]
  BY <1>1, RunTaskGood DEF TaskKinds
<1>3. status[r] # "locked"
  BY DEF LockBegin
<1>4. ASSUME NEW s \in Runs, status[s] = "locked", RunMonth[s] = RunMonth[r]
      PROVE  lines[s] \cap lines[r] = {}
  <2>1. s # r
    BY <1>3, <1>4
  <2>2. \A e \in lines[r] : e \notin lines[s]
    BY <1>4, <2>1 DEF LockBegin, PaidElsewhere
  <2> QED BY <2>2
<1>5. task' = [task EXCEPT ![w] = t] /\ UNCHANGED <<runVars, applied, ledger>>
  BY DEF LockBegin, Hold
<1> HIDE DEF t
<1>6. TaskTruth(t)
  BY <1>2, <1>3, <1>4 DEF TaskTruth
<1> QED BY <1>5, <1>6, GoneOnTruth

LEMMA LockBindSerial ==
    ASSUME SingleOperator, SInv, NEW w \in Workers, LockBind(w)
    PROVE  Books' /\ \A v \in Workers : TaskTruth(task[v])'
<1> DEFINE t == [task[w] EXCEPT !.kind = "bound"]
<1>1. task[w] \in Tasks /\ task[w].kind = "lock"
  BY DEF SInv, Inv, Locking, LocksTyped, LockBind, HasTask
<1>2. /\ t.kind = "bound"
      /\ t.run = task[w].run
      /\ t.emps = task[w].emps
      /\ t.items = task[w].items
  BY <1>1 DEF Tasks
<1>3. \A i \in task[w].items : applied[i] = NoRun
  BY DEF LockBind, Bindable
<1>4. task' = [task EXCEPT ![w] = t] /\ UNCHANGED <<runVars, applied, ledger>>
  BY DEF LockBind
<1> HIDE DEF t
<1>5. TaskTruth(task[w])
  BY DEF SInv
<1>6. TaskTruth(t)
  BY <1>1, <1>2, <1>3, <1>5 DEF TaskTruth
<1> QED BY <1>4, <1>6, GoneOnTruth

\* The lines of the run were free of conflicts when its row was taken, and
\* nobody else has locked anything since.
LEMMA LockCommitSerial ==
    ASSUME SingleOperator, SInv, NEW w \in Workers, LockCommit(w)
    PROVE  Books' /\ \A v \in Workers : TaskTruth(task[v])'
<1> DEFINE r == task[w].run
<1>1. Inv
  BY DEF SInv
<1>2. /\ r \in Runs
      /\ status[r] # "locked"
      /\ task[w].emps = lines[r]
      /\ task[w].items = charged[r]
      /\ \A i \in charged[r] : applied[i] = NoRun
      /\ \A s \in Runs : status[s] = "locked" /\ RunMonth[s] = RunMonth[r] =>
            lines[s] \cap lines[r] = {}
  BY <1>1, TaskRun DEF SInv, TaskTruth, LockCommit, HasTask, TaskKinds
<1>3. /\ \A i \in Items : applied[i] # r
      /\ \A x \in ledger : x[3] # r
  BY <1>1, <1>2, NothingBound
<1>4. /\ Locked' = Locked \cup {r}
      /\ UNCHANGED <<lines, charged>>
  BY <1>1, <1>2 DEF LockCommit, Locked, Inv, RunsTyped
<1>5. \A i \in Items : applied'[i] = IF i \in charged[r] THEN r ELSE applied[i]
  BY <1>2 DEF LockCommit
<1>6. NoDoublePay'
  <2> SUFFICES ASSUME NEW s \in Locked', NEW t \in Locked', s # t, RunMonth[s] = RunMonth[t]
               PROVE  lines[s] \cap lines[t] = {}
    BY <1>4 DEF NoDoublePay
  <2>1. CASE s \in Locked /\ t \in Locked
    BY <2>1 DEF SInv, Books, NoDoublePay
  <2>2. CASE s = r /\ t \in Locked
    BY <1>2, <2>2 DEF Locked
  <2>3. CASE t = r /\ s \in Locked
    BY <1>2, <2>3 DEF Locked
  <2> QED BY <1>4, <2>1, <2>2, <2>3
<1>7. ChargedOnce'
  <2>1. charged[r] \in SUBSET Items
    BY <1>1, <1>2 DEF Inv, RunsTyped
  <2>2. charged[r] = {i \in Items : applied'[i] = r}
    BY <1>3, <1>5, <2>1
  <2>3. ASSUME NEW s \in Locked PROVE charged[s] = {i \in Items : applied'[i] = s}
    <3>1. s # r /\ s # NoRun /\ charged[s] = {i \in Items : applied[i] = s}
      BY <1>2, PayrollAssumption DEF Locked, SInv, Books, ChargedOnce
    <3>2. \A i \in Items : applied'[i] = s <=> applied[i] = s
      BY <1>2, <1>5, <3>1
    <3> QED BY <3>1, <3>2
  <2> QED BY <1>4, <2>2, <2>3 DEF ChargedOnce
<1>8. LedgerMatchesLines'
  <2>1. ledger' = ledger \cup {<<e, RunMonth[r], r>> : e \in lines[r]}
    BY <1>2 DEF LockCommit
  <2>2. lines[r] \in SUBSET Employees /\ RunMonth[r] \in Months
    BY <1>1, <1>2, PayrollAssumption DEF Inv, RunsTyped
  <2>3. ledger = {x \in Employees \X Months \X Runs :
                    x[3] \in Locked /\ x[2] = RunMonth[x[3]] /\ x[1] \in lines[x[3]]}
    BY DEF SInv, Books, LedgerMatchesLines
  <2>4. ASSUME NEW x \in ledger'
        PROVE  /\ x \in Employees \X Months \X Runs
               /\ x[3] \in Locked' /\ x[2] = RunMonth[x[3]] /\ x[1] \in lines[x[3]]
    BY <1>2, <1>4, <2>1, <2>2, <2>3
  <2>5. ASSUME NEW x \in Employees \X Months \X Runs, x[3] \in Locked',
               x[2] = RunMonth[x[3]], x[1] \in lines[x[3]]
        PROVE  x \in ledger'
    <3>1. CASE x[3] \in Locked
      BY <2>1, <2>3, <2>5, <3>1
    <3>2. CASE x[3] = r
      <4>1. x = <<x[1], RunMonth[r], r>>
        BY <2>5, <3>2
      <4> QED BY <2>1, <2>5, <3>2, <4>1
    <3> QED BY <1>4, <2>5, <3>1, <3>2
  <2> QED BY <1>4, <2>4, <2>5 DEF LedgerMatchesLines
<1>9. ItemsOfLines'
  BY <1>4 DEF SInv, Books, ItemsOfLines
<1>10. \A v \in Workers : TaskTruth(task[v])'
  BY <1>1, EndedTruth DEF LockCommit
<1> QED BY <1>6, <1>7, <1>8, <1>9, <1>10 DEF Books

LEMMA UnlockBeginSerial ==
    ASSUME SingleOperator, SInv, NEW w \in Workers, NEW r \in Runs, UnlockBegin(w, r)
    PROVE  Books' /\ \A v \in Workers : TaskTruth(task[v])'
<1> DEFINE t == RunTask("unlock", r, {}, {})
<1>1. t.kind = "unlock" /\ t.run = r
  BY RunTaskGood DEF TaskKinds
<1>2. /\ status[r] = "locked"
      /\ \A s \in Runs : status[s] = "locked" /\ RunMonth[s] > RunMonth[r] =>
            lines[s] \cap lines[r] = {}
  BY DEF UnlockBegin, LaterMonthLocked
<1>3. task' = [task EXCEPT ![w] = t] /\ UNCHANGED <<runVars, applied, ledger>>
  BY DEF UnlockBegin, Hold
<1> HIDE DEF t
<1>4. TaskTruth(t)
  BY <1>1, <1>2 DEF TaskTruth
<1> QED BY <1>3, <1>4, GoneOnTruth

LEMMA UnlockCommitSerial ==
    ASSUME SingleOperator, SInv, NEW w \in Workers, UnlockCommit(w)
    PROVE  Books' /\ \A v \in Workers : TaskTruth(task[v])'
<1> DEFINE r == task[w].run
<1>1. Inv
  BY DEF SInv
<1>2. r \in Runs
  BY <1>1, TaskRun DEF UnlockCommit, HasTask, TaskKinds
<1>3. Locked' = Locked \ {r} /\ UNCHANGED <<lines, charged>>
  BY <1>1, <1>2 DEF UnlockCommit, Locked, Inv, RunsTyped
<1>4. NoDoublePay'
  BY <1>3 DEF SInv, Books, NoDoublePay
<1>5. ChargedOnce'
  <2>1. ASSUME NEW s \in Locked, s # r
        PROVE  charged[s] = {i \in Items : applied'[i] = s}
    <3>1. s # NoRun /\ charged[s] = {i \in Items : applied[i] = s}
      BY PayrollAssumption DEF Locked, SInv, Books, ChargedOnce
    <3>2. \A i \in Items : applied'[i] = s <=> applied[i] = s
      BY <2>1, <3>1 DEF UnlockCommit, Freed
    <3> QED BY <3>1, <3>2
  <2> QED BY <1>3, <2>1 DEF ChargedOnce
<1>6. LedgerMatchesLines'
  BY <1>3 DEF UnlockCommit, LedgerWithout, SInv, Books, LedgerMatchesLines
<1>7. ItemsOfLines'
  BY <1>3 DEF SInv, Books, ItemsOfLines
<1>8. \A v \in Workers : TaskTruth(task[v])'
  BY <1>1, EndedTruth DEF UnlockCommit
<1> QED BY <1>4, <1>5, <1>6, <1>7, <1>8 DEF Books

LEMMA DeleteBeginSerial ==
    ASSUME SingleOperator, SInv, NEW w \in Workers, NEW r \in Runs, DeleteBegin(w, r)
    PROVE  Books' /\ \A v \in Workers : TaskTruth(task[v])'
<1> DEFINE t == RunTask("delete", r, {}, {})
<1>1. t.kind = "delete" /\ t.run = r
  BY RunTaskGood DEF TaskKinds
<1>2. status[r] # "locked"
  BY DEF DeleteBegin
<1>3. task' = [task EXCEPT ![w] = t] /\ UNCHANGED <<runVars, applied, ledger>>
  BY DEF DeleteBegin
<1> HIDE DEF t
<1>4. TaskTruth(t)
  BY <1>1, <1>2 DEF TaskTruth
<1> QED BY <1>3, <1>4, GoneOnTruth

LEMMA RecordSerial ==
    ASSUME SInv, NEW i \in Items, Record(i)
    PROVE  Books' /\ \A v \in Workers : TaskTruth(task[v])'
<1>1. UNCHANGED <<runVars, applied, ledger, task>>
  BY DEF Record
<1>2. Books'
  BY <1>1, BooksSame DEF SInv
<1>3. \A v \in Workers : TaskTruth(task[v])'
  BY <1>1 DEF SInv, TaskTruth, runVars
<1> QED BY <1>2, <1>3

LEMMA EditBeginSerial ==
    ASSUME SingleOperator, SInv, NEW w \in Workers, NEW i \in Items, EditBegin(w, i)
    PROVE  Books' /\ \A v \in Workers : TaskTruth(task[v])'
<1> DEFINE t == [NoTask EXCEPT !.kind = "edit", !.items = {i}]
<1>1. t.kind = "edit" /\ t.items = {i}
  BY DEF NoTask
<1>2. applied[i] = NoRun
  BY DEF EditBegin
<1>3. task' = [task EXCEPT ![w] = t] /\ UNCHANGED <<runVars, applied, ledger>>
  BY DEF EditBegin
<1> HIDE DEF t
<1>4. TaskTruth(t)
  BY <1>1, <1>2 DEF TaskTruth
<1> QED BY <1>3, <1>4, GoneOnTruth

\* The item saved is still bound to no run: nobody could lock one meanwhile.
LEMMA EditSaveSerial ==
    ASSUME SingleOperator, SInv, NEW w \in Workers, EditSave(w)
    PROVE  Books' /\ \A v \in Workers : TaskTruth(task[v])'
<1>1. \A i \in task[w].items : applied[i] = NoRun
  BY DEF SInv, TaskTruth, EditSave, HasTask
<1>2. applied' = applied
  BY <1>1 DEF EditSave, SInv, Inv, BooksTyped
<1>3. Books'
  BY <1>2, BooksSame DEF SInv, EditSave
<1>4. \A v \in Workers : TaskTruth(task[v])'
  BY EndedTruth DEF SInv, EditSave
<1> QED BY <1>3, <1>4

LEMMA EditDeleteSerial ==
    ASSUME SingleOperator, SInv, NEW w \in Workers, EditDelete(w)
    PROVE  Books' /\ \A v \in Workers : TaskTruth(task[v])'
<1>1. Books'
  BY BooksSame DEF SInv, EditDelete
<1>2. \A v \in Workers : TaskTruth(task[v])'
  BY EndedTruth DEF SInv, EditDelete
<1> QED BY <1>1, <1>2

LEMMA AbortSerial ==
    ASSUME SingleOperator, SInv, NEW w \in Workers, Abort(w)
    PROVE  Books' /\ \A v \in Workers : TaskTruth(task[v])'
<1>1. Books'
  BY BooksSame DEF SInv, Abort
<1>2. \A v \in Workers : TaskTruth(task[v])'
  BY EndedTruth DEF SInv, Abort
<1> QED BY <1>1, <1>2

\* A staff change happens while no handler is in progress.
LEMMA AllIdleTruth ==
    ASSUME SingleOperator, NEW w \in Workers, HasTask(w, {"idle"}), UNCHANGED task
    PROVE  \A v \in Workers : TaskTruth(task[v])'
<1>1. \A v \in Workers : task'[v].kind = "idle"
  BY DEF SingleOperator, HasTask
<1> QED BY <1>1 DEF TaskTruth

LEMMA TransferSerial ==
    ASSUME SingleOperator, SInv, NEW w \in Workers, NEW e \in Employees, NEW b \in Branches,
           NEW m \in Months, Transfer(w, e, b, m)
    PROVE  Books' /\ \A v \in Workers : TaskTruth(task[v])'
<1>1. Books'
  BY BooksSame DEF SInv, Transfer
<1> QED BY <1>1, AllIdleTruth DEF Transfer

LEMMA TerminateSerial ==
    ASSUME SingleOperator, SInv, NEW w \in Workers, NEW e \in Employees, Terminate(w, e)
    PROVE  Books' /\ \A v \in Workers : TaskTruth(task[v])'
<1>1. Inv /\ Inv'
  BY TerminateInv DEF SInv
<1>2. ItemsOfLines'
  BY DEF SInv, Books, ItemsOfLines, Terminate
<1>3. Books'
  BY <1>1, <1>2, BooksOfDrafts DEF SInv, Inv, Terminate
<1> QED BY <1>3, AllIdleTruth DEF Terminate

LEMMA ReactivateSerial ==
    ASSUME SingleOperator, SInv, NEW w \in Workers, NEW e \in Employees, Reactivate(w, e)
    PROVE  Books' /\ \A v \in Workers : TaskTruth(task[v])'
<1>1. Books'
  BY BooksSame DEF SInv, Reactivate
<1> QED BY <1>1, AllIdleTruth DEF Reactivate

LEMMA StepSerial == SingleOperator /\ SInv /\ [Next]_vars => SInv'
<1> SUFFICES ASSUME SingleOperator, SInv, [Next]_vars PROVE SInv'
  OBVIOUS
<1>1. Inv'
  BY StepInv DEF SInv
<1> DEFINE Good == Books' /\ \A v \in Workers : TaskTruth(task[v])'
<1>2. ASSUME NEW w \in Workers, WorkerStep(w) PROVE Good
  BY <1>2, BuildWriteSerial, BuildCommitSerial, BuildEmptySerial, LockBindSerial,
     LockCommitSerial, UnlockCommitSerial, DeleteCommitSerial, EditSaveSerial,
     EditDeleteSerial, AbortSerial DEF WorkerStep
<1>3. ASSUME NEW w \in Workers, WorkerBegin(w) PROVE Good
  BY <1>3, BuildBeginSerial, LockBeginSerial, UnlockBeginSerial, DeleteBeginSerial,
     EditBeginSerial, TransferSerial, TerminateSerial, ReactivateSerial DEF WorkerBegin
<1>4. ASSUME NEW i \in Items, Record(i) PROVE Good
  BY <1>4, RecordSerial
<1>5. CASE UNCHANGED vars
  <2>1. Books'
    BY <1>5, BooksSame DEF SInv, vars
  <2>2. \A v \in Workers : TaskTruth(task[v])'
    BY <1>5 DEF SInv, TaskTruth, vars, runVars
  <2> QED BY <1>1, <2>1, <2>2 DEF SInv
<1> QED BY <1>1, <1>2, <1>3, <1>4, <1>5 DEF SInv, Next

-----------------------------------------------------------------------------
(* The theorems.                                                           *)

\* With one handler at a time the books are right in every state.
THEOREM SerialInvariance ==
    ASSUME SingleOperator
    PROVE  Spec => []SInv
<1>1. Init => SInv
  BY InitSerial
<1>2. SInv /\ [Next]_vars => SInv'
  BY StepSerial
<1> QED BY <1>1, <1>2, PTL DEF Spec

\* Nobody is paid twice for a month: consolidated and branch drafts, transfers
\* and reopened runs do not get past the guards of lock_payroll_run.
THEOREM PaidOnce ==
    ASSUME SingleOperator
    PROVE  Spec => []NoDoublePay
<1>1. SInv => NoDoublePay
  BY DEF SInv, Books
<1> QED BY <1>1, SerialInvariance, PTL

\* A locked run owns exactly the items it deducts.
THEOREM DeductedOnce ==
    ASSUME SingleOperator
    PROVE  Spec => []ChargedOnce
<1>1. SInv => ChargedOnce
  BY DEF SInv, Books
<1> QED BY <1>1, SerialInvariance, PTL

\* The accrual rows are those of the lines of the locked runs.
THEOREM LedgerExact ==
    ASSUME SingleOperator
    PROVE  Spec => []LedgerMatchesLines
<1>1. SInv => LedgerMatchesLines
  BY DEF SInv, Books
<1> QED BY <1>1, SerialInvariance, PTL

-----------------------------------------------------------------------------
(* The implementation of PayrollBook.                                      *)

LEMMA BookInit == Init => Book!Init
<1> SUFFICES ASSUME Init PROVE Book!Init
  OBVIOUS
<1>1. Locked = {}
  BY DEF Init, Locked
<1> QED BY <1>1 DEF Init, Book!Init

\* What the book shows of the runs.
BookPaid == [r \in Runs |-> IF status[r] = "locked" THEN lines[r] ELSE {}]

\* A step that leaves the locked runs and the owners alone does not show.
LEMMA BookStutter ==
    ASSUME \A s \in Runs : status'[s] = "locked" <=> status[s] = "locked",
           \A s \in Runs : status[s] = "locked" => lines'[s] = lines[s],
           UNCHANGED applied
    PROVE  UNCHANGED Book!vars
<1>1. Locked' = Locked
  BY DEF Locked
<1>2. BookPaid' = BookPaid
  BY DEF BookPaid
<1> QED BY <1>1, <1>2 DEF Book!vars, BookPaid

\* Locking a run closes it.
LEMMA LockCloses ==
    ASSUME SInv, NEW w \in Workers, LockCommit(w)
    PROVE  Book!Next
<1> DEFINE r == task[w].run
           E == task[w].emps
           I == task[w].items
<1>1. Inv
  BY DEF SInv
<1>2. r \in Runs /\ E \in SUBSET Employees /\ I \in SUBSET Items
  BY <1>1, TaskRun DEF LockCommit, HasTask, TaskKinds
<1>3. /\ status[r] # "locked"
      /\ E = lines[r]
      /\ I = charged[r]
      /\ \A i \in I : applied[i] = NoRun
      /\ \A s \in Runs : status[s] = "locked" /\ RunMonth[s] = RunMonth[r] =>
            lines[s] \cap E = {}
  BY DEF SInv, TaskTruth, LockCommit, HasTask
<1>4. \A i \in I : ItemEmployee[i] \in E
  BY <1>2, <1>3 DEF SInv, Books, ItemsOfLines
<1>5. Locked' = Locked \cup {r}
  BY <1>1, <1>2 DEF LockCommit, Locked, Inv, RunsTyped
<1>6. BookPaid' = [BookPaid EXCEPT ![r] = E]
  BY <1>1, <1>2, <1>3 DEF BookPaid, LockCommit, Inv, RunsTyped
<1>7. applied' = [i \in Items |-> IF i \in I THEN r ELSE applied[i]]
  BY <1>3 DEF LockCommit
<1>8. r \notin Locked /\ \A s \in Locked : RunMonth[s] = RunMonth[r] => BookPaid[s] \cap E = {}
  BY <1>3 DEF Locked, BookPaid
<1> HIDE DEF r, E, I
<1>9. ASSUME NEW q \in Runs, NEW F \in SUBSET Employees, NEW J \in SUBSET Items,
             q = r, F = E, J = I
      PROVE  Book!Close(q, F, J)
  BY <1>3, <1>4, <1>5, <1>6, <1>7, <1>8, <1>9 DEF Book!Close, BookPaid
<1> QED BY <1>2, <1>9 DEF Book!Next

\* Unlocking a run reopens it.
LEMMA UnlockReopens ==
    ASSUME SInv, NEW w \in Workers, UnlockCommit(w)
    PROVE  Book!Next
<1> DEFINE r == task[w].run
<1>1. Inv
  BY DEF SInv
<1>2. r \in Runs
  BY <1>1, TaskRun DEF UnlockCommit, HasTask, TaskKinds
<1>3. /\ status[r] = "locked"
      /\ \A s \in Runs : status[s] = "locked" /\ RunMonth[s] > RunMonth[r] =>
            lines[s] \cap lines[r] = {}
  BY DEF SInv, TaskTruth, UnlockCommit, HasTask
<1>4. Locked' = Locked \ {r}
  BY <1>1, <1>2 DEF UnlockCommit, Locked, Inv, RunsTyped
<1>5. BookPaid' = [BookPaid EXCEPT ![r] = {}]
  BY <1>1, <1>2, <1>3 DEF BookPaid, UnlockCommit, Inv, RunsTyped
<1>6. applied' = [i \in Items |-> IF applied[i] = r THEN NoRun ELSE applied[i]]
  BY DEF UnlockCommit, Freed
<1>7. /\ r \in Locked
      /\ \A s \in Locked : RunMonth[s] > RunMonth[r] => BookPaid[s] \cap BookPaid[r] = {}
  BY <1>2, <1>3 DEF Locked, BookPaid
<1> HIDE DEF r
<1>8. ASSUME NEW q \in Runs, q = r PROVE Book!Reopen(q)
  BY <1>4, <1>5, <1>6, <1>7, <1>8 DEF Book!Reopen, BookPaid
<1> QED BY <1>2, <1>8 DEF Book!Next

\* The other steps of a handler leave the locked runs alone.
LEMMA QuietStep ==
    ASSUME SingleOperator, SInv, NEW w \in Workers,
           \/ BuildWrite(w) \/ BuildCommit(w) \/ BuildEmpty(w) \/ LockBind(w)
           \/ DeleteCommit(w) \/ EditSave(w) \/ EditDelete(w) \/ Abort(w)
           \/ WorkerBegin(w)
    PROVE  /\ \A s \in Runs : status'[s] = "locked" <=> status[s] = "locked"
           /\ \A s \in Runs : status[s] = "locked" =>
                 lines'[s] = lines[s] /\ charged'[s] = charged[s]
           /\ UNCHANGED applied
<1> DEFINE Quiet ==
        /\ \A s \in Runs : status'[s] = "locked" <=> status[s] = "locked"
        /\ \A s \in Runs : status[s] = "locked" =>
              lines'[s] = lines[s] /\ charged'[s] = charged[s]
        /\ UNCHANGED applied
<1>1. Inv
  BY DEF SInv
<1>2. CASE BuildCommit(w)
  <2>1. task[w].run \in Runs /\ status[task[w].run] # "locked"
    BY <1>1, <1>2, TaskRun DEF SInv, TaskTruth, BuildCommit, HasTask, TaskKinds
  <2> QED BY <1>1, <1>2, <2>1 DEF BuildCommit, Superseded, Inv, RunsTyped
<1>3. CASE BuildEmpty(w)
  <2>1. task[w].run \in Runs /\ status[task[w].run] # "locked"
    BY <1>1, <1>3, TaskRun DEF SInv, TaskTruth, BuildEmpty, HasTask, TaskKinds
  <2>2. applied' = applied
    BY <1>1, <1>3, <2>1, NothingBound DEF BuildEmpty, Erase
  <2> QED BY <1>1, <1>3, <2>1, <2>2 DEF BuildEmpty, Erase, Superseded, Inv, RunsTyped
<1>4. CASE DeleteCommit(w)
  <2>1. task[w].run \in Runs /\ status[task[w].run] # "locked"
    BY <1>1, <1>4, TaskRun DEF SInv, TaskTruth, DeleteCommit, HasTask, TaskKinds
  <2>2. applied' = applied
    BY <1>1, <1>4, <2>1, NothingBound DEF DeleteCommit, Erase
  <2> QED BY <1>1, <1>4, <2>1, <2>2 DEF DeleteCommit, Erase, Inv, RunsTyped
<1>5. CASE EditSave(w)
  <2>1. \A i \in task[w].items : applied[i] = NoRun
    BY <1>5 DEF SInv, TaskTruth, EditSave, HasTask
  <2> QED BY <1>1, <1>5, <2>1 DEF EditSave, Inv, BooksTyped, runVars
<1>6. CASE BuildWrite(w) \/ LockBind(w) \/ EditDelete(w) \/ Abort(w)
  BY <1>6 DEF BuildWrite, LockBind, EditDelete, Abort, runVars
<1>7. ASSUME NEW e \in Employees, Terminate(w, e) PROVE Quiet
  BY <1>1, <1>7 DEF Terminate, Inv, RunsTyped
<1>8. CASE WorkerBegin(w)
  BY <1>7, <1>8 DEF WorkerBegin, BuildBegin, LockBegin, UnlockBegin, DeleteBegin,
     EditBegin, Transfer, Reactivate, runVars
<1> QED BY <1>2, <1>3, <1>4, <1>5, <1>6, <1>8

\* Every step closes a run, reopens one, or does not show in the book.
LEMMA BookStep == SingleOperator /\ SInv /\ [Next]_vars => [Book!Next]_Book!vars
<1> SUFFICES ASSUME SingleOperator, SInv, [Next]_vars PROVE [Book!Next]_Book!vars
  OBVIOUS
<1>1. ASSUME NEW w \in Workers, WorkerStep(w) \/ WorkerBegin(w)
      PROVE  [Book!Next]_Book!vars
  <2>1. CASE LockCommit(w)
    BY <2>1, LockCloses
  <2>2. CASE UnlockCommit(w)
    BY <2>2, UnlockReopens
  <2>3. CASE ~LockCommit(w) /\ ~UnlockCommit(w)
    <3>1. /\ \A s \in Runs : status'[s] = "locked" <=> status[s] = "locked"
          /\ \A s \in Runs : status[s] = "locked" => lines'[s] = lines[s]
          /\ UNCHANGED applied
      BY <1>1, <2>3, QuietStep DEF WorkerStep
    <3> QED BY <3>1, BookStutter
  <2> QED BY <2>1, <2>2, <2>3
<1>2. ASSUME NEW i \in Items, Record(i) PROVE [Book!Next]_Book!vars
  BY <1>2, BookStutter DEF Record, runVars
<1>3. CASE UNCHANGED vars
  BY <1>3, BookStutter DEF vars, runVars
<1> QED BY <1>1, <1>2, <1>3 DEF Next

\* The payroll runs implement the payroll book.
THEOREM RunsImplementBook ==
    ASSUME SingleOperator
    PROVE  Spec => ImplementsBook
<1>1. Init => Book!Init
  BY BookInit
<1>2. SInv /\ [Next]_vars => [Book!Next]_Book!vars
  BY BookStep
<1> QED BY <1>1, <1>2, SerialInvariance, PTL DEF Spec, ImplementsBook, Book!Spec

-----------------------------------------------------------------------------
\* A locked run can only be reopened: no build, purge, deletion or termination
\* rewrites its lines or its items.
LEMMA FrozenStep ==
    ASSUME SingleOperator, SInv, [Next]_vars, NEW r \in Locked
    PROVE  \/ status'[r] = "draft"
           \/ /\ status'[r] = "locked"
              /\ lines'[r] = lines[r]
              /\ charged'[r] = charged[r]
<1>1. r \in Runs /\ status[r] = "locked"
  BY DEF Locked
<1> DEFINE Frozen == \/ status'[r] = "draft"
                     \/ /\ status'[r] = "locked"
                        /\ lines'[r] = lines[r]
                        /\ charged'[r] = charged[r]
<1>2. ASSUME NEW w \in Workers, WorkerStep(w) \/ WorkerBegin(w) PROVE Frozen
  <2>1. CASE LockCommit(w)
    BY <1>1, <2>1 DEF LockCommit, SInv, Inv, RunsTyped
  <2>2. CASE UnlockCommit(w)
    BY <1>1, <2>2 DEF UnlockCommit, SInv, Inv, RunsTyped
  <2>3. CASE ~LockCommit(w) /\ ~UnlockCommit(w)
    <3>1. /\ \A s \in Runs : status'[s] = "locked" <=> status[s] = "locked"
          /\ \A s \in Runs : status[s] = "locked" =>
                lines'[s] = lines[s] /\ charged'[s] = charged[s]
      BY <1>2, <2>3, QuietStep DEF WorkerStep
    <3> QED BY <1>1, <3>1
  <2> QED BY <2>1, <2>2, <2>3
<1>3. ASSUME NEW i \in Items, Record(i) PROVE Frozen
  BY <1>1, <1>3 DEF Record, runVars
<1>4. CASE UNCHANGED vars
  BY <1>1, <1>4 DEF vars, runVars
<1> QED BY <1>2, <1>3, <1>4 DEF Next

THEOREM Frozen ==
    ASSUME SingleOperator
    PROVE  Spec => LockedFrozen
<1>1. SInv /\ [Next]_vars =>
        [\A r \in Locked :
            \/ status'[r] = "draft"
            \/ /\ status'[r] = "locked"
               /\ lines'[r] = lines[r]
               /\ charged'[r] = charged[r]]_vars
  BY FrozenStep
<1> QED BY <1>1, SerialInvariance, PTL DEF Spec, LockedFrozen

=============================================================================
