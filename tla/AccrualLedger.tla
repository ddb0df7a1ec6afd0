---------------------------- MODULE AccrualLedger ----------------------------
(***************************************************************************)
(* The ledger of leave days of one employee (EmployeeLedger): rows that    *)
(* carry a change and the balance after it, read in the order of their     *)
(* dates and, on one date, of their creation.                              *)
(*                                                                         *)
(* Every writer looks for the last row, and creates its own row with the   *)
(* balance it computed from it: two statements, with no lock on the        *)
(* employee, so other writers may commit in between.  The lock of a        *)
(* month's run writes a row dated the last day of that month, a leave one  *)
(* dated today, a settlement one dated the end of service, an import one   *)
(* dated the cutover: rows are not written in the order they are read in.  *)
(* A recalculation rewrites every row from the first, by the leave terms   *)
(* the employee has then.                                                  *)
(***************************************************************************)
EXTENDS Integers, Sequences, FiniteSets, Sums

CONSTANTS
  LastMonth,    \* months of the model
  DaysInMonth,  \* days of a month
  Accrual,      \* leave days a locked month adds
  Openings,     \* opening balances of the old system, in leave days
  Cutovers,     \* the dates from which leave may be accrued here
  Rates,        \* what the accruals page may grant for a day of service: 1 for 21
                \* days of leave a year, 0 without sponsorship, more for more days
  EndDates,     \* the dates a settlement may give
  Workers,      \* transactions that may be under way at the same time
  MaxRows       \* bound: rows ever written, and savings of the terms

ASSUME LedgerAssumption ==
  /\ LastMonth \in Nat \ {0} /\ DaysInMonth \in Nat \ {0}
  /\ Cutovers \cup EndDates \subseteq 1..(LastMonth * DaysInMonth)
  /\ Accrual \in Nat \ {0} /\ MaxRows \in Nat
  /\ Openings \subseteq Nat /\ Rates \subseteq Nat
  /\ IsFiniteSet(Workers)

VARIABLES
  today,      \* the date
  rows,       \* the rows in the order of their creation, deleted ones included
  run,        \* the state of each month's run
  inService,  \* the employee's service has not ended
  terms,      \* the employee's leave terms: the date from which leave is accrued
              \* here, 0 for none, and the opening balance
  imported,   \* whether an opening balance was imported
  task,       \* what each transaction under way has read
  orderly,    \* history: since the ledger was empty or recalculated, every row
              \* was added after the others, from the balance of the last of them
  steady,     \* history: orderly, and since then the rows are by the terms of today,
              \* the opening row at the rate the recalculation uses
  saves       \* how often the terms were saved

vars == <<today, rows, run, inService, terms, imported, task, orderly, steady, saves>>

Months == 1..LastMonth
Dates == 1..(LastMonth * DaysInMonth)
FirstDay(m) == (m - 1) * DaysInMonth + 1
LastDay(m) == m * DaysInMonth
Kinds == {"initial", "monthly", "leave", "settlement"}
Idle == [kind |-> "idle"]

(* The terms of an employee without a cutover date, and of one with it. *)
NoTerms == [cutover |-> 0, opening |-> 0]
Terms == {NoTerms} \cup [cutover : Cutovers, opening : Openings]

Row(kind, date, month, change, balance) ==
  [kind |-> kind, date |-> date, month |-> month, change |-> change,
   balance |-> balance, live |-> TRUE]

(* A deleted row keeps its place in the table; nothing reads its balance.  *)
Deleted(row) == [row EXCEPT !.live = FALSE, !.balance = 0]

(* Rows are ordered by date, then by creation. *)
Before(rs, i, j) == rs[i].date < rs[j].date \/ (rs[i].date = rs[j].date /\ i < j)

Live(rs) == {i \in DOMAIN rs : rs[i].live}

(* The last row of a set, 0 when it is empty. *)
LastOf(rs, S) ==
  IF S = {} THEN 0 ELSE CHOOSE i \in S : \A j \in S \ {i} : Before(rs, j, i)

(* The last of the rows up to a date. *)
LastRow(rs, date) == LastOf(rs, {i \in Live(rs) : rs[i].date <= date})

Newest(rs) == LastRow(rs, LastMonth * DaysInMonth)

BalanceAt(rs, i) == IF i = 0 THEN 0 ELSE rs[i].balance

OfKind(rs, S, kind) == {i \in S : rs[i].kind = kind}

(* The days a month adds: with a cutover date only from its month on. *)
MonthlyChange(m, by) == IF by.cutover # 0 /\ LastDay(m) < by.cutover THEN 0 ELSE Accrual

(* The days earned from the hiring to a date, at 21 a year, as the         *)
(* recalculation counts them: for every employee alike.                    *)
Earned(date) == date

(* The days the accruals page counts: at the employee's own rate.  *)
Granted(rate, date) == rate * Earned(date)

-----------------------------------------------------------------------------
(* Recalculation: rows in order, each change computed again and each       *)
(* balance from the one before.  Opening rows go once a month's row exists. *)

(* A mutant for the runs: the opening row of an employee with a cutover    *)
(* date is computed like that of another one.                              *)
ChangeOf_Earned(row, before, by) ==
  CASE row.kind = "initial" -> Earned(row.date) - before
    [] row.kind = "monthly" -> MonthlyChange(row.month, by)
    [] row.kind = "leave" -> row.change
    [] row.kind = "settlement" -> - before

(* The change of a row by the terms given, after the balance given. *)
ChangeOf(row, before, by) ==
  CASE row.kind = "initial" -> (IF by.cutover # 0 THEN by.opening ELSE Earned(row.date)) - before
    [] row.kind = "monthly" -> MonthlyChange(row.month, by)
    [] row.kind = "leave" -> row.change
    [] row.kind = "settlement" -> - before

Redundant(rs, S) ==
  IF OfKind(rs, S, "monthly") # {} THEN OfKind(rs, S, "initial") ELSE {}

(* A mutant for the runs: rows are gone through in the order of creation. *)
Previous_Created(rs, S, i) ==
  IF \E j \in S : j < i THEN Max({j \in S : j < i}) ELSE 0

(* The row of S before row i, 0 for the first. *)
Previous(rs, S, i) == LastOf(rs, {j \in S : Before(rs, j, i)})

(* The balances after the rows of S, each change computed again. *)
Balances(rs, S, by) ==
  LET after[i \in S] ==
        LET p == Previous(rs, S, i)
            before == IF p = 0 THEN 0 ELSE after[p]
        IN before + ChangeOf(rs[i], before, by)
  IN after

(* The rows with the figures of S computed along. *)
Along(rs, S, by) ==
  LET after == Balances(rs, S, by)
      before(i) == IF Previous(rs, S, i) = 0 THEN 0 ELSE after[Previous(rs, S, i)]
  IN [i \in DOMAIN rs |->
        IF i \in S THEN [rs[i] EXCEPT !.change = after[i] - before(i), !.balance = after[i]]
        ELSE rs[i]]

Rechained(rs, S, by) == Along(rs, S \ Redundant(rs, S), by)

-----------------------------------------------------------------------------
Init ==
  /\ today = 1
  /\ rows = <<>>
  /\ run = [m \in Months |-> "draft"]
  /\ inService = TRUE
  /\ terms = NoTerms
  /\ imported = FALSE
  /\ task = [w \in Workers |-> Idle]
  /\ orderly = TRUE
  /\ steady = TRUE
  /\ saves = 0

NextDay ==
  /\ today < LastMonth * DaysInMonth
  /\ today' = today + 1
  /\ UNCHANGED <<rows, run, inService, terms, imported, task, orderly, steady, saves>>

Writing == {w \in Workers : task[w].kind \in {"leave", "lock", "settle", "open"}}

MayAdd == Len(rows) + Cardinality(Writing) + saves < MaxRows

(* What a transaction keeps of the row it read. *)
Reads(w, kind, of, date) ==
  LET last == LastRow(rows, date)
  IN /\ task[w] = Idle
     /\ MayAdd
     /\ task' = [task EXCEPT ![w] =
          [kind |-> kind, of |-> of, last |-> last, balance |-> BalanceAt(rows, last),
           terms |-> terms]]
     /\ UNCHANGED <<today, rows, run, inService, terms, imported, orderly, steady, saves>>

(* What a transaction read is still so, and its row goes after all others. *)
Continues(t, date) ==
  /\ t.last = Newest(rows)
  /\ t.balance = BalanceAt(rows, t.last)
  /\ t.last # 0 => rows[t.last].date <= date

(* The row is added; "at" is the rate it was granted at. *)
Adds(t, row, at) ==
  /\ rows' = Append(rows, row)
  /\ orderly' = (orderly /\ Continues(t, row.date))
  /\ steady' = (steady /\ Continues(t, row.date) /\ t.terms = terms /\ at = 1)
  /\ UNCHANGED saves

Ends(w) == task' = [task EXCEPT ![w] = Idle]

(* A mutant for the runs: the run's row is not held. *)
LockRead_Unheld(w, m) ==
  /\ run[m] = "draft"
  /\ FirstDay(m) <= today
  /\ inService
  /\ Reads(w, "lock", m, LastDay(m))

(* The lock of a month's run reads the last row up to the month's end.  It *)
(* holds the run's row, so no other lock or unlock of the month runs.      *)
LockRead(w, m) ==
  /\ run[m] = "draft"
  /\ FirstDay(m) <= today
  /\ inService
  /\ \A v \in Workers : task[v].kind = "lock" => task[v].of # m
  /\ Reads(w, "lock", m, LastDay(m))

(* It creates the month's row, unless the run has one already. *)
LockWrite(w) ==
  LET t == task[w]
      change == MonthlyChange(t.of, t.terms)
  IN /\ t.kind = "lock"
     /\ IF \E i \in OfKind(rows, Live(rows), "monthly") : rows[i].month = t.of
        THEN UNCHANGED <<rows, orderly, steady, saves>>
        ELSE Adds(t, Row("monthly", LastDay(t.of), t.of, change, t.balance + change), 1)
     /\ run' = [run EXCEPT ![t.of] = "locked"]
     /\ Ends(w)
     /\ UNCHANGED <<today, inService, terms, imported>>

(* The rows without those of a month's run. *)
WithoutRun(rs, m) ==
  [i \in DOMAIN rs |-> IF rs[i].kind = "monthly" /\ rs[i].month = m
                       THEN Deleted(rs[i]) ELSE rs[i]]

(* The newest row is that of a month's run. *)
NewestOf(m) == Newest(rows) # 0 => rows[Newest(rows)].month = m

(* Reopening a month deletes its row; refused while a later month is locked. *)
Unlock(m) ==
  /\ run[m] = "locked"
  /\ \A n \in Months : n > m => run[n] = "draft"
  /\ run' = [run EXCEPT ![m] = "draft"]
  /\ rows' = WithoutRun(rows, m)
  /\ orderly' = (orderly /\ NewestOf(m))
  /\ steady' = (steady /\ NewestOf(m))
  /\ UNCHANGED <<today, inService, terms, imported, task, saves>>

(* An annual leave is executed: one day less, dated today. *)
LeaveRead(w) == Reads(w, "leave", 0, LastMonth * DaysInMonth)

LeaveWrite(w) ==
  /\ task[w].kind = "leave"
  /\ Adds(task[w], Row("leave", today, 0, -1, task[w].balance - 1), 1)
  /\ Ends(w)
  /\ UNCHANGED <<today, run, inService, terms, imported>>

(* A settlement is executed: the balance goes to zero at the end of service. *)
SettleRead(w, end) ==
  /\ inService
  /\ Reads(w, "settle", end, LastMonth * DaysInMonth)

SettleWrite(w) ==
  /\ task[w].kind = "settle"
  /\ Adds(task[w], Row("settlement", task[w].of, 0, - task[w].balance, 0), 1)
  /\ inService' = FALSE
  /\ Ends(w)
  /\ UNCHANGED <<today, run, terms, imported>>

Reactivate ==
  /\ ~ inService
  /\ inService' = TRUE
  /\ UNCHANGED <<today, rows, run, terms, imported, task, orderly, steady, saves>>

(* The page of an employee without rows and without a cutover date opens   *)
(* the ledger with the days granted to date.                               *)
OpenRead(w) ==
  /\ Live(rows) = {}
  /\ terms.cutover = 0
  /\ Reads(w, "open", 0, LastMonth * DaysInMonth)

OpenWrite(w, rate) ==
  /\ task[w].kind = "open"
  /\ Adds(task[w], Row("initial", today, 0, Granted(rate, today), Granted(rate, today)), rate)
  /\ Ends(w)
  /\ UNCHANGED <<today, run, inService, terms, imported>>

(* The balance of the old system is imported, once, and not beside another *)
(* opening row; rows of other kinds are not looked at.                     *)
Import(date, opening) ==
  /\ ~ imported
  /\ OfKind(rows, Live(rows), "initial") = {}
  /\ MayAdd
  /\ imported' = TRUE
  /\ terms' = [cutover |-> date, opening |-> opening]
  /\ rows' = Append(rows, Row("initial", date, 0, opening, opening))
  /\ orderly' = (orderly /\ Live(rows) = {})
  /\ steady' = (steady /\ Live(rows) = {})
  /\ UNCHANGED <<today, run, inService, task, saves>>

(* The leave settings, or the employee's form, are saved; rows that are     *)
(* there keep the terms they were computed by.                             *)
SaveTerms(new) ==
  /\ new # terms
  /\ MayAdd
  /\ saves' = saves + 1
  /\ terms' = new
  /\ steady' = (steady /\ Live(rows) = {})
  /\ UNCHANGED <<today, rows, run, inService, imported, task, orderly>>

(* A mutant for the runs: the row of a run may be deleted. *)
Deletable_Any(i) == i \in Live(rows) /\ rows[i].kind # "settlement"

(* Rows of a run and settlements may not be deleted. *)
Deletable(i) == i \in Live(rows) /\ rows[i].kind \notin {"monthly", "settlement"}

(* A recalculation reads every row; the deletion of a row does so after it *)
(* deleted that row in the same transaction, and the command for no row.   *)
RecalculateRead(w, gone) ==
  /\ task[w] = Idle
  /\ gone = {} \/ \E i \in gone : gone = {i} /\ Deletable(i)
  /\ task' = [task EXCEPT ![w] =
       [kind |-> "recalculate", gone |-> gone, seen |-> Live(rows), terms |-> terms]]
  /\ UNCHANGED <<today, rows, run, inService, terms, imported, orderly, steady, saves>>

(* It then saves the figures of the rows it read; a row that was added or  *)
(* deleted meanwhile stays as it is.                                       *)
RecalculateWrite(w) ==
  LET t == task[w]
      S == t.seen \ t.gone
      new == Rechained(rows, S, t.terms)
      removed == t.gone \cup Redundant(rows, S)
  IN /\ t.kind = "recalculate"
     /\ rows' = [i \in DOMAIN rows |-> IF i \in removed \/ ~ rows[i].live
                                       THEN Deleted(new[i]) ELSE new[i]]
     /\ orderly' = (Live(rows) = t.seen)
     /\ steady' = (Live(rows) = t.seen /\ t.terms = terms)
     /\ Ends(w)
     /\ UNCHANGED <<today, run, inService, terms, imported, saves>>

Work(w) ==
  \/ \E m \in Months : LockRead(w, m)
  \/ LockWrite(w)
  \/ LeaveRead(w)
  \/ LeaveWrite(w)
  \/ \E end \in EndDates : SettleRead(w, end)
  \/ SettleWrite(w)
  \/ OpenRead(w)
  \/ \E rate \in Rates : OpenWrite(w, rate)
  \/ \E gone \in {{}} \cup {{i} : i \in DOMAIN rows} : RecalculateRead(w, gone)
  \/ RecalculateWrite(w)

Next ==
  \/ NextDay
  \/ Reactivate
  \/ \E m \in Months : Unlock(m)
  \/ \E date \in Cutovers, opening \in Openings : Import(date, opening)
  \/ \E new \in Terms : SaveTerms(new)
  \/ \E w \in Workers : Work(w)

Spec == Init /\ [][Next]_vars

-----------------------------------------------------------------------------
LedgerRows == [kind : Kinds, date : Dates, month : {0} \cup Months,
               change : Int, balance : Int, live : BOOLEAN]
Reading == [kind : {"leave", "lock", "settle", "open"}, of : 0..(LastMonth * DaysInMonth),
            last : 0..MaxRows, balance : Int, terms : Terms]
Recalculating == [kind : {"recalculate"}, gone : SUBSET (1..MaxRows),
                  seen : SUBSET (1..MaxRows), terms : Terms]

(* Types.  Nobody holds two rows of one month's run: a month is being      *)
(* locked by one transaction only, and while it is a draft.                *)
TypeOK ==
  /\ today \in Dates
  /\ rows \in Seq(LedgerRows)
  /\ Len(rows) <= MaxRows
  /\ run \in [Months -> {"draft", "locked"}]
  /\ inService \in BOOLEAN /\ terms \in Terms /\ imported \in BOOLEAN
  /\ orderly \in BOOLEAN /\ steady \in BOOLEAN /\ saves \in 0..MaxRows
  /\ task \in [Workers -> {Idle} \cup Reading \cup Recalculating]
  /\ \A v, w \in Workers :
       task[v].kind = "lock" => /\ run[task[v].of] = "draft"
                                /\ task[w].kind = "lock" /\ v # w => task[v].of # task[w].of

(* A month is locked exactly when one row of it is live: accruals are       *)
(* neither written twice nor left behind, whatever is reopened, locked     *)
(* again, deleted or recalculated (lock_payroll_run, unlock_payroll_run).  *)
MonthsAccrued ==
  \A m \in Months :
    Cardinality({i \in OfKind(rows, Live(rows), "monthly") : rows[i].month = m})
      = IF run[m] = "locked" THEN 1 ELSE 0

Sum(rs, S) == SumOver([i \in DOMAIN rs |-> rs[i].change], S)

(* The balance of every row is the sum of the changes up to it, as long as *)
(* the rows were added in order, and again after every recalculation       *)
(* (EmployeeLedger: "the balance after this movement").                    *)
BalanceIsSum ==
  orderly => \A i \in Live(rows) :
    rows[i].balance = Sum(rows, {j \in Live(rows) : j = i \/ Before(rows, j, i)})

(* Recalculating changes no figure of a ledger that was written in order,  *)
(* or of one recalculated before: not of every such ledger, because the    *)
(* writers and recalculate_employee_ledger do not count alike.  It must    *)
(* have no opening row that recalculation removes, the terms its rows were *)
(* computed by must be those of today, and its opening row must have been  *)
(* granted for 21 days a year: the page counts nothing without sponsorship *)
(* and more for an employee entitled to more, the recalculation does not.  *)
AgreesWithRecalculation ==
  steady /\ Redundant(rows, Live(rows)) = {} =>
    Rechained(rows, Live(rows), terms) = rows
=============================================================================
