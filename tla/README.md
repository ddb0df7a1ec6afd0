# Specifications of HR.4

TLA+ models of the parts of HR.4 where money, employment status or attendance
data change hands between several people and processes: the monthly payroll runs,
the loan installments, salary changes and leave balances behind them, the
operations requests (PendingAction) and the employment requests with their
approvals, the bridge between attendance devices and the server, and the daily
operations report. The models are checked with TLC on small instances; what
matters most is proved with TLAPS for every value of the constants.

All paths below are relative to `src/backend/apps/`, except `agent.py`, which is
`src/backend/scripts/biometric_bridge/agent.py`.

## 1. The system

HR.4 is a Django application over PostgreSQL (READ COMMITTED), served by several
web processes, with Celery workers for long builds and agents in the branches
for the attendance devices. There is no state besides the database that the
components here rely on: they interact through rows, foreign keys and row locks.

| Component | State it keeps | Operations | Correct when |
|---|---|---|---|
| Payroll runs (`payroll/services/engine.py`, `payroll/models.py`, `payroll/views.py`, `payroll/tasks.py`) | PayrollRun (draft, locked, soft-deleted), its lines and their breakdown | build, rebuild, consolidated build (purges branch drafts), lock, unlock, delete | nobody is paid twice a month, a locked run is frozen |
| Deduction items (`employees/models.py`, `core/web_views/employee_workflow.py`) | absences, penalties, cash shortages, unpaid leaves, each with `applied_to_payroll` | record, edit, delete; bound and released by runs | each item is deducted by one locked run, the one it is bound to |
| Loans (`employees/models.py`, `engine.py:210-289`) | EmployeeLoan, LoanInstallment (pending, paid, skipped) | issue, edit, delete; deduct, defer, merge, shift, revert by runs | the rows of a loan add up to it; an installment is collected once; a loan is closed when nothing of it waits |
| Leave and end-of-service ledger (`engine.py:888-1109`, executors, `employees/services/ledger_recalculate.py`, `opening_balances.py`) | EmployeeLedger rows with cumulative balances | a row per paid month, leave taken, settlement, opening rows, deletion, recalculation | one accrual per paid month; a balance is the sum of the changes up to it |
| Salary changes (`employees/services/salary_changes.py`) | EmployeeSalaryChange with an effective month, the salary in the profile | record, apply when the month comes, arrears in drafts | every month is paid the salary agreed for it; a difference is paid once |
| Operations requests (`core/services/pending_actions.py`, `core/web_views/pending_actions.py`, `core/services/workflow_access.py`, `approval_routing.py`) | PendingAction: status, reviewers, officer, payload, signed file, `executed_at` | file, approve at four stages, execute, return, resubmit, edit settlement, upload, delete | executed once, on approvals of the current round, on what was signed |
| Employment requests (`core/services/employment_requests.py`, `core/web_views/employment_requests.py`) | EmploymentRequest: status, stamps, officer, the form's data | file, approve at three stages, assign, hire, reject, return, resubmit, edit, delete; no row locks | hires once, with the HR manager's approval; a rejection is final |
| Attendance bridge (`agent.py`, `attendance/api/views.py`, `attendance/services/`) | the device's log, AttendancePunch, BiometricPullRequest, what the branch agent holds in a cycle | request, read, filter, upload in batches, ingest, acknowledge | no punch is skipped for good; a request marked executed was |
| Operations report (`core/services/operations_report_schedule.py`, `core/management/commands/send_operations_report.py`) | `last_sent_at` and the schedule in one settings row | cron starts the command, it sends and marks; the settings page saves | sent on its day, once, and not claimed when it was not |
| Employee status (`employees/services/suspension.py`, executors) | Employee.status | terminate, reactivate, suspend | a termination ends by a reactivation only |
| Transfers (`payroll/services/transfer_payroll.py`) | Employee.branch, transfer statements | transfer; detailed allocation runs | the month of the transfer is paid once, by the new branch |
| Maintenance, sessions, permissions, notifications, reference data, exports | their own tables | see `PROJECT.json` | see section 8 |

How they interact:

- an executed request writes the rows the payroll reads: a loan request creates
  installments, an absence or a cash shortage creates an item, a transfer moves
  the employee, a settlement terminates the employee and deletes the lines
  of all drafts;
- locking a run writes `applied_to_payroll` into items and installments and adds
  ledger rows; unlocking takes them back; deleting a run sets the references to
  NULL;
- a settlement reads pending loans and items to compute its figures;
- a salary adjustment writes the salary changes a draft reads, and a locked run is
  what later drafts subtract from the arrears they pay;
- locks, leaves, settlements and imports all append to one ledger per employee;
- an approved employment request creates the employee;
- the server cannot call a branch: the agent polls it for pull requests and uploads
  what it read from the device.

What is hard here: handlers read a status and act on it later, some after taking
a row lock and some with none; two runs can contain the same employee or item;
drafts grow stale while months around them are locked; requests travel through
stages in cycles; several kinds of save write back columns read earlier; calls
between agent and server are lost, repeated and late; and cron's processes overlap.
`PROJECT.json` lists these hazards at their lines.

## 2. Modules

| Module | What it is |
|---|---|
| `PayrollBook` | abstract specification: a book of closed runs, who they pay, which items they own; `Close` and `Reopen` |
| `PayrollRuns` | runs, lines, items, accrual rows, staff and row locks; handlers as tasks of workers |
| `MCPayrollRuns` | instances for TLC |
| `PayrollRunsProofs` | proofs for any number of concurrent workers, then for one handler at a time, and the refinement of `PayrollBook` |
| `Sums`, `SumsProofs` | the sum of a function over a finite set, and its laws |
| `LoanInstallments`, `MCLoanInstallments` | installments through deduction, deferral, locking, unlocking, with amounts |
| `PendingActions`, `MCPendingActions` | requests, their stages and executions, unlocked creation, deletion and suspension |
| `OperationsProofs` | proofs about the requests, for any users, roles, requests and workers, and about the daily report, for any roles, processes, days and faults |
| `LoanInstallmentsProofs` | proofs for any loans, installments, months and salaries, amounts included |
| `HiringRequests`, `MCHiringRequests` | an employment request under handlers that read, and save later, with no lock |
| `HiringRequestsProofs` | proofs for any officers, workers, data and rounds |
| `SalaryArrears`, `MCSalaryArrears` | salary changes, the salary of a month, arrears in runs |
| `SalaryArrearsProofs` | the salary of a month and the arrears paid for it, for any changes and months |
| `AccrualLedger`, `MCAccrualLedger` | the ledger's rows, their concurrent writers, the recalculation |
| `AccrualLedgerProofs` | proofs for any months, dates, workers and numbers of rows |
| `PunchReplica` | abstract specification: the server holds a growing part, or a prefix, of the device's log |
| `PunchSync`, `MCPunchSync` | device, agent, calls under way, server queue and import |
| `PunchSyncProofs` | proofs for any punches, requests, batches and faults, and the refinement of `PunchReplica` |
| `OperationsReport`, `MCOperationsReport` | the clock, cron, processes of the command, the settings row |

Definitions keep the names of the code where they can; `PROJECT.json` maps each
to its lines. A definition named `X_Something` just before `X` is `X` with a
plausible bug; the properties are tested against them.

### PayrollRuns

State: `status`, `lines` and `charged` are a run's row, its PayrollLines and the
ids in their breakdowns; `applied` is `applied_to_payroll`; `item` says whether an
item exists yet; `ledger` holds the MONTHLY_PAYROLL accrual rows; `branch`, `duty`
and `moved` are the employees; `rowLock` is PostgreSQL's lock on the row of a run;
`task` is what each worker's handler has read or written so far without having
committed it.

A handler is cut exactly where another transaction can commit:

| Handler | Actions |
|---|---|
| build, consolidated build, rebuild (`engine.py:532-814`, `views.py:706-792, 1563-1607`) | `BuildBegin` reads the status without a lock; `BuildWrite` takes the row and computes the lines; `BuildCommit` replaces them and purges superseded drafts; `BuildEmpty` hard-deletes an empty run |
| lock (`engine.py:829-1060`) | `LockBegin` takes the row, reads the lines and passes the guards; `LockBind` counts the items that can still be bound; `LockCommit` binds, writes accruals, locks |
| unlock (`engine.py:1067-1136`) | `UnlockBegin`, `UnlockCommit` |
| delete (`engine.py:817-822`) | `DeleteBegin` reads the status with no lock; `DeleteCommit` erases whatever the run has become |
| item form (`employee_workflow.py:900-964`) | `EditBegin` reads the row; `EditSave` writes all its columns back; `EditDelete` |
| executors | `Transfer`, `Terminate` (deletes lines of drafts without their rows), `Reactivate` |
| any failure | `Abort` |

Abstractions. An amount is left out: a line is its employee and its items. The
salary mode and the sponsorship split employees into disjoint families of runs;
one family is modelled. The financial audit and the refusal of negative salaries
only prevent locks, and the model allows every one of them. An edited item keeps
its month, and an unpaid leave lies within one month. Two builds that create the
same row at the same time are reduced to the one that succeeds.

### PendingActions

State: `req[r]` is the row of a request with three history fields (`runs`,
`approvedIn`, `settledOn`) that the properties read; `staff` is the employees'
status; `figures[e]` is a version counter of what a settlement of `e` is computed
from; `task` holds the operations that lock nothing.

Every decision view calls `_locked` (`core/web_views/pending_actions.py:618`) in an
atomic block, and the service checks the status again under that lock: each is one
action. Filing (`create_pending_action`), deletion, the suspension button and the
employee form take no lock and are two steps each; the form (`EditBegin`, `EditCommit`,
`core/web_views/employees.py:68-90, 528-570`) saves the whole row of the employee with
the status it read. The kinds `settlement` (terminate and
end_of_service share every check and every stage), `reactivate`, `loan_request`,
`absence`, `cash_shortage` and `leave` (representing the kinds whose execution
touches neither the status nor the figures) cover the branches of the workflow.
Who may act is a set of users per stage, translated from `_can_act_at_stage` and
its companions; branch scopes are not modelled. `figures` stands for the
components of `end_of_service`; for `terminate`, which computes no figures at
execution, it changes nothing the properties of that run say.

### LoanInstallments

One employee, one run a month, amounts as small numbers. `Build` deducts loan by
loan what fits in the salary (`engine.py:441-451`); `Lock` marks the listed
installments PAID and carries the deferred ones (`Carry`, `Collected`); `Unlock`
reverts them (`Reverted`). `OneAMonth` is the unique constraint on (loan, month): a
handler that would break it is rolled back, so the action is disabled. Handlers
are single steps here, because what interleaves inside them is the subject
of `PayrollRuns`; what this module is about is the order in which months are
built, locked and reopened. Editing a loan is not modelled.

`LoanConserved` has two parts. `AddsUp` is about rows: the amounts of a loan's
installments add up to the loan. `Repaid` is about money: what locked runs deducted
from the salary (`Deducted`) and what is still to be deducted add up to it. Each fails
in the code after a lock of a certain draft, which a history variable records.
`overtaken`: the draft defers an installment into which a run of a later month, locked
before it, had merged another (`Overtaken`); this never happens in the three months of
the run. `outdated`: the draft deducts an installment at an amount its row no longer has
(`Outdated`). This is a matter of four steps: build month 2, build month 1 without room
for its installment, lock 1, which merges it into that of month 2, and lock 2. The row of
4 is then paid although 2 was deducted, against `engine.py:441` ("not lost"). Section
4 describes both.

### HiringRequests

State: `row` is the EmploymentRequest, `employee` the data of the Employee it
created, `job` the notification that waits in the background and may skip the first
stage, `task` what each handler has read and submitted. Every handler is two steps,
`Start` (read, permission, guards) and `Commit` (the save), because
`_get_request_or_404` takes no lock. Which columns a save writes is part of the
action: decisions save a few, the two edit forms save all. `serial` is chosen in
`Init`: handlers run one at a time, or interleave. `rounds` is history: the rounds
in which the HR manager approved. The form's data is one value of `Data`, complete
or not; notifications and attachments are left out.

### SalaryArrears

One employee. `changes` are the rows in the order of their ids, `profile` the salary
in the employee's file, `run[m]` the line in the run of month `m` with the basic salary
and the arrears it pays for earlier months. `Record`, `ApplyDue` and `Build` all apply
what is due, as the code does on its way; `Lock` keeps the one check of the
financial audit that matters here, the basic salary of the line. `office` is chosen in
`Init` and says how the office works. In a regular one the salary changes through salary
changes alone, recorded in the order of their months; in another the employee form may
save `basic_salary` as well (`EditProfile`: `employees/forms.py:162`,
`core/web_views/employees.py:561-567`), which writes no change. `rebuilds` says whether a
draft is always rebuilt just before it is locked. After an edit by the form every month
past the last change is worked out from the edited figure, whatever was agreed; hence
`office.regular` in the properties. Months
are worked in full, so an amount is a difference of two basic salaries and rounding
does not arise; `PayrollRuns` has the locks and several runs a month.

### AccrualLedger

One employee. `rows` in the order of creation, with date, change and balance; a row is
read in the order of dates. Every writer is a read of the last row and a later write
(`LockRead`, `LockWrite`; `Leave...`, `Settle...`, `Open...`, `Recalculate...`),
by two transactions at a time; unlocking, importing and reactivating are one step
each. The recalculation of `ledger_recalculate.py` goes through the rows in order:
`Previous` is the row before a row, `ChangeOf` the change computed for a row,
`Balances` the balance of every row (a recursive function on the rows), and
`Rechained` the rows with both written into them.

`terms` is what the employee's row says of leave: the date from which it is accrued here
and the opening balance. An import writes them together with an opening row (`Import`);
the leave settings and the employee's form write them alone (`SaveTerms`,
`core/web_views/employees.py:449-570`), and the rows stay as they were computed. The code
counts the days earned to a date in two ways, and so does the model: the accruals page
that opens a ledger grants none without sponsorship and otherwise by the employee's own days
a year (`Granted(rate, date)`, `leave_balance.py:42-60`), the recalculation counts 21 a
year for everybody (`Earned(date)`, `ledger_recalculate.py:158`). In `Rates`, 1 is
the rate of 21 days.

`orderly` is history: since the ledger was last empty or recalculated every row was
added after the others and from the last one's balance. `steady` says in addition that
every row was computed by the terms of today, an opening row at rate 1; the page's end date
of accrual, which it tests and the recalculation does not, counts as another rate. Only
leave days are modelled, not the end-of-service amounts of a row: the page and the
recalculation start from different salaries there and test the sponsorship differently. An
import with `--replace` is left out too.

What the model shows besides its properties: an opening row granted at another rate than
21 days a year, or rows older than the leave terms of today, get other figures from a
recalculation, and with them every row after them; two writers that read the same last row
lose one of their changes; a leave dated before a lock of an earlier month is written
from a balance that does not contain that month; a recalculation removes the
opening row of an imported employee once a month was locked.

### PunchSync

State: `log` is the device, `stored` the punches on the server, `request` the pull
request that is open, `agent` the cycle in the branch PC's memory, `wire` the calls
that are sent, imported or done and whether the agent still waits for them. A punch
is its position in the log and has a time in seconds; several may share a second.

| Code | Actions |
|---|---|
| request of a user (`agent_pull_queue.py:22-83`) | `QueuePullRequest` |
| a cycle (`agent.py:726-1033`) | `StartCycle`, `StartBlind` (the list could not be fetched), `ReadDevice`, `PlanPull`, `PlanIncremental`, `PlanBlind`, `Upload`, `UploadNothing`, `AckPullRequest`, `Answer` |
| failures | `GiveUp` (the agent abandons the cycle; the server may still handle the call), `Lose` |
| server (`attendance/api/views.py:370-463`) | `Ingest`, `AcknowledgeAfterIngest`, `Acknowledge` |

`site` is chosen in `Init`: whether the agent only works on requests, and whether
users ask for ranges of dates. Left out: the 93 and 365 day windows, the forced
synchronisation (an automatic cycle), the list of device users sent with the first
batch, and the rejection of repeated calls (a repeated upload adds nothing). The
device's log is in the order of time and is never cleared.

Seen while modelling: a request made while an automatic cycle has already read the
device is closed by the last upload of that cycle, without the punches that came in
between; hence `request.calm` in `RequestExecuted`. A range of dates moves the
watermark past what lies before the range; hence `site.ranges` in `GapFree`.

### OperationsReport

A day has a few minutes, a report a time and a window in which a late one is still
sent. `job` are the processes of the command cron has started; a sending to one role
is one step. `Init`, `Next` and `Spec` are called `ReportInit`, `ReportNext` and
`ReportSpec` here, so that one module can hold the proofs about two.
`content` says which reports are not empty. `form` is what a settings page
has read and will save, `last_sent_at` included. `copies` is history. A sending can fail
before a copy left (`SendFails`) or time out after it did (`SendTimesOut`,
`core/services/whatsapp/client.py:146`): the command takes both for a failure. `smooth` is
chosen in `Init`: every process ends in its minute, none crashes and no failed sending has
arrived, or anything of this may happen.

## 3. Runs

| Run | Instance | Shows |
|---|---|---|
| `payroll_serial` | 1 worker, 2 employees, 2 branches, 2 months, 4 runs, 1 item, 1 staff change | `NoDoublePay`, `ChargedOnce`, `LedgerMatchesLines`, `LockedFrozen`, `ImplementsBook` (about 760,000 states) |
| `payroll_concurrent` | 2 workers, 1 employee, an absence and an installment, a branch run and the consolidated run, 2 staff changes | `WritersHoldRow`, `BoundOnlyToLocked` (about 1,500,000 states) |
| `requests` | 2 requests, 1 employee, 4 users holding all roles, 4 kinds, 1 resubmission and 1 edit each | `ExecutedOnce`, `ApprovedInThisRound`, `StatusMatchesExecution`, `SignedAfterLastEdit`, `SettlesInService`, `ExecutedFrozen` (about 1,560,000 states) |
| `loans` | 2 loans, 3 installments, 3 months, salaries 0, 1, 2, 4 | `LoanConserved`, `PaidOnce`, `LoanPaidWhenCollected` (about 826,000 states) |
| `hiring` | 1 officer and 1 manager, 2 handlers, an empty form and two complete ones, 2 rounds | `NeverUnapproved`, `HiredOnce` under any interleaving; `EmployeeMatchesRequest`, `ApprovedThisRound`, `RejectionKept` with one handler at a time |
| `salary_arrears` | 3 months, 3 changes or edits of the profile, salaries 1 to 3 | `SalaryOfMonth`, `NeverOverpaid`, `CaughtUp` (about 3,440,000 states) |
| `accrual_ledger` | 2 months of 2 days, 2 transactions, 3 rows or savings of the terms, 2 rates | `MonthsAccrued`, `BalanceIsSum`, `AgreesWithRecalculation` (about 2,470,000 states) |
| `punch_sync` | 3 punches in 2 seconds, batches of 2, 2 requests, 1 fault, all four kinds of site | `GapFree`, `ImplementsReplica`, `RequestExecuted`; under fairness `RequestClosed`, `Delivered` (about 460,000 states) |
| `operations_report` | 2 days of 4 minutes, 2 roles, 2 processes, 1 fault, 1 save | `MarkedIsSent`, `OncePerDay`; under fairness `Arrives` (about 515,000 states) |
| `payroll_double_pay`, `hiring_rejected`, `salary_twice` | 2 workers and 2 runs; as `hiring`; as `salary_arrears` | see section 4 |

The type invariants `TypeOK` of `PayrollRuns`, `PendingActions` and
`OperationsReport` are proved and not part of the runs; the others are part of the
runs. All of them are proved.

Why the bounds are enough. In the payroll runs: two branches, the standard run of
each and the consolidated run of both are the smallest family in which an employee
can appear in three drafts of a month; the second month makes late items and
out-of-order reopening possible; one staff change suffices to move an employee
between the builds of two drafts (and two, in the concurrent run, to terminate and
reactivate one); two workers suffice for any race between two
handlers (none of them waits for a third). In the requests: two requests about one
employee are needed for two settlements, for a loan approved between signature and
execution, and for a reactivation after a settlement; one resubmission and one
edit are a complete second round. In the loans: three months let an installment be
carried twice and a month be skipped; the loan of a single installment competes
with the other for the same salary; the salaries admit none, one, the other or
both. In hiring: a stale save needs one handler that has read and one that decides,
the second round distinguishes a new approval from an old one, and two complete forms
distinguish what was approved from what was saved. In the salaries: a month that was
paid too little, and two months that can both pay its arrears; three salaries let
a change raise, lower and restore. In the ledger: two months, and room for a leave, an
opening row or a change of the terms besides them; a lost balance needs two writers; the
rate of 0 differs from that of the recalculation as any other would. In the bridge: three
punches are two batches, and two seconds put two punches into one of them; the one
fault can hit any call. In the report: a process may outlive midnight into the
second day, two processes overlap, and four minutes hold the time of the report, its
window and what follows it.

Bounds in guards: `MaxStaffChanges` (PayrollRuns), `MaxResubmits` and `MaxEdits`
(PendingActions), `MaxRounds` (HiringRequests), `LastMonth` and `MaxChanges`
(SalaryArrears; changes and edits of the profile together), `MaxRows` (AccrualLedger; rows
and savings of the terms together), `MaxPunches`, `MaxRequests` and
`MaxFaults` (PunchSync), `LastDay`, `MaxFaults` and `MaxSaves` (OperationsReport).
Their values are arbitrary in the proofs.

`CHECK_DEADLOCK FALSE` appears where the system may stop: in the runs of
`LoanInstallments` (loans are issued once, months are finite, and a reopening can be
refused by the unique constraint), of `PunchSync` (a site that works on requests is
idle when all have been made) and of `HiringRequests` (a request may be deleted, or
finished).

Symmetry: workers in `payroll_concurrent` and `accrual_ledger`, requests in
`requests`, officers, workers and complete forms in `hiring`; none of them is
compared, ordered or chosen, and none of these runs checks liveness.

Fairness. `PunchSync` assumes weak fairness of the agent's steps and of the server's
answer to the call the agent waits for: the agent runs as a loop or as a scheduled
task (`agent.py:1154-1218`), every call has a timeout, and the faults are finitely
many (`MaxFaults`), so that some later attempt is undisturbed. `OperationsReport`
assumes that time passes, that cron starts the command every minute
(`src/docker/entrypoint.sh:187-203`) and that a process goes on until it ends.
`Arrives` is claimed after the last fault and save, with a minute left in the day.
Everywhere else no fairness is assumed: nothing in the code schedules a human
decision, and no retry loop promises that a handler will be repeated.

## 4. Where code and documentation part

Three runs end in a violation; each finding in `PROJECT.json` quotes the line it
contradicts. In short:

1. `payroll_double_pay`: two locks of different runs of a month each find no other
   locked run paying the employee, and both commit.
2. `hiring_rejected`: a handler that read an employment request before it was
   rejected saves its own status over the rejection, and the request goes on.
3. `salary_twice`: two drafts built side by side contain the same arrears, and
   both are locked. The audit before a lock works out the basic salary again, not the
   arrears.

Further behaviours the models contain, without a run of their own (the notes of the
hazards in `PROJECT.json` name them). They need two handlers at the same time:

- a build, or a delete, that read "draft" before a lock committed rewrites or erases
  the locked run: the status is tested before the row lock is taken, and not again;
- an item form saved after a lock writes back `applied_to_payroll = NULL`, and the
  item is charged again;
- two settlements filed at the same time are both accepted;
- the suspension button, or the employee form, having read the employee before a
  settlement was executed, ends the termination with its save; a second settlement for
  the same service can then be filed and executed. `SettlesInService` says only that
  the employee is not terminated at the moment of an execution;
- two writers of the ledger read the same last row, and one of their changes is lost.

They need an unusual order of months:

- a stale draft collects the old amount of an installment that a lock of the month
  before enlarged, and the whole row is marked paid (`outdated`);
- an installment is carried into a month that is already locked and never listed again;
- months locked out of order from stale drafts can count an amount twice: a run has
  merged an installment into the next one, which a draft of an earlier month defers as
  well; locking that draft passes the enlarged amount on, and unlocking the later run
  takes its part off the installment that is now skipped, not off the one that has it.
  In the end the loan's installments add up to more than the loan. The shortest
  behaviour found has 3 installments, 7 months and about 65 steps (a search of the same
  state space outside TLC; with 6 months, or with 4 or 5 installments and 7 months,
  there is none), far beyond what a run can reach; it was met as the case in which the
  proof of `AddsUp` did not go through.

They need nothing unusual:

- a settlement is executed on figures that changed after it was signed, when a loan
  of the employee is approved in between;
- the employee form changes the basic salary without a salary change, and what was agreed
  for the months past the last change is no longer found;
- a WhatsApp sending of the report times out after it was taken over; the full report, or
  the command of the next minute, sends it again;
- a recalculation changes an opening row that was granted by other terms than 21 days a
  year, and every row that was written before the leave terms were saved.

## 5. Proofs

No assumption beyond the named ASSUMEs of the modules: the types of the constants, and
in `LoanInstallments` that every loan has an installment and no two of them in one
month, as `generate_installments` makes them and `unique_together` keeps them. Some
theorems have a hypothesis of their own, named below: `SingleOperator`, `ApartNext`, and
in `ConservedInOrder` the order of locking. Some properties are conditional themselves
(`serial`, `smooth`, `orderly`, `steady`, `office.regular`, `overtaken`, `outdated`); the
condition is where the code keeps its promise, and section 4 says what happens elsewhere.

**Sums** (`SumsProofs`). `SumOver` folds a function over a finite set. A theorem of
induction over finite sets takes an operator as its argument and cannot be used, so the
lemmas are proved by a minimal counterexample (`MinimalSubset`): among the
subsets for which the claim fails there would be a smallest one. From it come the
one equation the others need (`SumRemove`: a sum is that of the set without a member,
plus the member's value) and what follows: sums agree when the functions do, are
natural, split over disjoint sets, and keep their value when an amount moves from
one member to another (`SumTransfer`).

**Requests** (`OperationsProofs`, first part). `IInv` strengthens the properties with what
makes them inductive. `RowOK` says of every row that one at
`pending_gm` has passed its first stage (or was filed by an HR officer) and is no
cash shortage, and that one at `pending_officer` also has an HR manager's approval
given after its last resubmission; so when the officer executes it, the properties of
executed rows hold. `Invariance` proves `Init => IInv` and
`IInv /\ [Next]_vars => IInv'` action by action; `TypeCorrect`, `ExecutesOnce`,
`StatusTruthful`, `ExecutionApproved` and `SignedBeforeExecution` follow from it, and
`EvidenceFrozen` is an action property from the same invariant. They hold for any
sets of users, overlapping roles, requests and unlocked tasks.

`SettlesOnce` proves `SettlesInService` for the behaviours in which no two handlers file
a settlement of one employee at the same time (`FiledApart`) and nobody is reactivated
while an employee form is open that read them terminated (`EditedApart`). Without the first
it is false: filing searches for an open settlement and creates one without a lock.
Without the second the form's save dismisses the employee again, beside an open settlement.
With them, `ApartInv` adds to `IInv` that an employee has at most one open settlement, that a
task about to file one has found none, and that an open settlement means an
employee who is still in service: the search at filing suffices through returns,
deletions, reactivations and suspensions, and execution need not repeat it. That a
termination lasts is not part of it: a stale save may end it (section 4).

**Runs, any number of workers** (`PayrollRunsProofs`, first part). `Inv` joins the
types, `WritersHoldRow` and `BoundOnlyToLocked`: a locked row belongs to a task on
that run, a task that has computed or read what it will write holds the row, and
what is bound is bound to a locked run. Neither part is inductive without the
type of the tasks, which says which kinds work on a run. From it `TypeCorrect`,
`WritersExclude` and `NothingCaptured`. These are the properties that survive the
races of section 4.

**Runs, one handler at a time** (`PayrollRunsProofs`, second part). `SingleOperator`
says that there is at most one worker. It is a hypothesis of each theorem, not an assumption
of the module. Two handlers at a time break `NoDoublePay` and `ChargedOnce` (section 4), and a
termination beside a lock breaks `LedgerMatchesLines`; with one, the theorems say that the guards themselves are sufficient:
whatever the drafts contain, however stale they are, the guards of
`lock_payroll_run` refuse what would pay or charge twice. `SInv` adds to `Inv` what
a handler holds in its hands: the lines it read are still the run's lines, the
items it counted are still free, and the employees it is about to pay are paid by no
other locked run. `RunsImplementBook` proves that each step closes a run, reopens
one, or leaves the book unchanged.

**Loans** (`LoanInstallmentsProofs`). `PaidOnce` relates rows and locked runs and is
not inductive: a draft may list an installment that was paid or moved since it was built.
`IInv` says what a row says of the run it is bound to (`Owned`), what a locked run says
of its rows (`Kept`), that a draft has carried nothing yet (`Drafts`), and the
unique constraint. Amounts play no part in it: `Shapes` only says that a row has one.

`AInv` adds them. Unlocking subtracts, so even `TypeOK` (an amount is no negative number)
needs to know that what is taken off an installment is in it: `Covered` says that
every installment is at least the sum of those that locked runs have merged into it,
and this holds in every order of locking, because neither row changes while a run
that bound it is locked. It needs `OncePerLoan`, from the unique constraint: a run
defers one installment of a loan, so that a merge has one source.

That a loan adds up needs more: an installment that took an amount must not
pass it on while the run that merged it may still be unlocked. `Firm` says that such
an installment is skipped by later runs only, and those must be unlocked first. Locking an
overtaken draft breaks `Firm`, and nothing else does. For the money, `AsListed` says that
a locked run deducted each installment at the amount its row has: true when the lock was
not outdated, and kept because no run changes the amount of a paid row. `Conserved` proves
`LoanConserved` for every behaviour with the invariant `HInv`: `AInv`, with `Firm` and
`AddsUp` until an overtaken draft is locked, and `AsListed` until an outdated one is.
`RowsAreMoney` then turns `AddsUp` into `Repaid`. `ConservedInOrder` does not mention the
history: in every behaviour that locks no month before a locked later one, the rows of
every loan add up to it.

**Hiring** (`HiringRequestsProofs`). One invariant with two halves: what stale saves
cannot break (`Signed`: whoever saves a status of the officer's stage has seen the HR
manager's approval), and what holds for one handler at a time, where what a handler read
is what the row still holds (`Fits`, `Kept`). `OnlyApprovedHired` and `OneEmployee` are
unconditional, `EmployeeIsRequest`, `ApprovedAnew` and `RejectionIsFinal` are for `serial`.

**Salaries** (`SalaryArrearsProofs`). The salaries the changes replaced form a chain:
each is the new salary of the change before it. `SalaryOfCut` shows that working
backwards through the chain from the profile finds the same salary as working
forwards from the first, for every month. `EveryMonthAgreed` follows for a regular office;
an edit of the profile breaks the chain at its last link.

What was paid is a sum over the locked months. `PInv` joins the types, the chain and
`NeverOverpaid` with three facts: a draft built a moment ago has the salary and the arrears
of now (`Fresh`); arrears that a locked run paid were for earlier months that are still
locked (`Backed`), so that reopening a month takes back no salary whose arrears remain;
a month that no change reaches was paid the first salary (`FirstPaid`). Locking then
brings every earlier locked month to the salary agreed for it and, where it pays
anything, not beyond (`LockSettles`):
`DifferencesPaidOnce` and, as an action property, `LocksCatchUp`.

**Bridge** (`PunchSyncProofs`). `Contiguous`: at a site fed in order, whatever precedes
a punch that is under way, or that the agent has still to upload, is stored or
travels with it; the buffer of the watermark is what keeps this true for punches of one
second. `NoGaps` and `BridgeImplementsReplica` follow. `Pursued` says the same of the
punches an open request asked for, and that whatever is about to close the request comes
after them, whence `ClosedIsExecuted`. `Answered` and `SiteKept` make both inductive.

**Ledger** (`AccrualLedgerProofs`). A row comes before another when its date does, or at
the same date when it was created before it; `BeforeOrder` shows that this order is
total and `HasLast` that a set of rows has a last one. What a recursive definition along
this order computes would need induction; instead, if a claim failed for some row, it
would fail for a first one. In this way `RunningExists` and `BalancesRun` show that
`Balances` exists and satisfies its equation, and `AgreesAddsUp` that balances are sums.

`IInv` is what is inductive. `AccruedOnce` (a locked month has one live row of its own,
a month in draft none) and `OneLock` (a month is being locked by one transaction, which
holds the run's row) give `MonthsAccrued` for any number of transactions writing at once,
whatever is unlocked, deleted or recalculated in between; `Held` says what the
transactions under way have read. Two of the run's properties rest on one fact, `Agrees`:
while the ledger is orderly each row has the balance of the row before it plus its change,
and while it is steady that change is the one a recalculation would compute by the terms of
today. It is kept by a row added last, from the last balance (`AppendAgrees`), and by an
unlock, which in an orderly ledger takes away only the newest row (`AgreesInitial`), and it
is what a recalculation produces whatever it started from (`AlongAgrees`). `BalancesAddUp`
follows from the first half, `RecalculationConfirms` from both (`Confirmed`), and, as a
theorem about the step itself, `RecalculationRepairs`: a recalculation that nobody wrote
beside makes the balances add up, however out of order the ledger had been written.

**Report** (`OperationsProofs`, second part). `Backed`: a process that has sent, the settings
and an open settings page only name days on which somebody got the report
(`MarksAreSent`). For `SentOnce`, on smooth days without saves, processes are one at a time
(`Alone`), the mark is neither early nor in the future (`MarkInTime`), and what is still
to be sent today has not been sent (`Unsent`).

Only model-checked: the liveness properties `RequestClosed`, `Delivered` and `Arrives`,
and the violations of section 4. Every other property of the runs is stated by a
theorem, some under the hypotheses named above (one handler at a time for
`NoDoublePay`, `ChargedOnce`, `LedgerMatchesLines`, `LockedFrozen` and the refinement
of `PayrollBook`; filings and edits apart for `SettlesInService`). Out of the prover's reach:
liveness and ENABLED, and induction over data in general. The sums over finite sets and
the ledger's `Balances` are the exceptions, by the minimal counterexamples described
above. Of the recursive function `Left` of `LoanInstallments` nothing is proved and
nothing is needed: the theorems hold whatever subset of the due installments a draft
deducts.

## 6. How to run

```
tlc -config MCPayrollSerial.cfg MCPayrollRuns.tla
tlc -config MCPendingActions.cfg MCPendingActions.tla
tlc -config MCLoans.cfg MCLoanInstallments.tla
tlc -config MCHiring.cfg MCHiringRequests.tla
tlc -config MCPunchSync.cfg MCPunchSync.tla
tlapm PayrollRunsProofs.tla
tlapm LoanInstallmentsProofs.tla
tlapm AccrualLedgerProofs.tla
```

and so on: `MC<Name>.cfg` belongs to the module its run in `PROJECT.json` names. Every
run of TLC takes at most three minutes on two workers.

## 7. Plan

Done, in this order: `PayrollBook` and `PayrollRuns` (the core), `PendingActions`,
`LoanInstallments`, the proofs of the first two; then `PunchSync`, `HiringRequests`,
`SalaryArrears`, `OperationsReport`, `AccrualLedger` and their proofs; on the way sums
over finite sets, and with them the amounts of loans and arrears and the balances of
the ledger.

Next:

1. The composition of settlements with items and installments: what a settlement
   deducts, and what a run still charges after a reactivation.
2. Row-lock waiting: the order in which a consolidated build and the locks take rows,
   and that no two handlers wait for each other.
3. The evaluation of attendance days from punches, and the late minutes and
   absences it suggests.

As the instances grow, runs that ask one question of the same module are merged
rather than added.

## 8. Not modelled

Most of the repository's lines are pages, forms, reports, exports, templates,
migrations and tests: they read the state modelled here, or write one row of a table
of their own. What is left out on purpose:

- Detailed allocation runs and the audit report: derived data that pays nobody
  and binds nothing. Of the audit, the one check that a lock of a salary line depends
  on is in `SalaryArrears`.
- Attendance: the registration of devices, the mapping of device users to employees,
  the days evaluated from punches, and the pull by the server itself.
- Maintenance requests: a linear workflow with no effect outside its row.
- Sessions, notifications, WhatsApp, mail, reports, exports, backups: output, or
  state nothing above depends on; failures are logged and swallowed.
- Permissions: the sets of users at each stage are constants; the registry and its
  caches are not modelled.
- Amounts other than installments, basic salaries and leave days: insurance,
  allowances, overtime and end-of-service formulas are arithmetic on one row, which
  unit tests reach.
- `create_and_execute_settlement_action` (no caller) and requests created by
  earlier versions that suspended the employee
  (`revert_employee_settlement_pending_status`).
