---------------------------- MODULE HiringRequests ----------------------------
(***************************************************************************)
(* One employment request: filed, approved by the first stage, by the HR   *)
(* manager who assigns it to an officer, completed and approved by that    *)
(* officer, which hires the employee; or rejected, returned and            *)
(* resubmitted, or deleted on the way.                                     *)
(*                                                                         *)
(* No handler locks the row: it reads it, decides on what it read, and     *)
(* saves later.  The decisions save the columns they change; the two edit  *)
(* forms save every column, as they were read.  A worker is a web request, *)
(* or the background job that follows the filing of the request.           *)
(***************************************************************************)
EXTENDS Naturals

CONSTANTS
    Officers,
    Manager,        \* an HR manager: may do the officer's work too
    Nobody,
    Data,           \* what the form of the employee's data may hold
    Complete,       \* the data that can be approved
    EmptyForm,      \* data nobody filled in
    NoEmployee,
    Workers,
    MaxRounds       \* bound of the instances

ASSUME HiringAssumption ==
    /\ Complete \subseteq Data
    /\ EmptyForm \in Data \ Complete
    /\ Manager \notin Officers
    /\ Nobody \notin Officers
    /\ NoEmployee \notin Data
    /\ MaxRounds \in Nat

VARIABLES
    serial,     \* whether handlers run one at a time; never changes
    row,        \* the EmploymentRequest
    employee,   \* the data of the Employee created from it
    job,        \* the notification of the new request waits to be run
    task,       \* what each worker has read and is about to save
    rounds      \* history: the rounds in which the HR manager approved

vars == <<serial, row, employee, job, task, rounds>>

-----------------------------------------------------------------------------
Pending == {"pending_branch", "pending_gm", "pending_officer"}
Status == Pending \cup {"none", "returned", "approved", "rejected"}

\* skips: the submitter's role or the lack of an approver skips the first
\* stage; branch, gm: the stamps of the two first stages.
Rows == [status : Status, round : 0..MaxRounds, skips : BOOLEAN, branch : BOOLEAN,
         gm : BOOLEAN, officer : Officers \cup {Nobody}, data : Data, deleted : BOOLEAN]

Ops == {"idle", "skip", "first", "gm", "assign", "officer", "reject", "return",
        "delete", "edit", "edit_and_approve", "reread", "edit_returned", "resubmit"}

\* The row as it was read, where it is used again, and what the user submitted.
Tasks == [op : Ops, row : Rows, actor : Officers \cup {Manager, Nobody},
          officer : Officers \cup {Nobody}, data : Data, skips : BOOLEAN]

TypeOK ==
    /\ serial \in BOOLEAN
    /\ row \in Rows
    /\ employee \in Data \cup {NoEmployee}
    /\ job \in BOOLEAN
    /\ task \in [Workers -> Tasks]
    /\ rounds \subseteq 0..MaxRounds
    /\ serial => (row.officer # Nobody <=> row.gm)

Filed(d, s) == [status |-> "pending_branch", round |-> 0, skips |-> s, branch |-> FALSE,
                gm |-> FALSE, officer |-> Nobody, data |-> d, deleted |-> FALSE]

NoRow == [Filed(EmptyForm, FALSE) EXCEPT !.status = "none"]

Idle == [op |-> "idle", row |-> NoRow, actor |-> Nobody, officer |-> Nobody,
         data |-> EmptyForm, skips |-> FALSE]

Init ==
    /\ serial \in BOOLEAN
    /\ row = NoRow
    /\ employee = NoEmployee
    /\ job = FALSE
    /\ task = [w \in Workers |-> Idle]
    /\ rounds = {}

-----------------------------------------------------------------------------
(* Reading the row.                                                        *)

Free(w) ==
    /\ task[w].op = "idle"
    /\ serial => \A v \in Workers : task[v].op = "idle"

\* Mutant: the officer's stage opens before the manager approved.
AtOfficer_Early(r) == r.status \in {"pending_gm", "pending_officer"}

AtOfficer(r) == r.status = "pending_officer"

\* can_officer_act_employment_request
MayAct(a, r) == AtOfficer(r) /\ a \in {Manager, r.officer}

\* Mutant: an approved request can be rejected.
Rejectable_Approved(r) == r.status \in Pending \cup {"returned", "approved"}

Rejectable(r) == r.status \in Pending \cup {"returned"}

\* Mutant: a rejected request can be returned.
Returnable_Rejected(r) == r.status \in Pending \cup {"rejected"}

\* _returnable_statuses
Returnable(r) == r.status \in Pending

\* What the view and the service check on the row they fetch.
Allowed(op, a, o) ==
    CASE op = "first" -> row.status = "pending_branch"
      [] op = "gm" -> row.status = "pending_gm" /\ o # Nobody
      [] op = "assign" -> AtOfficer(row) /\ a = Manager /\ o # Nobody
      [] op = "officer" -> MayAct(a, row) /\ row.data \in Complete
      [] op = "reject" -> Rejectable(row)
      [] op = "return" -> Returnable(row)
      [] op = "delete" -> row.status # "none"
      [] op \in {"edit", "edit_and_approve"} -> MayAct(a, row)
      [] op = "edit_returned" -> row.status = "returned"
      [] op = "resubmit" -> row.status = "returned" /\ row.round < MaxRounds

\* What each handler uses again of the row it has read.
Needed(op, r) ==
    CASE op \in {"edit", "edit_and_approve", "edit_returned"} -> r
      [] op = "resubmit" -> [NoRow EXCEPT !.skips = r.skips, !.round = r.round]
      [] op = "gm" -> [NoRow EXCEPT !.round = r.round]
      [] op = "officer" -> [NoRow EXCEPT !.data = r.data]
      [] OTHER -> NoRow

\* A user's request reaches its handler, which fetches the row.
Begin(w, op, a, o, d, s) ==
    /\ Free(w)
    /\ ~row.deleted
    /\ Allowed(op, a, o)
    /\ task' = [task EXCEPT ![w] =
                  [op |-> op, row |-> Needed(op, row),
                   actor |-> IF op = "edit_and_approve" THEN a ELSE Nobody,
                   officer |-> o, data |-> d, skips |-> s]]
    /\ UNCHANGED <<serial, row, employee, job, rounds>>

\* add_employee saves the request, which schedules its notification, and goes
\* on to skip the first stage of the object it has just saved.
AddEmployee(w, d, s) ==
    /\ Free(w)
    /\ row.status = "none"
    /\ row' = Filed(d, s)
    /\ job' = TRUE
    /\ task' = [task EXCEPT ![w] =
                  IF s THEN [Idle EXCEPT !.op = "skip"] ELSE Idle]
    /\ UNCHANGED <<serial, employee, rounds>>

\* notify_branch_on_create, in the background: skips the first stage too, of
\* the row it fetches.
NotifyOnCreate(w) ==
    /\ Free(w)
    /\ job
    /\ job' = FALSE
    /\ task' = [task EXCEPT ![w] =
                  IF ~row.deleted /\ row.skips /\ row.status = "pending_branch"
                  THEN [Idle EXCEPT !.op = "skip"] ELSE Idle]
    /\ UNCHANGED <<serial, row, employee, rounds>>

-----------------------------------------------------------------------------
(* Saving.                                                                 *)

Saved(w, r) ==
    /\ row' = r
    /\ task' = [task EXCEPT ![w] = Idle]

\* branch_approve, and skip_first_stage_if_unrouted
FirstStage(w) ==
    /\ task[w].op \in {"first", "skip"}
    /\ \E stamp \in BOOLEAN :
          /\ task[w].op = "first" => stamp
          /\ Saved(w, [row EXCEPT !.status = "pending_gm", !.branch = @ \/ stamp])
    /\ UNCHANGED <<serial, employee, job, rounds>>

\* gm_approve_and_assign
GMApproveAndAssign(w) ==
    /\ task[w].op = "gm"
    /\ Saved(w, [row EXCEPT !.status = "pending_officer", !.gm = TRUE,
                            !.officer = task[w].officer])
    /\ rounds' = rounds \cup {task[w].row.round}
    /\ UNCHANGED <<serial, employee, job>>

\* save_officer_assignment
SaveOfficerAssignment(w) ==
    /\ task[w].op = "assign"
    /\ Saved(w, [row EXCEPT !.officer = task[w].officer])
    /\ UNCHANGED <<serial, employee, job, rounds>>

\* Mutant: whether the request has its employee already is not looked up.
Hired_Again(d) == d

\* The employee is created from the data that was read, unless there is one.
Hired(d) == IF employee = NoEmployee THEN d ELSE employee

\* officer_approve
OfficerApprove(w) ==
    /\ task[w].op = "officer"
    /\ Saved(w, [row EXCEPT !.status = "approved"])
    /\ employee' = Hired(task[w].row.data)
    /\ UNCHANGED <<serial, job, rounds>>

Reject(w) ==
    /\ task[w].op = "reject"
    /\ Saved(w, [row EXCEPT !.status = "rejected"])
    /\ UNCHANGED <<serial, employee, job, rounds>>

ReturnForEdit(w) ==
    /\ task[w].op = "return"
    /\ Saved(w, [row EXCEPT !.status = "returned"])
    /\ UNCHANGED <<serial, employee, job, rounds>>

\* A soft delete.
Delete(w) ==
    /\ task[w].op = "delete"
    /\ Saved(w, [row EXCEPT !.deleted = TRUE])
    /\ UNCHANGED <<serial, employee, job, rounds>>

\* EmploymentRequestEditForm.save: every column, as it was read.
EditSave(w) ==
    /\ task[w].op = "edit"
    /\ Saved(w, [task[w].row EXCEPT !.data = task[w].data])
    /\ UNCHANGED <<serial, employee, job, rounds>>

\* The same with the button that approves too: the row is fetched again next.
EditSaveThenApprove(w) ==
    /\ task[w].op = "edit_and_approve"
    /\ row' = [task[w].row EXCEPT !.data = task[w].data]
    /\ task' = [task EXCEPT ![w] = [Idle EXCEPT !.op = "reread", !.actor = task[w].actor]]
    /\ UNCHANGED <<serial, employee, job, rounds>>

\* refresh_from_db, and the checks of officer_approve on what it finds.
Reread(w) ==
    /\ task[w].op = "reread"
    /\ task' = [task EXCEPT ![w] =
                  IF MayAct(task[w].actor, row) /\ row.data \in Complete
                  THEN [Idle EXCEPT !.op = "officer", !.row = Needed("officer", row)] ELSE Idle]
    /\ UNCHANGED <<serial, row, employee, job, rounds>>

\* EmploymentRequestForm.save: every column, as it was read.
EditReturned(w) ==
    /\ task[w].op = "edit_returned"
    /\ Saved(w, [task[w].row EXCEPT !.data = task[w].data, !.skips = task[w].skips])
    /\ UNCHANGED <<serial, employee, job, rounds>>

\* Mutant: the request goes back to the officer who had it.
Restarted_AtOfficer(r, read) ==
    [r EXCEPT !.status = IF r.gm THEN "pending_officer" ELSE "pending_branch",
              !.round = read.round + 1]

\* Mutant: the officer keeps the request.
Restarted_OfficerKept(r, read) ==
    [r EXCEPT !.status = IF read.skips THEN "pending_gm" ELSE "pending_branch",
              !.round = read.round + 1, !.branch = FALSE, !.gm = FALSE]

\* The stages begin again, and their stamps are cleared.
Restarted(r, read) ==
    [r EXCEPT !.status = IF read.skips THEN "pending_gm" ELSE "pending_branch",
              !.round = read.round + 1,
              !.branch = FALSE, !.gm = FALSE, !.officer = Nobody]

Resubmit(w) ==
    /\ task[w].op = "resubmit"
    /\ Saved(w, Restarted(row, task[w].row))
    /\ UNCHANGED <<serial, employee, job, rounds>>

Commit(w) ==
    \/ FirstStage(w) \/ GMApproveAndAssign(w) \/ SaveOfficerAssignment(w)
    \/ OfficerApprove(w) \/ Reject(w) \/ ReturnForEdit(w) \/ Delete(w)
    \/ EditSave(w) \/ EditSaveThenApprove(w) \/ Reread(w)
    \/ EditReturned(w) \/ Resubmit(w)

Start(w) ==
    \/ \E d \in Data, s \in BOOLEAN : AddEmployee(w, d, s)
    \/ NotifyOnCreate(w)
    \/ \E op \in {"first", "reject", "return", "delete", "resubmit"} :
          Begin(w, op, Nobody, Nobody, EmptyForm, FALSE)
    \/ \E o \in Officers : Begin(w, "gm", Manager, o, EmptyForm, FALSE)
    \/ \E o \in Officers : Begin(w, "assign", Manager, o, EmptyForm, FALSE)
    \/ \E a \in Officers \cup {Manager} : Begin(w, "officer", a, Nobody, EmptyForm, FALSE)
    \/ \E a \in Officers \cup {Manager}, d \in Data, op \in {"edit", "edit_and_approve"} :
          Begin(w, op, a, Nobody, d, FALSE)
    \/ \E d \in Data, s \in BOOLEAN : Begin(w, "edit_returned", Nobody, Nobody, d, s)

Next == \E w \in Workers : Start(w) \/ Commit(w)

Spec == Init /\ [][Next]_vars

-----------------------------------------------------------------------------
(* Properties.                                                             *)

\* Nobody is hired without the HR manager's approval or with data missing,
\* whatever stale rows are saved over newer ones.
NeverUnapproved ==
    employee # NoEmployee => rounds # {} /\ employee \in Complete

\* A request hires once, however often it is approved.
HiredOnce == [][employee # NoEmployee => employee' = employee]_vars

\* With one handler at a time there is an employee exactly when the request is
\* approved, with the data the request shows.
EmployeeMatchesRequest ==
    serial => employee = IF row.status = "approved" THEN row.data ELSE NoEmployee

\* With one handler at a time a request that is with the officer, or approved,
\* has the approval of the HR manager given after its last resubmission.
ApprovedThisRound ==
    serial => (row.gm => row.round \in rounds)
              /\ (row.status \in {"pending_officer", "approved"} => row.gm)

\* A rejection is final.
Final == row.status = "rejected" => row'.status = "rejected"

\* With one handler at a time.
RejectionKept == [][serial => Final]_vars

\* Always.
RejectionFinal == [][Final]_vars

=============================================================================
