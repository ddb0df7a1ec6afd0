--------------------------- MODULE PendingActions ---------------------------
(***************************************************************************)
(* The operations requests of apps/core (PendingAction): a request about an *)
(* employee is approved by a branch manager, then by the HR manager, who    *)
(* assigns an officer; the officer's approval executes it.  A settlement    *)
(* (terminate, end_of_service) also needs a signed file, and goes on to the *)
(* accountant and back to the HR manager after its execution.  A request    *)
(* can be returned, resubmitted and deleted.                                *)
(*                                                                          *)
(* Every decision view locks the request's row for its whole transaction    *)
(* and is one action here.  Creating and deleting a request lock nothing:   *)
(* they are tasks of a worker, cut between what they read and what they     *)
(* write; so are the button that suspends an employee and the employee form. *)
(***************************************************************************)
EXTENDS Naturals, FiniteSets

CONSTANTS
    Requests,       \* the rows that may be created
    Employees,
    Sponsored,      \* the employees on a sponsorship
    Users,
    Submitters,     \* users who file requests
    FirstApprovers, \* branch or administration managers
    Managers,       \* HR managers (with the admins, the "general managers")
    Officers,       \* active HR officers
    Accountants,    \* branch accountants
    Superusers,
    Admins,         \* system administrators by role
    Returners,      \* users permitted to return requests
    Kinds,          \* the action types filed
    Workers,        \* concurrent handlers that hold no row lock
    NoUser, NoEmployee, NoRequest,
    MaxResubmits,   \* bound on resubmissions of one request
    MaxEdits        \* bound on edits of one settlement

AllKinds == {"settlement", "reactivate", "loan_request", "absence",
             "cash_shortage", "leave"}

ASSUME WorkflowAssumption ==
    /\ Sponsored \subseteq Employees
    /\ Submitters \subseteq Users
    /\ FirstApprovers \subseteq Users
    /\ Managers \subseteq Users
    /\ Officers \subseteq Users
    /\ Accountants \subseteq Users
    /\ Superusers \subseteq Users
    /\ Admins \subseteq Users
    /\ Returners \subseteq Users
    /\ Kinds \subseteq AllKinds
    /\ NoUser \notin Users
    /\ NoEmployee \notin Employees
    /\ NoRequest \notin Requests
    /\ MaxResubmits \in Nat
    /\ MaxEdits \in Nat

VARIABLES
    req,     \* req[r]: the row of request r
    staff,   \* staff[e]: active, suspended or terminated
    figures, \* figures[e]: version of e's loans, absences and shortages
    task     \* task[w]: the creation, deletion, suspension or edit w is in the middle of

vars == <<req, staff, figures, task>>

-----------------------------------------------------------------------------
Pending == {"pending_branch", "pending_gm", "pending_officer", "pending_accountant"}
Status == Pending \cup {"approved", "returned"}

\* The signed file and what it was printed from: the officer's edits of the
\* settlement and the employee's figures.
NoFile == [edits |-> 0, figures |-> 0, present |-> FALSE]
File(n, f) == [edits |-> n, figures |-> f, present |-> TRUE]
Files == [edits : Nat, figures : Nat, present : BOOLEAN]

NoRow == [status |-> "none", kind |-> "none", emp |-> NoEmployee, by |-> NoUser,
          branchBy |-> NoUser, gmBy |-> NoUser, officer |-> NoUser,
          signed |-> NoFile, edits |-> 0, resubmits |-> 0,
          executed |-> FALSE, deleted |-> FALSE,
          approvedIn |-> 0, runs |-> 0, settledOn |-> NoFile]
\* The last three fields are history: the resubmission the HR manager's
\* approval belongs to, how often the request was executed, and the figures
\* a settlement was computed from.

Rows == [status : Status \cup {"none"}, kind : AllKinds \cup {"none"},
         emp : Employees \cup {NoEmployee}, by : Users \cup {NoUser},
         branchBy : Users \cup {NoUser}, gmBy : Users \cup {NoUser},
         officer : Users \cup {NoUser},
         signed : Files,
         edits : Nat, resubmits : Nat, executed : BOOLEAN, deleted : BOOLEAN,
         approvedIn : Nat, runs : Nat,
         settledOn : Files]

Idle == [op |-> "idle", by |-> NoUser, kind |-> "none", emp |-> NoEmployee,
         req |-> NoRequest, was |-> "none"]

\* The type of every variable; the officer of a request is known exactly when
\* an HR manager has approved it.
TypeOK ==
    /\ req \in [Requests -> Rows]
    /\ \A r \in Requests :
          req[r].status # "none" => /\ req[r].kind \in Kinds
                                    /\ req[r].emp \in Employees
    /\ \A r \in Requests : req[r].gmBy # NoUser <=> req[r].officer # NoUser
    /\ staff \in [Employees -> {"active", "suspended", "terminated"}]
    /\ figures \in [Employees -> Nat]
    /\ task \in [Workers ->
          [op : {"idle", "create", "delete", "suspend", "edit"}, by : Users \cup {NoUser},
           kind : Kinds \cup {"none"}, emp : Employees \cup {NoEmployee},
           req : Requests \cup {NoRequest},
           was : {"none", "active", "suspended", "terminated"}]]
    /\ \A w \in Workers :
          /\ task[w].op = "create" => /\ task[w].kind \in Kinds
                                      /\ task[w].emp \in Employees
                                      /\ task[w].by \in Users
          /\ task[w].op = "delete" => task[w].req \in Requests
          /\ task[w].op \in {"suspend", "edit"} =>
                task[w].emp \in Employees /\ task[w].was # "none"

Init ==
    /\ req = [r \in Requests |-> NoRow]
    /\ staff = [e \in Employees |-> "active"]
    /\ figures = [e \in Employees |-> 0]
    /\ task = [w \in Workers |-> Idle]

\* Deleted rows are invisible to the default manager, so to every view.
Live(r) == req[r].status # "none" /\ ~req[r].deleted

-----------------------------------------------------------------------------
(* Who may act.                                                            *)

\* The first approver of a cash shortage is the branch accountant.
ReviewsFirst(u, r) ==
    IF req[r].kind = "cash_shortage" THEN u \in Accountants ELSE u \in FirstApprovers

\* A general manager may stand in for the branch on settlements and loans.
MayFirstApprove(u, r) ==
    \/ u \in Superusers
    \/ ReviewsFirst(u, r)
    \/ /\ u \in Managers \cup Admins
       /\ req[r].kind \in {"settlement", "loan_request"}

MayManage(u) == u \in Managers \cup Admins \cup Superusers
MayExecute(u, r) == u = req[r].officer \/ u \in Superusers
MayAccount(u) == u \in Accountants \cup Admins \cup Superusers

\* Whoever has the stage may return a request, and at the HR manager's stage
\* anyone with the permission to return.
MayReturn(u, r) ==
    \/ u \in Superusers
    \/ /\ u \in Returners
       /\ CASE req[r].status = "pending_branch" -> ReviewsFirst(u, r)
            [] req[r].status = "pending_gm" -> TRUE
            [] req[r].status = "pending_officer" -> u = req[r].officer
            [] OTHER -> FALSE

\* The requester may delete while nobody has decided, after a return, and
\* after completion; an administrator always.
MayDelete(u, r) ==
    \/ u \in Superusers \cup Admins
    \/ /\ u = req[r].by
       /\ req[r].status \in {"returned", "pending_branch", "approved"}

\* Mutant: the submitter's role is not looked at.
SkipsFirst_Anyone(u, k) == k # "cash_shortage"

\* An HR officer's request skips the first stage; an HR manager's is approved
\* in the manager's name; a cash shortage never skips.
SkipsFirst(u, k) == k # "cash_shortage" /\ u \in Officers \cup Managers
FirstStatus(u, k) == IF SkipsFirst(u, k) THEN "pending_gm" ELSE "pending_branch"
FirstReviewer(u, k) == IF SkipsFirst(u, k) /\ u \in Managers THEN u ELSE NoUser

-----------------------------------------------------------------------------
(* Creating a request.                                                     *)

\* Mutant: a returned settlement does not count as open.
OpenSettlements_NotReturned(e) ==
    {r \in Requests : /\ Live(r)
                      /\ req[r].emp = e
                      /\ req[r].kind = "settlement"
                      /\ req[r].status # "returned"
                      /\ ~req[r].executed}

\* The settlements of e that are not executed.
OpenSettlements(e) ==
    {r \in Requests : /\ Live(r)
                      /\ req[r].emp = e
                      /\ req[r].kind = "settlement"
                      /\ ~req[r].executed}

MayFile(k, e) ==
    /\ k = "settlement" => staff[e] # "terminated" /\ OpenSettlements(e) = {}
    /\ k = "reactivate" => staff[e] = "terminated"

\* The view reads the employee's status and the open settlements.
CreateBegin(w, u, k, e) ==
    /\ task[w].op = "idle"
    /\ u \in Submitters
    /\ MayFile(k, e)
    /\ task' = [task EXCEPT ![w] = [Idle EXCEPT !.op = "create", !.by = u,
                                               !.kind = k, !.emp = e]]
    /\ UNCHANGED <<req, staff, figures>>

\* The row is inserted and its first stage skipped for HR.
CreateCommit(w, r) ==
    LET t == task[w]
    IN  /\ t.op = "create"
        /\ req[r] = NoRow
        /\ req' = [req EXCEPT ![r] =
                     [NoRow EXCEPT !.status = FirstStatus(t.by, t.kind),
                                   !.kind = t.kind, !.emp = t.emp, !.by = t.by,
                                   !.branchBy = FirstReviewer(t.by, t.kind)]]
        /\ task' = [task EXCEPT ![w] = Idle]
        /\ UNCHANGED <<staff, figures>>

-----------------------------------------------------------------------------
(* Execution: EXECUTORS[action_type].                                      *)

\* What executing r does to its employee.
ExecuteEffects(r) ==
    LET e == req[r].emp
    IN  /\ staff' = CASE req[r].kind = "settlement" -> [staff EXCEPT ![e] = "terminated"]
                      [] req[r].kind = "reactivate" -> [staff EXCEPT ![e] = "active"]
                      [] OTHER -> staff
        /\ figures' = IF req[r].kind \in {"loan_request", "absence", "cash_shortage"}
                      THEN [figures EXCEPT ![e] = @ + 1]
                      ELSE figures

\* Mutant: executed_at is not set.
Executed_NotStamped(row) ==
    [row EXCEPT !.runs = @ + 1,
                !.settledOn = IF row.kind = "settlement"
                              THEN File(row.edits, figures[row.emp]) ELSE NoFile]

\* The row after the execution: executed_at is set.
Executed(row) ==
    [row EXCEPT !.executed = TRUE, !.runs = @ + 1,
                !.settledOn = IF row.kind = "settlement"
                              THEN File(row.edits, figures[row.emp]) ELSE NoFile]

-----------------------------------------------------------------------------
(* Decisions, each under the row lock of its request.                      *)

BranchApprove(u, r) ==
    /\ Live(r)
    /\ req[r].status = "pending_branch"
    /\ req[r].kind # "cash_shortage"
    /\ MayFirstApprove(u, r)
    /\ req' = [req EXCEPT ![r] = [@ EXCEPT !.status = "pending_gm",
                                            !.branchBy = u]]
    /\ UNCHANGED <<staff, figures, task>>

\* A cash shortage is executed by its first approval.
CashApprove(u, r) ==
    /\ Live(r)
    /\ req[r].status = "pending_branch"
    /\ req[r].kind = "cash_shortage"
    /\ MayFirstApprove(u, r)
    /\ ~req[r].executed
    /\ req' = [req EXCEPT ![r] =
                 Executed([req[r] EXCEPT !.status = "approved", !.branchBy = u])]
    /\ ExecuteEffects(r)
    /\ UNCHANGED task

GMApprove(u, r, o) ==
    /\ Live(r)
    /\ req[r].status = "pending_gm"
    /\ ~req[r].executed
    /\ MayManage(u)
    /\ o \in Officers
    /\ req' = [req EXCEPT ![r] =
                 [@ EXCEPT !.status = "pending_officer", !.gmBy = u, !.officer = o,
                           !.approvedIn = req[r].resubmits]]
    /\ UNCHANGED <<staff, figures, task>>

\* Where a request goes once it has been executed.
AfterExecution(r) ==
    IF req[r].kind # "settlement" THEN "approved"
    ELSE IF req[r].emp \in Sponsored THEN "pending_accountant" ELSE "pending_gm"

OfficerApprove(u, r) ==
    /\ Live(r)
    /\ req[r].status = "pending_officer"
    /\ MayExecute(u, r)
    /\ req[r].kind = "settlement" => req[r].signed.present
    /\ ~req[r].executed
    /\ req' = [req EXCEPT ![r] =
                 Executed([req[r] EXCEPT !.status = AfterExecution(r)])]
    /\ ExecuteEffects(r)
    /\ UNCHANGED task

AccountantApprove(u, r) ==
    /\ Live(r)
    /\ req[r].status = "pending_accountant"
    /\ MayAccount(u)
    /\ req' = [req EXCEPT ![r] = [@ EXCEPT !.status = "pending_gm"]]
    /\ UNCHANGED <<staff, figures, task>>

\* The HR manager closes an executed settlement.
GMFinalApprove(u, r) ==
    /\ Live(r)
    /\ req[r].kind = "settlement"
    /\ req[r].status = "pending_gm"
    /\ req[r].executed
    /\ MayManage(u)
    /\ req' = [req EXCEPT ![r] = [@ EXCEPT !.status = "approved"]]
    /\ UNCHANGED <<staff, figures, task>>

\* Mutant: a settlement awaiting its final approval is returned.
Returnable_Executed(r) ==
    req[r].status \in {"pending_branch", "pending_gm", "pending_officer"}

\* The stages a request may be returned from.
Returnable(r) ==
    /\ req[r].status \in {"pending_branch", "pending_gm", "pending_officer"}
    /\ ~req[r].executed

ReturnAction(u, r) ==
    /\ Live(r)
    /\ MayReturn(u, r)
    /\ Returnable(r)
    /\ req' = [req EXCEPT ![r] = [@ EXCEPT !.status = "returned"]]
    /\ UNCHANGED <<staff, figures, task>>

\* What a resubmission keeps of the row: it clears the reviewers of the first
\* round, not the signed file.
Cleared(row) ==
    [row EXCEPT !.branchBy = FirstReviewer(row.by, row.kind),
                !.gmBy = NoUser, !.officer = NoUser]

ResubmitAction(u, r) ==
    /\ Live(r)
    /\ req[r].status = "returned"
    /\ u = req[r].by \/ u \in Superusers
    /\ req[r].resubmits < MaxResubmits
    /\ req' = [req EXCEPT ![r] =
                 [Cleared(req[r]) EXCEPT
                    !.status = FirstStatus(req[r].by, req[r].kind),
                    !.resubmits = @ + 1]]
    /\ UNCHANGED <<staff, figures, task>>

-----------------------------------------------------------------------------
(* The officer's edits of a settlement.                                    *)

\* Mutant: neither the stage nor the execution is looked at.
MayEditSettlement_AnyStage(u, r) ==
    /\ Live(r)
    /\ MayExecute(u, r)
    /\ req[r].kind = "settlement"

MayEditSettlement(u, r) ==
    /\ Live(r)
    /\ MayExecute(u, r)
    /\ req[r].kind = "settlement"
    /\ req[r].status = "pending_officer"
    /\ ~req[r].executed

\* Mutant: the signed file survives an edit.
EditedRow_FileKept(row) == [row EXCEPT !.edits = @ + 1]

\* Changed figures invalidate the signed file.
EditedRow(row) == [row EXCEPT !.edits = @ + 1, !.signed = NoFile]

SettlementEdit(u, r) ==
    /\ MayEditSettlement(u, r)
    /\ req[r].edits < MaxEdits
    /\ req' = [req EXCEPT ![r] = EditedRow(req[r])]
    /\ UNCHANGED <<staff, figures, task>>

\* The signed print of the current figures is uploaded.
SignedUpload(u, r) ==
    /\ MayEditSettlement(u, r)
    /\ req' = [req EXCEPT ![r] =
                 [@ EXCEPT !.signed = File(req[r].edits, figures[req[r].emp])]]
    /\ UNCHANGED <<staff, figures, task>>

-----------------------------------------------------------------------------
(* Deleting a request, suspending an employee, and editing one.            *)

DeleteBegin(w, u, r) ==
    /\ task[w].op = "idle"
    /\ Live(r)
    /\ MayDelete(u, r)
    /\ task' = [task EXCEPT ![w] = [Idle EXCEPT !.op = "delete", !.by = u, !.req = r]]
    /\ UNCHANGED <<req, staff, figures>>

\* is_deleted alone is written, whatever the request has become.
DeleteCommit(w) ==
    /\ task[w].op = "delete"
    /\ req' = [req EXCEPT ![task[w].req] = [@ EXCEPT !.deleted = TRUE]]
    /\ task' = [task EXCEPT ![w] = Idle]
    /\ UNCHANGED <<staff, figures>>

\* The suspension button reads the employee and refuses a terminated one.
SuspendBegin(w, e) ==
    /\ task[w].op = "idle"
    /\ staff[e] # "terminated"
    /\ task' = [task EXCEPT ![w] = [Idle EXCEPT !.op = "suspend", !.emp = e,
                                               !.was = staff[e]]]
    /\ UNCHANGED <<req, staff, figures>>

\* The status opposite to the one read is saved.
SuspendCommit(w) ==
    /\ task[w].op = "suspend"
    /\ staff' = [staff EXCEPT ![task[w].emp] =
                   IF task[w].was = "suspended" THEN "active" ELSE "suspended"]
    /\ task' = [task EXCEPT ![w] = Idle]
    /\ UNCHANGED <<req, figures>>

\* The employee form reads the row of any employee.
EditBegin(w, e) ==
    /\ task[w].op = "idle"
    /\ task' = [task EXCEPT ![w] = [Idle EXCEPT !.op = "edit", !.emp = e,
                                               !.was = staff[e]]]
    /\ UNCHANGED <<req, staff, figures>>

\* It has no field for the status, refuses a posted one that ends the service,
\* and saves the whole row, with the status it read.
EditCommit(w) ==
    /\ task[w].op = "edit"
    /\ staff' = [staff EXCEPT ![task[w].emp] = task[w].was]
    /\ task' = [task EXCEPT ![w] = Idle]
    /\ UNCHANGED <<req, figures>>

\* A handler fails or is killed before it writes.
Abort(w) ==
    /\ task[w].op # "idle"
    /\ task' = [task EXCEPT ![w] = Idle]
    /\ UNCHANGED <<req, staff, figures>>

-----------------------------------------------------------------------------
Decide(r) ==
    \E u \in Users :
         \/ BranchApprove(u, r) \/ CashApprove(u, r)
         \/ \E o \in Officers : GMApprove(u, r, o)
         \/ OfficerApprove(u, r)
         \/ AccountantApprove(u, r)
         \/ GMFinalApprove(u, r)
         \/ ReturnAction(u, r) \/ ResubmitAction(u, r)
         \/ SettlementEdit(u, r) \/ SignedUpload(u, r)

Handle(w) ==
    \/ \E u \in Users, k \in Kinds, e \in Employees : CreateBegin(w, u, k, e)
    \/ \E r \in Requests : CreateCommit(w, r)
    \/ \E u \in Users, r \in Requests : DeleteBegin(w, u, r)
    \/ DeleteCommit(w)
    \/ \E e \in Employees : SuspendBegin(w, e)
    \/ SuspendCommit(w)
    \/ \E e \in Employees : EditBegin(w, e)
    \/ EditCommit(w)
    \/ Abort(w)

Next ==
    \/ \E r \in Requests : Decide(r)
    \/ \E w \in Workers : Handle(w)

Spec == Init /\ [][Next]_vars

-----------------------------------------------------------------------------
(* Properties.                                                             *)

\* A request is executed at most once, and executed_at says so: no path of
\* returns, resubmissions and approvals runs its effects twice.
ExecutedOnce ==
    \A r \in Requests : req[r].runs = IF req[r].executed THEN 1 ELSE 0

\* An executed request, other than a cash shortage, was approved by an HR
\* manager and given to an officer after its last resubmission, and by a first
\* approver unless an HR officer filed it: a resubmitted request cannot ride
\* on the approvals of its first round.
ApprovedInThisRound ==
    \A r \in Requests :
        req[r].executed /\ req[r].kind # "cash_shortage" =>
            /\ req[r].gmBy # NoUser
            /\ req[r].officer # NoUser
            /\ req[r].approvedIn = req[r].resubmits
            /\ req[r].branchBy # NoUser \/ req[r].by \in Officers

\* The status tells whether the request was executed: "approved" means done,
\* the accountant sees executed settlements of sponsored employees only, and
\* what is returned or still awaits a first approver or an officer was not
\* executed.
StatusMatchesExecution ==
    \A r \in Requests :
        /\ req[r].status = "approved" => req[r].executed
        /\ req[r].status = "pending_accountant" =>
              /\ req[r].executed
              /\ req[r].kind = "settlement"
              /\ req[r].emp \in Sponsored
        /\ req[r].status \in {"returned", "pending_branch", "pending_officer"} =>
              ~req[r].executed

\* A signed settlement carries the officer's last edits, through returns and
\* resubmissions too, and no settlement is executed without one.
SignedAfterLastEdit ==
    \A r \in Requests :
        /\ req[r].signed.present => req[r].signed.edits = req[r].edits
        /\ req[r].executed /\ req[r].kind = "settlement" => req[r].signed.present

\* A settlement is executed only for an employee who is not terminated at that
\* moment: the refusals when it was filed hold until it is executed.  Not that
\* nobody is settled twice for one service: a suspension or a form that read the
\* employee before the execution writes the old status over "terminated".
SettlesInService ==
    [][\A r \in Requests :
          /\ req[r].kind = "settlement"
          /\ ~req[r].executed
          /\ req'[r].executed
          => staff[req[r].emp] # "terminated"]_vars

\* Once a request is executed its evidence stays: who approved it, the signed
\* file and the edits it was executed with.
ExecutedFrozen ==
    [][\A r \in Requests :
          req[r].executed =>
             /\ req'[r].executed
             /\ req'[r].signed = req[r].signed
             /\ req'[r].edits = req[r].edits
             /\ req'[r].gmBy = req[r].gmBy
             /\ req'[r].officer = req[r].officer]_vars

=============================================================================
