------------------------- MODULE OperationsProofs -------------------------
(***************************************************************************)
(* What the operations requests and the daily report promise.              *)
(*                                                                         *)
(* Requests: proofs about PendingActions, for any sets of requests,        *)
(* employees, users and workers and any bounds.  Nearly every property     *)
(* proved of them speaks of one row at a time, so the invariant is a       *)
(* predicate RowOK of rows: an action replaces the row of one request by   *)
(* another that satisfies it.                                              *)
(*                                                                         *)
(* Report: proofs about OperationsReport, for any days, roles, processes   *)
(* and faults.  The mark of the last sending is never ahead of the         *)
(* sendings, and in calm weather no role gets a report twice.              *)
(***************************************************************************)
EXTENDS PendingActions, OperationsReport, TLAPS

-----------------------------------------------------------------------------
(* The requests.                                                           *)

\* The row is a record of the right type; TypeOK says this of every request.
RowTyped(row) ==
    /\ row \in Rows
    /\ row.status # "none" => row.kind \in Kinds /\ row.emp \in Employees
    /\ row.gmBy # NoUser <=> row.officer # NoUser

\* The first stage was passed: by an approver, or skipped by an HR officer.
FirstStagePassed(row) == row.branchBy # NoUser \/ row.by \in Officers

\* The HR manager's approval belongs to the last round.
ManagerApproved(row) ==
    /\ row.gmBy # NoUser
    /\ row.officer # NoUser
    /\ row.approvedIn = row.resubmits

\* What each status says of the decisions behind it: the invariant that makes
\* the executed rows right.
RowOK(row) ==
    /\ row.runs = IF row.executed THEN 1 ELSE 0
    /\ row.status = "none" => ~row.executed
    /\ row.status = "approved" => row.executed
    /\ row.status = "pending_accountant" =>
          row.executed /\ row.kind = "settlement" /\ row.emp \in Sponsored
    /\ row.status \in {"returned", "pending_branch", "pending_officer"} => ~row.executed
    /\ row.status = "pending_gm" => row.kind # "cash_shortage" /\ FirstStagePassed(row)
    /\ row.status = "pending_officer" \/ (row.executed /\ row.kind # "cash_shortage") =>
          FirstStagePassed(row) /\ ManagerApproved(row)
    /\ row.signed.present => row.signed.edits = row.edits
    /\ row.executed /\ row.kind = "settlement" => row.signed.present

\* The parts of TypeOK that are not about one row.
Rest ==
    /\ staff \in [Employees -> {"active", "suspended", "terminated"}]
    /\ figures \in [Employees -> Nat]
    /\ task \in [Workers ->
          [op : {"idle", "create", "delete", "suspend", "edit"}, by : Users \cup {NoUser},
           kind : Kinds \cup {"none"}, emp : Employees \cup {NoEmployee},
           req : Requests \cup {NoRequest},
           was : {"none", "active", "suspended", "terminated"}]]
    /\ \A w \in Workers :
          /\ task[w].op = "create" => /\ task[w].kind \in Kinds
                                      /\ task[w].emp \in Employees
                                      /\ task[w].by \in Users
          /\ task[w].op = "delete" => task[w].req \in Requests
          /\ task[w].op \in {"suspend", "edit"} =>
                task[w].emp \in Employees /\ task[w].was # "none"

\* The inductive invariant.
IInv ==
    /\ TypeOK
    /\ \A r \in Requests : RowOK(req[r])

-----------------------------------------------------------------------------
LEMMA TypeByRow ==
    TypeOK <=> /\ req \in [Requests -> Rows]
               /\ \A r \in Requests : RowTyped(req[r])
               /\ Rest
BY DEF TypeOK, RowTyped, Rest

\* Replacing one row by a good one keeps every row good.
LEMMA RowReplaced ==
    ASSUME IInv, Rest', NEW r \in Requests, NEW row,
           RowTyped(row), RowOK(row),
           req' = [req EXCEPT ![r] = row]
    PROVE  IInv'
<1>1. row \in Rows
  BY DEF RowTyped
<1>2. req \in [Requests -> Rows]
  BY DEF IInv, TypeOK
<1>3. req' \in [Requests -> Rows]
  BY <1>1, <1>2
<1>4. ASSUME NEW s \in Requests PROVE RowTyped(req'[s]) /\ RowOK(req'[s])
  <2>1. CASE s = r
    BY <2>1, <1>2
  <2>2. CASE s # r
    <3>1. req'[s] = req[s]
      BY <2>2, <1>2
    <3>2. RowTyped(req[s]) /\ RowOK(req[s])
      BY TypeByRow DEF IInv
    <3> QED BY <3>1, <3>2
  <2> QED BY <2>1, <2>2
<1>5. TypeOK'
  BY <1>3, <1>4 DEF TypeOK, Rest, RowTyped
<1> QED BY <1>4, <1>5 DEF IInv

\* An action that leaves the rows alone keeps them good.
LEMMA RowsKept ==
    ASSUME IInv, Rest', UNCHANGED req
    PROVE  IInv'
BY DEF IInv, TypeOK, Rest

LEMMA FileFacts ==
    /\ NoFile \in Files
    /\ ~NoFile.present
    /\ \A n, f \in Nat : /\ File(n, f) \in Files
                         /\ File(n, f).edits = n
                         /\ File(n, f).present
BY DEF NoFile, File, Files

LEMMA NoRowOK == RowTyped(NoRow) /\ RowOK(NoRow)
BY DEF RowTyped, RowOK, NoRow, Rows, Status, Pending, AllKinds, NoFile, Files

LEMMA InitInv == Init => IInv
<1> SUFFICES ASSUME Init PROVE IInv
  OBVIOUS
<1>1. \A r \in Requests : req[r] = NoRow
  BY DEF Init
<1>2. req \in [Requests -> Rows]
  BY NoRowOK DEF Init, RowTyped
<1>3. Rest
  BY DEF Init, Rest, Idle
<1>4. TypeOK
  BY <1>1, <1>2, <1>3, NoRowOK, TypeByRow
<1> QED BY <1>1, <1>4, NoRowOK DEF IInv

-----------------------------------------------------------------------------
(* The decisions.                                                          *)

\* Executing a request leaves the employee's status and figures typed.
LEMMA EffectsTyped ==
    ASSUME Rest, NEW r \in Requests, req[r].emp \in Employees, ExecuteEffects(r)
    PROVE  /\ staff' \in [Employees -> {"active", "suspended", "terminated"}]
           /\ figures' \in [Employees -> Nat]
BY DEF Rest, ExecuteEffects

\* Executing a live row that was not executed stamps it, and only that.
LEMMA ExecutedTyped ==
    ASSUME NEW row, RowTyped(row), row.status # "none", figures \in [Employees -> Nat]
    PROVE  RowTyped(Executed(row))
<1> DEFINE f == IF row.kind = "settlement"
                THEN File(row.edits, figures[row.emp]) ELSE NoFile
           n == row.runs + 1
<1>1. row \in Rows /\ row.edits \in Nat /\ row.runs \in Nat /\ row.emp \in Employees
  BY DEF RowTyped, Rows
<1>2. f \in Files
  BY <1>1, FileFacts
<1>3. n \in Nat
  BY <1>1
<1>4. Executed(row) = [row EXCEPT !.executed = TRUE, !.runs = n, !.settledOn = f]
  BY DEF Executed
<1> HIDE DEF f, n
<1> QED BY <1>1, <1>2, <1>3, <1>4 DEF RowTyped, Rows

LEMMA BranchApproveInv ==
    ASSUME IInv, NEW u \in Users, NEW r \in Requests, BranchApprove(u, r)
    PROVE  IInv'
<1> DEFINE row == [req[r] EXCEPT !.status = "pending_gm", !.branchBy = u]
<1>1. RowTyped(req[r]) /\ RowOK(req[r])
  BY TypeByRow DEF IInv
<1>2. RowTyped(row)
  BY <1>1, WorkflowAssumption DEF BranchApprove,
     RowTyped, RowOK, FirstStagePassed, ManagerApproved, Rows, Status, Pending, Live
<1>3. RowOK(row)
  BY <1>1, WorkflowAssumption DEF BranchApprove,
     RowTyped, RowOK, FirstStagePassed, ManagerApproved, Rows, Status, Pending, Live
<1>4. Rest'
  BY TypeByRow DEF IInv, BranchApprove, Rest
<1>5. req' = [req EXCEPT ![r] = row]
  BY DEF BranchApprove
<1> HIDE DEF row
<1> QED BY <1>2, <1>3, <1>4, <1>5, RowReplaced

LEMMA GMApproveInv ==
    ASSUME IInv, NEW u \in Users, NEW r \in Requests, NEW o \in Officers,
           GMApprove(u, r, o)
    PROVE  IInv'
<1> DEFINE row == [req[r] EXCEPT !.status = "pending_officer", !.gmBy = u,
                                !.officer = o, !.approvedIn = req[r].resubmits]
<1>1. RowTyped(req[r]) /\ RowOK(req[r])
  BY TypeByRow DEF IInv
<1>2. RowTyped(row)
  BY <1>1, WorkflowAssumption DEF GMApprove,
     RowTyped, RowOK, FirstStagePassed, ManagerApproved, Rows, Status, Pending, Live
<1>3. RowOK(row)
  BY <1>1, WorkflowAssumption DEF GMApprove,
     RowTyped, RowOK, FirstStagePassed, ManagerApproved, Rows, Status, Pending, Live
<1>4. Rest'
  BY TypeByRow DEF IInv, GMApprove, Rest
<1>5. req' = [req EXCEPT ![r] = row]
  BY DEF GMApprove
<1> HIDE DEF row
<1> QED BY <1>2, <1>3, <1>4, <1>5, RowReplaced

LEMMA AccountantApproveInv ==
    ASSUME IInv, NEW u \in Users, NEW r \in Requests, AccountantApprove(u, r)
    PROVE  IInv'
<1> DEFINE row == [req[r] EXCEPT !.status = "pending_gm"]
<1>1. RowTyped(req[r]) /\ RowOK(req[r])
  BY TypeByRow DEF IInv
<1>2. RowTyped(row)
  BY <1>1, WorkflowAssumption DEF AccountantApprove,
     RowTyped, RowOK, FirstStagePassed, ManagerApproved, Rows, Status, Pending, Live
<1>3. RowOK(row)
  BY <1>1, WorkflowAssumption DEF AccountantApprove,
     RowTyped, RowOK, FirstStagePassed, ManagerApproved, Rows, Status, Pending, Live
<1>4. Rest'
  BY TypeByRow DEF IInv, AccountantApprove, Rest
<1>5. req' = [req EXCEPT ![r] = row]
  BY DEF AccountantApprove
<1> HIDE DEF row
<1> QED BY <1>2, <1>3, <1>4, <1>5, RowReplaced

LEMMA GMFinalApproveInv ==
    ASSUME IInv, NEW u \in Users, NEW r \in Requests, GMFinalApprove(u, r)
    PROVE  IInv'
<1> DEFINE row == [req[r] EXCEPT !.status = "approved"]
<1>1. RowTyped(req[r]) /\ RowOK(req[r])
  BY TypeByRow DEF IInv
<1>2. RowTyped(row)
  BY <1>1, WorkflowAssumption DEF GMFinalApprove,
     RowTyped, RowOK, FirstStagePassed, ManagerApproved, Rows, Status, Pending, Live
<1>3. RowOK(row)
  BY <1>1, WorkflowAssumption DEF GMFinalApprove,
     RowTyped, RowOK, FirstStagePassed, ManagerApproved, Rows, Status, Pending, Live
<1>4. Rest'
  BY TypeByRow DEF IInv, GMFinalApprove, Rest
<1>5. req' = [req EXCEPT ![r] = row]
  BY DEF GMFinalApprove
<1> HIDE DEF row
<1> QED BY <1>2, <1>3, <1>4, <1>5, RowReplaced

LEMMA ReturnActionInv ==
    ASSUME IInv, NEW u \in Users, NEW r \in Requests, ReturnAction(u, r)
    PROVE  IInv'
<1> DEFINE row == [req[r] EXCEPT !.status = "returned"]
<1>1. RowTyped(req[r]) /\ RowOK(req[r])
  BY TypeByRow DEF IInv
<1>2. RowTyped(row)
  BY <1>1, WorkflowAssumption DEF ReturnAction,
     RowTyped, RowOK, FirstStagePassed, ManagerApproved, Rows, Status, Pending, Live, Returnable
<1>3. RowOK(row)
  BY <1>1, WorkflowAssumption DEF ReturnAction,
     RowTyped, RowOK, FirstStagePassed, ManagerApproved, Rows, Status, Pending, Live, Returnable
<1>4. Rest'
  BY TypeByRow DEF IInv, ReturnAction, Rest
<1>5. req' = [req EXCEPT ![r] = row]
  BY DEF ReturnAction
<1> HIDE DEF row
<1> QED BY <1>2, <1>3, <1>4, <1>5, RowReplaced

LEMMA ResubmitActionInv ==
    ASSUME IInv, NEW u \in Users, NEW r \in Requests, ResubmitAction(u, r)
    PROVE  IInv'
<1> DEFINE row == [Cleared(req[r]) EXCEPT !.status = FirstStatus(req[r].by, req[r].kind),
                                         !.resubmits = @ + 1]
           n == req[r].resubmits + 1
<1>1. RowTyped(req[r]) /\ RowOK(req[r])
  BY TypeByRow DEF IInv
<1>2. /\ n \in Nat
      /\ req[r].by \in Users \cup {NoUser}
      /\ FirstReviewer(req[r].by, req[r].kind) \in Users \cup {NoUser}
      /\ FirstStatus(req[r].by, req[r].kind) \in {"pending_gm", "pending_branch"}
  BY <1>1 DEF RowTyped, Rows, FirstReviewer, FirstStatus
<1>3. FirstStatus(req[r].by, req[r].kind) = "pending_gm" =>
         /\ req[r].kind # "cash_shortage"
         /\ FirstReviewer(req[r].by, req[r].kind) # NoUser \/ req[r].by \in Officers
  BY WorkflowAssumption DEF FirstReviewer, FirstStatus, SkipsFirst
<1>4. row = [req[r] EXCEPT !.branchBy = FirstReviewer(req[r].by, req[r].kind),
                           !.gmBy = NoUser, !.officer = NoUser,
                           !.status = FirstStatus(req[r].by, req[r].kind),
                           !.resubmits = n]
  BY <1>1 DEF Cleared, RowTyped, Rows
<1>5. ~req[r].executed
  BY <1>1 DEF ResubmitAction, RowOK
<1> HIDE DEF row, n
<1>6. RowTyped(row)
  BY <1>1, <1>2, <1>4 DEF ResubmitAction, RowTyped, Rows, Status, Pending
<1>7. RowOK(row)
  BY <1>1, <1>2, <1>3, <1>4, <1>5
  DEF ResubmitAction, RowTyped, RowOK, FirstStagePassed, ManagerApproved, Rows
<1>8. Rest'
  BY TypeByRow DEF IInv, ResubmitAction, Rest
<1>9. req' = [req EXCEPT ![r] = row]
  BY DEF ResubmitAction, row
<1> QED BY <1>6, <1>7, <1>8, <1>9, RowReplaced

LEMMA SettlementEditInv ==
    ASSUME IInv, NEW u \in Users, NEW r \in Requests, SettlementEdit(u, r)
    PROVE  IInv'
<1> DEFINE row == EditedRow(req[r])
           n == req[r].edits + 1
<1>1. RowTyped(req[r]) /\ RowOK(req[r])
  BY TypeByRow DEF IInv
<1>2. n \in Nat
  BY <1>1 DEF RowTyped, Rows
<1>3. row = [req[r] EXCEPT !.edits = n, !.signed = NoFile]
  BY DEF EditedRow
<1>4. ~req[r].executed /\ req[r].status = "pending_officer"
  BY DEF SettlementEdit, MayEditSettlement
<1> HIDE DEF row, n
<1>5. RowTyped(row)
  BY <1>1, <1>2, <1>3, FileFacts DEF RowTyped, Rows
<1>6. RowOK(row)
  BY <1>1, <1>2, <1>3, <1>4, FileFacts
     DEF RowTyped, RowOK, FirstStagePassed, ManagerApproved, Rows
<1>7. Rest'
  BY TypeByRow DEF IInv, SettlementEdit, Rest
<1>8. req' = [req EXCEPT ![r] = row]
  BY DEF SettlementEdit, row
<1> QED BY <1>5, <1>6, <1>7, <1>8, RowReplaced

LEMMA SignedUploadInv ==
    ASSUME IInv, NEW u \in Users, NEW r \in Requests, SignedUpload(u, r)
    PROVE  IInv'
<1> DEFINE f == File(req[r].edits, figures[req[r].emp])
           row == [req[r] EXCEPT !.signed = f]
<1>1. RowTyped(req[r]) /\ RowOK(req[r])
  BY TypeByRow DEF IInv
<1>2. /\ req[r].edits \in Nat
      /\ req[r].emp \in Employees
      /\ figures \in [Employees -> Nat]
  BY <1>1, TypeByRow DEF IInv, SignedUpload, MayEditSettlement, Live, RowTyped, Rows, Rest
<1>3. f \in Files /\ f.edits = req[r].edits /\ f.present
  BY <1>2, FileFacts
<1> HIDE DEF f
<1>4. RowTyped(row)
  BY <1>1, <1>3 DEF RowTyped, Rows
<1>5. RowOK(row)
  BY <1>1, <1>3 DEF RowTyped, RowOK, FirstStagePassed, ManagerApproved, Rows
<1>6. Rest'
  BY TypeByRow DEF IInv, SignedUpload, Rest
<1>7. req' = [req EXCEPT ![r] = row]
  BY DEF SignedUpload, f
<1> HIDE DEF row
<1> QED BY <1>4, <1>5, <1>6, <1>7, RowReplaced

\* The executed row is good when its status is one an executed row may have
\* and the approvals and the signed file are there.
LEMMA ExecutedGood ==
    ASSUME NEW row, RowTyped(row), figures \in [Employees -> Nat],
           row.status \in {"approved", "pending_accountant", "pending_gm"},
           row.runs = 0,
           row.status = "pending_accountant" => row.kind = "settlement" /\ row.emp \in Sponsored,
           row.status = "pending_gm" => row.kind # "cash_shortage",
           row.kind # "cash_shortage" => FirstStagePassed(row) /\ ManagerApproved(row),
           row.signed.present => row.signed.edits = row.edits,
           row.kind = "settlement" => row.signed.present
    PROVE  RowTyped(Executed(row)) /\ RowOK(Executed(row))
<1> DEFINE f == IF row.kind = "settlement"
                THEN File(row.edits, figures[row.emp]) ELSE NoFile
           n == row.runs + 1
<1>1. row \in Rows
  BY DEF RowTyped
<1>2. n = 1
  OBVIOUS
<1>3. Executed(row) = [row EXCEPT !.executed = TRUE, !.runs = n, !.settledOn = f]
  BY DEF Executed
<1> HIDE DEF f, n
<1>4. RowOK(Executed(row))
  BY <1>1, <1>2, <1>3 DEF RowOK, FirstStagePassed, ManagerApproved, Rows
<1>5. RowTyped(Executed(row))
  BY ExecutedTyped
<1> QED BY <1>4, <1>5

LEMMA CashApproveInv ==
    ASSUME IInv, NEW u \in Users, NEW r \in Requests, CashApprove(u, r)
    PROVE  IInv'
<1> DEFINE row == [req[r] EXCEPT !.status = "approved", !.branchBy = u]
<1>1. RowTyped(req[r]) /\ RowOK(req[r]) /\ Rest
  BY TypeByRow DEF IInv
<1>2. /\ req[r].status = "pending_branch"
      /\ req[r].kind = "cash_shortage"
      /\ ~req[r].executed
      /\ req[r].emp \in Employees
  BY <1>1 DEF CashApprove, RowTyped
<1>3. RowTyped(row)
  BY <1>1, <1>2, WorkflowAssumption DEF RowTyped, Rows, Status, Pending
<1>4. /\ row.status = "approved"
      /\ row.kind = "cash_shortage"
      /\ row.runs = 0
      /\ row.signed.present => row.signed.edits = row.edits
  BY <1>1, <1>2 DEF RowTyped, RowOK, Rows
<1>5. figures \in [Employees -> Nat]
  BY <1>1 DEF Rest
<1>6. req' = [req EXCEPT ![r] = Executed(row)]
  BY DEF CashApprove
<1> HIDE DEF row
<1>7. RowTyped(Executed(row)) /\ RowOK(Executed(row))
  BY <1>3, <1>4, <1>5, ExecutedGood
<1>8. Rest'
  BY <1>1, <1>2, EffectsTyped DEF CashApprove, Rest
<1> QED BY <1>6, <1>7, <1>8, RowReplaced

LEMMA OfficerApproveInv ==
    ASSUME IInv, NEW u \in Users, NEW r \in Requests, OfficerApprove(u, r)
    PROVE  IInv'
<1> DEFINE row == [req[r] EXCEPT !.status = AfterExecution(r)]
<1>1. RowTyped(req[r]) /\ RowOK(req[r]) /\ Rest
  BY TypeByRow DEF IInv
<1>2. /\ req[r].status = "pending_officer"
      /\ ~req[r].executed
      /\ req[r].emp \in Employees
      /\ req[r].kind = "settlement" => req[r].signed.present
  BY <1>1 DEF OfficerApprove, RowTyped
<1>3. /\ AfterExecution(r) \in {"approved", "pending_accountant", "pending_gm"}
      /\ AfterExecution(r) = "pending_accountant" =>
            req[r].kind = "settlement" /\ req[r].emp \in Sponsored
      /\ AfterExecution(r) = "pending_gm" => req[r].kind = "settlement"
  BY DEF AfterExecution
<1>4. RowTyped(row)
  BY <1>1, <1>2, <1>3 DEF RowTyped, Rows, Status, Pending
<1>5. FirstStagePassed(row) /\ ManagerApproved(row)
  BY <1>1, <1>2 DEF RowTyped, RowOK, FirstStagePassed, ManagerApproved, Rows
<1>6. /\ row.status = AfterExecution(r)
      /\ row.kind = req[r].kind
      /\ row.emp = req[r].emp
      /\ row.runs = 0
      /\ row.signed = req[r].signed
      /\ row.signed.present => row.signed.edits = row.edits
  BY <1>1, <1>2 DEF RowTyped, RowOK, Rows
<1>7. figures \in [Employees -> Nat]
  BY <1>1 DEF Rest
<1>8. req' = [req EXCEPT ![r] = Executed(row)]
  BY DEF OfficerApprove
<1> HIDE DEF row
<1>9. RowTyped(Executed(row)) /\ RowOK(Executed(row))
  BY <1>2, <1>3, <1>4, <1>5, <1>6, <1>7, ExecutedGood
<1>10. Rest'
  BY <1>1, <1>2, EffectsTyped DEF OfficerApprove, Rest
<1> QED BY <1>8, <1>9, <1>10, RowReplaced

-----------------------------------------------------------------------------
(* The handlers that lock nothing.                                         *)

LEMMA CreateCommitInv ==
    ASSUME IInv, NEW w \in Workers, NEW r \in Requests, CreateCommit(w, r)
    PROVE  IInv'
<1> DEFINE t == task[w]
           row == [NoRow EXCEPT !.status = FirstStatus(t.by, t.kind),
                                !.kind = t.kind, !.emp = t.emp, !.by = t.by,
                                !.branchBy = FirstReviewer(t.by, t.kind)]
<1>1. Rest
  BY TypeByRow DEF IInv
<1>2. t.kind \in Kinds /\ t.emp \in Employees /\ t.by \in Users
  BY <1>1 DEF CreateCommit, Rest
<1>3. /\ FirstStatus(t.by, t.kind) \in {"pending_gm", "pending_branch"}
      /\ FirstReviewer(t.by, t.kind) \in Users \cup {NoUser}
      /\ FirstStatus(t.by, t.kind) = "pending_gm" =>
            /\ t.kind # "cash_shortage"
            /\ FirstReviewer(t.by, t.kind) # NoUser \/ t.by \in Officers
  BY <1>2, WorkflowAssumption DEF FirstStatus, FirstReviewer, SkipsFirst
<1>4. NoRow \in Rows
  BY NoRowOK DEF RowTyped
<1>5. /\ NoRow.gmBy = NoUser
      /\ NoRow.officer = NoUser
      /\ NoRow.runs = 0
      /\ ~NoRow.executed
      /\ ~NoRow.signed.present
  BY FileFacts DEF NoRow
<1>6. req' = [req EXCEPT ![r] = row]
  BY DEF CreateCommit
<1>7. Kinds \subseteq AllKinds
  BY WorkflowAssumption
<1> HIDE DEF t
<1>8. RowTyped(row)
  BY <1>2, <1>3, <1>4, <1>5, <1>7 DEF RowTyped, Rows, Status, Pending
<1>9. RowOK(row)
  BY <1>2, <1>3, <1>4, <1>5 DEF RowOK, FirstStagePassed, ManagerApproved, Rows
<1>10. Rest'
  BY <1>1 DEF CreateCommit, Rest, Idle
<1> HIDE DEF row
<1> QED BY <1>6, <1>8, <1>9, <1>10, RowReplaced

LEMMA DeleteCommitInv ==
    ASSUME IInv, NEW w \in Workers, DeleteCommit(w)
    PROVE  IInv'
<1> DEFINE r == task[w].req
           row == [req[r] EXCEPT !.deleted = TRUE]
<1>1. Rest
  BY TypeByRow DEF IInv
<1>2. r \in Requests
  BY <1>1 DEF DeleteCommit, Rest
<1>3. RowTyped(req[r]) /\ RowOK(req[r])
  BY <1>2, TypeByRow DEF IInv
<1>4. RowTyped(row)
  BY <1>3 DEF RowTyped, Rows
<1>5. RowOK(row)
  BY <1>3 DEF RowTyped, RowOK, FirstStagePassed, ManagerApproved, Rows
<1>6. Rest'
  BY <1>1 DEF DeleteCommit, Rest, Idle
<1>7. req' = [req EXCEPT ![r] = row]
  BY DEF DeleteCommit
<1> HIDE DEF r, row
<1> QED BY <1>2, <1>4, <1>5, <1>6, <1>7, RowReplaced

\* The other handlers leave the rows alone.
LEMMA HandleInv ==
    ASSUME IInv, NEW w \in Workers, Handle(w)
    PROVE  IInv'
<1>1. Rest
  BY TypeByRow DEF IInv
<1>2. ASSUME NEW u \in Users, NEW k \in Kinds, NEW e \in Employees, CreateBegin(w, u, k, e)
      PROVE  IInv'
  <2>1. Rest'
    BY <1>1, <1>2 DEF CreateBegin, Rest, Idle
  <2> QED BY <1>2, <2>1, RowsKept DEF CreateBegin
<1>3. ASSUME NEW u \in Users, NEW r \in Requests, DeleteBegin(w, u, r)
      PROVE  IInv'
  <2>1. Rest'
    BY <1>1, <1>3 DEF DeleteBegin, Rest, Idle
  <2> QED BY <1>3, <2>1, RowsKept DEF DeleteBegin
<1>4. ASSUME NEW e \in Employees, SuspendBegin(w, e)
      PROVE  IInv'
  <2>1. Rest'
    BY <1>1, <1>4 DEF SuspendBegin, Rest, Idle
  <2> QED BY <1>4, <2>1, RowsKept DEF SuspendBegin
<1>5. CASE SuspendCommit(w)
  <2>1. Rest'
    BY <1>1, <1>5 DEF SuspendCommit, Rest, Idle
  <2> QED BY <1>5, <2>1, RowsKept DEF SuspendCommit
<1>6. CASE Abort(w)
  <2>1. Rest'
    BY <1>1, <1>6 DEF Abort, Rest, Idle
  <2> QED BY <1>6, <2>1, RowsKept DEF Abort
<1>7. ASSUME NEW e \in Employees, EditBegin(w, e)
      PROVE  IInv'
  <2>1. Rest'
    BY <1>1, <1>7 DEF EditBegin, Rest, Idle
  <2> QED BY <1>7, <2>1, RowsKept DEF EditBegin
<1>8. CASE EditCommit(w)
  <2>1. Rest'
    BY <1>1, <1>8 DEF EditCommit, Rest, Idle
  <2> QED BY <1>8, <2>1, RowsKept DEF EditCommit
<1> QED BY <1>2, <1>3, <1>4, <1>5, <1>6, <1>7, <1>8, CreateCommitInv, DeleteCommitInv DEF Handle

LEMMA StepInv == IInv /\ [Next]_vars => IInv'
<1> SUFFICES ASSUME IInv, [Next]_vars PROVE IInv'
  OBVIOUS
<1>1. ASSUME NEW r \in Requests, Decide(r) PROVE IInv'
  BY <1>1, BranchApproveInv, CashApproveInv, GMApproveInv, OfficerApproveInv,
     AccountantApproveInv, GMFinalApproveInv, ReturnActionInv, ResubmitActionInv,
     SettlementEditInv, SignedUploadInv DEF Decide
<1>2. ASSUME NEW w \in Workers, Handle(w) PROVE IInv'
  BY <1>2, HandleInv
<1>3. CASE UNCHANGED vars
  <2>1. Rest'
    BY <1>3, TypeByRow DEF IInv, vars, Rest
  <2> QED BY <1>3, <2>1, RowsKept DEF vars
<1> QED BY <1>1, <1>2, <1>3 DEF Next

-----------------------------------------------------------------------------
\* The inductive invariant holds in every reachable state.
THEOREM Invariance == Spec => []IInv
BY InitInv, StepInv, PTL DEF Spec

\* Every variable keeps its type.
THEOREM TypeCorrect == Spec => []TypeOK
<1>1. IInv => TypeOK
  BY DEF IInv
<1> QED BY <1>1, Invariance, PTL

\* No request is executed twice (execute_pending_action refuses a second
\* execution, and no path brings an executed request back to an executor).
THEOREM ExecutesOnce == Spec => []ExecutedOnce
<1>1. IInv => ExecutedOnce
  BY DEF IInv, RowOK, ExecutedOnce
<1> QED BY <1>1, Invariance, PTL

\* What the status says about the execution is true.
THEOREM StatusTruthful == Spec => []StatusMatchesExecution
<1>1. IInv => StatusMatchesExecution
  BY DEF IInv, RowOK, StatusMatchesExecution
<1> QED BY <1>1, Invariance, PTL

\* An executed request carries the approvals of its last round.
THEOREM ExecutionApproved == Spec => []ApprovedInThisRound
<1>1. IInv => ApprovedInThisRound
  BY DEF IInv, RowOK, FirstStagePassed, ManagerApproved, ApprovedInThisRound
<1> QED BY <1>1, Invariance, PTL

\* A signed file carries the last edits, and no settlement is executed
\* without one.
THEOREM SignedBeforeExecution == Spec => []SignedAfterLastEdit
<1>1. IInv => SignedAfterLastEdit
  BY DEF IInv, RowOK, SignedAfterLastEdit
<1> QED BY <1>1, Invariance, PTL

-----------------------------------------------------------------------------
(* An executed row is not rewritten.                                       *)

\* The evidence of an execution is the same in both rows.
SameEvidence(old, new) ==
    /\ new.executed
    /\ new.signed = old.signed
    /\ new.edits = old.edits
    /\ new.gmBy = old.gmBy
    /\ new.officer = old.officer

LEMMA EvidenceKept ==
    ASSUME IInv, Next, NEW s \in Requests, req[s].executed
    PROVE  SameEvidence(req[s], req'[s])
<1>1. RowTyped(req[s]) /\ RowOK(req[s]) /\ req \in [Requests -> Rows]
  BY TypeByRow DEF IInv
<1>2. req[s].status \in {"approved", "pending_accountant", "pending_gm"}
  BY <1>1 DEF RowTyped, RowOK, Rows, Status, Pending
<1>3. CASE req'[s] = req[s]
  BY <1>3 DEF SameEvidence
<1>4. ASSUME NEW u \in Users, AccountantApprove(u, s) \/ GMFinalApprove(u, s)
      PROVE  SameEvidence(req[s], req'[s])
  <2>1. PICK st \in {"pending_gm", "approved"} : req'[s] = [req[s] EXCEPT !.status = st]
    BY <1>1, <1>4 DEF AccountantApprove, GMFinalApprove
  <2> QED BY <1>1, <2>1 DEF SameEvidence, Rows
<1>5. ASSUME NEW w \in Workers, DeleteCommit(w), task[w].req = s
      PROVE  SameEvidence(req[s], req'[s])
  <2>1. req'[s] = [req[s] EXCEPT !.deleted = TRUE]
    BY <1>1, <1>5 DEF DeleteCommit
  <2> QED BY <1>1, <2>1 DEF SameEvidence, Rows
<1>6. ASSUME NEW r \in Requests, Decide(r), r # s
      PROVE  req'[s] = req[s]
  BY <1>1, <1>6 DEF Decide, BranchApprove, CashApprove, GMApprove, OfficerApprove,
     AccountantApprove, GMFinalApprove, ReturnAction, ResubmitAction, SettlementEdit,
     SignedUpload
<1>7. ASSUME Decide(s)
      PROVE  \E u \in Users : AccountantApprove(u, s) \/ GMFinalApprove(u, s)
  BY <1>2, <1>7 DEF Decide, BranchApprove, CashApprove, GMApprove, OfficerApprove,
     ReturnAction, Returnable, ResubmitAction, SettlementEdit, SignedUpload,
     MayEditSettlement
<1>8. ASSUME NEW w \in Workers, Handle(w), ~(DeleteCommit(w) /\ task[w].req = s)
      PROVE  req'[s] = req[s]
  <2>1. ASSUME NEW r \in Requests, CreateCommit(w, r)
        PROVE  req'[s] = req[s]
    <3>1. r # s
      BY <1>1, <2>1 DEF CreateCommit, NoRow
    <3> QED BY <1>1, <2>1, <3>1 DEF CreateCommit
  <2>2. CASE DeleteCommit(w)
    BY <1>1, <1>8, <2>2 DEF DeleteCommit
  <2> QED BY <1>8, <2>1, <2>2 DEF Handle, CreateBegin, DeleteBegin, SuspendBegin,
             SuspendCommit, EditBegin, EditCommit, Abort
<1> QED BY <1>3, <1>4, <1>5, <1>6, <1>7, <1>8 DEF Next

\* Once a request is executed, its approvals and its signed file stay.
THEOREM EvidenceFrozen == Spec => ExecutedFrozen
<1>1. IInv /\ [Next]_vars =>
        [\A r \in Requests :
            req[r].executed =>
               /\ req'[r].executed
               /\ req'[r].signed = req[r].signed
               /\ req'[r].edits = req[r].edits
               /\ req'[r].gmBy = req[r].gmBy
               /\ req'[r].officer = req[r].officer]_vars
  BY EvidenceKept DEF SameEvidence
<1> QED BY <1>1, Invariance, PTL DEF Spec, ExecutedFrozen

-----------------------------------------------------------------------------
(* Settlements, when no two are being filed for one employee.              *)

\* The form of a settlement of e is in the hands of w.
Filing(w, e) ==
    /\ task[w].op = "create"
    /\ task[w].kind = "settlement"
    /\ task[w].emp = e

\* No two handlers file a settlement of one employee at the same time.
FiledApart ==
    \A v, w \in Workers, e \in Employees : Filing(v, e) /\ Filing(w, e) => v = w

\* Nobody is reactivated while a form is open that read them terminated.
EditedApart ==
    \A w \in Workers :
        task[w].op = "edit" /\ task[w].was = "terminated" => staff[task[w].emp] = "terminated"

\* Other filings and edits, deletions, suspensions and all decisions interleave
\* as they like.
ApartNext == Next /\ FiledApart' /\ EditedApart'

\* What the refusals of create_pending_action are for: an employee has one
\* open settlement at most and is in service while it is open, or being filed.
SettledOnce(e) ==
    /\ \A r, s \in OpenSettlements(e) : r = s
    /\ OpenSettlements(e) # {} => staff[e] # "terminated"
    /\ \A w \in Workers :
          Filing(w, e) => staff[e] # "terminated" /\ OpenSettlements(e) = {}

InService == \A e \in Employees : SettledOnce(e)

\* A step that opens no settlement, dismisses nobody and starts no filing.
LEMMA InServiceKept ==
    ASSUME InService,
           \A e \in Employees :
              /\ OpenSettlements(e)' \subseteq OpenSettlements(e)
              /\ staff[e]' = "terminated" => staff[e] = "terminated"
              /\ \A w \in Workers : Filing(w, e)' => Filing(w, e)
    PROVE  InService'
BY DEF InService, SettledOnce

\* Decisions keep the kind and the employee of a request, and open nothing.
LEMMA DecisionOpensNothing ==
    ASSUME IInv, NEW r \in Requests, Decide(r), NEW e \in Employees
    PROVE  OpenSettlements(e)' \subseteq OpenSettlements(e)
<1>1. req \in [Requests -> Rows] /\ req[r] \in Rows
  BY DEF IInv, TypeOK
<1>2. /\ Live(r)
      /\ \A s \in Requests : s # r => req'[s] = req[s]
      /\ req'[r].kind = req[r].kind
      /\ req'[r].emp = req[r].emp
      /\ req[r].executed => req'[r].executed
  <2>1. ASSUME NEW u \in Users, CashApprove(u, r) \/ OfficerApprove(u, r)
        PROVE  /\ Live(r)
               /\ \A s \in Requests : s # r => req'[s] = req[s]
               /\ req'[r].kind = req[r].kind
               /\ req'[r].emp = req[r].emp
               /\ req'[r].executed
    <3>1. PICK row : /\ row \in Rows /\ row.kind = req[r].kind /\ row.emp = req[r].emp
                     /\ req' = [req EXCEPT ![r] = Executed(row)]
      <4>1. CASE CashApprove(u, r)
        <5> DEFINE paid == [req[r] EXCEPT !.status = "approved", !.branchBy = u]
        <5>1. paid \in Rows /\ paid.kind = req[r].kind /\ paid.emp = req[r].emp
          BY <1>1, WorkflowAssumption DEF Rows, Status, Pending
        <5>2. req' = [req EXCEPT ![r] = Executed(paid)]
          BY <4>1 DEF CashApprove
        <5> HIDE DEF paid
        <5> QED BY <5>1, <5>2
      <4>2. CASE OfficerApprove(u, r)
        <5> DEFINE done == [req[r] EXCEPT !.status = AfterExecution(r)]
        <5>1. done \in Rows /\ done.kind = req[r].kind /\ done.emp = req[r].emp
          BY <1>1 DEF Rows, Status, Pending, AfterExecution
        <5>2. req' = [req EXCEPT ![r] = Executed(done)]
          BY <4>2 DEF OfficerApprove
        <5> HIDE DEF done
        <5> QED BY <5>1, <5>2
      <4> QED BY <2>1, <4>1, <4>2
    <3>2. /\ Executed(row).kind = row.kind
          /\ Executed(row).emp = row.emp
          /\ Executed(row).executed
      BY <3>1 DEF Executed, Rows
    <3>3. Live(r)
      BY <2>1 DEF CashApprove, OfficerApprove
    <3> QED BY <1>1, <3>1, <3>2, <3>3
  <2>2. ASSUME NEW u \in Users, ResubmitAction(u, r)
        PROVE  /\ Live(r)
               /\ \A s \in Requests : s # r => req'[s] = req[s]
               /\ req'[r].kind = req[r].kind
               /\ req'[r].emp = req[r].emp
               /\ req'[r].executed = req[r].executed
    <3> DEFINE n == req[r].resubmits + 1
               st == FirstStatus(req[r].by, req[r].kind)
    <3>1. req' = [req EXCEPT ![r] = [Cleared(req[r]) EXCEPT !.status = st, !.resubmits = n]]
      <4>1. Cleared(req[r]).resubmits = req[r].resubmits
        BY <1>1 DEF Cleared, Rows
      <4> QED BY <2>2, <4>1 DEF ResubmitAction
    <3> HIDE DEF n, st
    <3>2. Live(r)
      BY <2>2 DEF ResubmitAction
    <3> QED BY <1>1, <3>1, <3>2 DEF Cleared, Rows
  <2>3. ASSUME NEW u \in Users,
               \/ BranchApprove(u, r) \/ (\E o \in Officers : GMApprove(u, r, o))
               \/ AccountantApprove(u, r) \/ GMFinalApprove(u, r) \/ ReturnAction(u, r)
               \/ SignedUpload(u, r)
        PROVE  /\ Live(r)
               /\ \A s \in Requests : s # r => req'[s] = req[s]
               /\ req'[r].kind = req[r].kind
               /\ req'[r].emp = req[r].emp
               /\ req'[r].executed = req[r].executed
    <3>1. Live(r)
      BY <2>3 DEF BranchApprove, GMApprove, AccountantApprove, GMFinalApprove,
         ReturnAction, SignedUpload, MayEditSettlement
    <3>2. CASE BranchApprove(u, r)
      BY <1>1, <3>1, <3>2 DEF BranchApprove, Rows
    <3>3. ASSUME NEW o \in Officers, GMApprove(u, r, o)
          PROVE  /\ \A s \in Requests : s # r => req'[s] = req[s]
                 /\ req'[r].kind = req[r].kind
                 /\ req'[r].emp = req[r].emp
                 /\ req'[r].executed = req[r].executed
      BY <1>1, <3>3 DEF GMApprove, Rows
    <3>4. CASE AccountantApprove(u, r) \/ GMFinalApprove(u, r) \/ ReturnAction(u, r)
      BY <1>1, <3>1, <3>4 DEF AccountantApprove, GMFinalApprove, ReturnAction, Rows
    <3>5. CASE SignedUpload(u, r)
      BY <1>1, <3>1, <3>5 DEF SignedUpload, Rows
    <3> QED BY <2>3, <3>1, <3>2, <3>3, <3>4, <3>5
  <2>4. ASSUME NEW u \in Users, SettlementEdit(u, r)
        PROVE  /\ Live(r)
               /\ \A s \in Requests : s # r => req'[s] = req[s]
               /\ req'[r].kind = req[r].kind
               /\ req'[r].emp = req[r].emp
               /\ req'[r].executed = req[r].executed
    <3> DEFINE n == req[r].edits + 1
    <3>1. req' = [req EXCEPT ![r] = [req[r] EXCEPT !.edits = n, !.signed = NoFile]]
      BY <2>4 DEF SettlementEdit, EditedRow
    <3> HIDE DEF n
    <3>2. Live(r)
      BY <2>4 DEF SettlementEdit, MayEditSettlement
    <3> QED BY <1>1, <3>1, <3>2 DEF Rows
  <2> QED BY <2>1, <2>2, <2>3, <2>4 DEF Decide
<1> QED BY <1>2 DEF OpenSettlements, Live

\* The decision that dismisses an employee is the execution of a settlement
\* that was open.
LEMMA DismissalCloses ==
    ASSUME IInv, NEW r \in Requests, Decide(r), NEW e \in Employees,
           staff[e] # "terminated", staff'[e] = "terminated"
    PROVE  /\ r \in OpenSettlements(e)
           /\ r \notin OpenSettlements(e)'
<1>1. req \in [Requests -> Rows] /\ staff \in [Employees -> {"active", "suspended", "terminated"}]
  BY DEF IInv, TypeOK
<1>2. PICK u \in Users : CashApprove(u, r) \/ OfficerApprove(u, r)
  BY <1>1 DEF Decide, BranchApprove, GMApprove, AccountantApprove, GMFinalApprove,
     ReturnAction, ResubmitAction, SettlementEdit, SignedUpload
<1>3. req[r].kind = "settlement" /\ req[r].emp = e /\ Live(r) /\ ~req[r].executed
  BY <1>1, <1>2 DEF CashApprove, OfficerApprove, ExecuteEffects
<1>4. req'[r].executed
  BY <1>1, <1>2 DEF CashApprove, OfficerApprove, Executed, Rows
<1> QED BY <1>3, <1>4 DEF OpenSettlements

LEMMA DecideInService ==
    ASSUME IInv, InService, NEW r \in Requests, Decide(r)
    PROVE  InService'
<1>1. UNCHANGED task
  BY DEF Decide, BranchApprove, CashApprove, GMApprove, OfficerApprove, AccountantApprove,
     GMFinalApprove, ReturnAction, ResubmitAction, SettlementEdit, SignedUpload
<1> SUFFICES ASSUME NEW e \in Employees
             PROVE  SettledOnce(e)'
  BY DEF InService, SettledOnce
<1>2. OpenSettlements(e)' \subseteq OpenSettlements(e)
  BY DecisionOpensNothing
<1>3. \A w \in Workers : Filing(w, e)' => Filing(w, e)
  BY <1>1 DEF Filing
<1>4. CASE staff[e] # "terminated" /\ staff'[e] = "terminated"
  <2>1. r \in OpenSettlements(e) /\ r \notin OpenSettlements(e)'
    BY <1>4, DismissalCloses
  <2>2. OpenSettlements(e)' = {}
    BY <1>2, <2>1 DEF InService, SettledOnce
  <2>3. \A w \in Workers : ~Filing(w, e)
    BY <2>1 DEF InService, SettledOnce
  <2> QED BY <1>3, <2>2, <2>3 DEF SettledOnce
<1> QED BY <1>2, <1>3, <1>4 DEF InService, SettledOnce

LEMMA HandleInService ==
    ASSUME IInv, FiledApart, EditedApart, InService, NEW w \in Workers, Handle(w)
    PROVE  InService'
<1>1. /\ req \in [Requests -> Rows]
      /\ staff \in [Employees -> {"active", "suspended", "terminated"}]
      /\ Rest
  BY TypeByRow DEF IInv, TypeOK
<1>2. \A v \in Workers : v # w => task'[v] = task[v]
  BY <1>1 DEF Handle, CreateBegin, CreateCommit, DeleteBegin, DeleteCommit, SuspendBegin,
     SuspendCommit, EditBegin, EditCommit, Abort, Rest
<1>3. ASSUME NEW u \in Users, NEW k \in Kinds, NEW e \in Employees, CreateBegin(w, u, k, e)
      PROVE  InService'
  <2>1. UNCHANGED <<req, staff>>
    BY <1>3 DEF CreateBegin
  <2>2. \A f \in Employees : OpenSettlements(f)' = OpenSettlements(f)
    BY <2>1 DEF OpenSettlements, Live
  <2>3. task'[w].kind = k /\ task'[w].emp = e
    BY <1>1, <1>3 DEF CreateBegin, Idle, Rest
  <2>4. ASSUME NEW v \in Workers, NEW f \in Employees, Filing(v, f)'
        PROVE  staff[f] # "terminated" /\ OpenSettlements(f) = {}
    <3>1. CASE v = w
      BY <1>3, <2>3, <2>4, <3>1 DEF CreateBegin, MayFile, Filing
    <3>2. CASE v # w
      BY <1>2, <2>4, <3>2 DEF Filing, InService, SettledOnce
    <3> QED BY <3>1, <3>2
  <2> QED BY <2>1, <2>2, <2>4 DEF InService, SettledOnce
<1>4. ASSUME NEW r \in Requests, CreateCommit(w, r)
      PROVE  InService'
  <2> DEFINE t == task[w]
  <2>1. UNCHANGED staff
    BY <1>4 DEF CreateCommit
  <2>2. /\ \A s \in Requests : s # r => req'[s] = req[s]
        /\ req'[r].kind = t.kind
        /\ req'[r].emp = t.emp
    BY <1>1, <1>4 DEF CreateCommit, NoRow
  <2>3. t.op = "create" /\ t.emp \in Employees
    BY <1>1, <1>4 DEF CreateCommit, Rest
  <2>4. ASSUME NEW e \in Employees
        PROVE  /\ OpenSettlements(e)' \subseteq OpenSettlements(e) \cup {r}
               /\ r \in OpenSettlements(e)' => Filing(w, e)
    BY <2>2, <2>3 DEF OpenSettlements, Live, Filing
  <2>5. \A e \in Employees : /\ ~Filing(w, e)'
                              /\ \A v \in Workers : Filing(v, e)' => Filing(v, e)
    BY <1>1, <1>2, <1>4 DEF CreateCommit, Filing, Idle, Rest
  <2>6. ASSUME NEW e \in Employees
        PROVE  SettledOnce(e)'
    <3>1. CASE Filing(w, e)
      <4>1. OpenSettlements(e) = {} /\ staff[e] # "terminated"
        BY <3>1 DEF InService, SettledOnce
      <4>2. \A v \in Workers : ~Filing(v, e)'
        BY <2>5, <3>1 DEF FiledApart
      <4> QED BY <2>1, <2>4, <4>1, <4>2 DEF SettledOnce
    <3>2. CASE ~Filing(w, e)
      <4>1. OpenSettlements(e)' \subseteq OpenSettlements(e)
        BY <2>4, <3>2
      <4> QED BY <2>1, <2>5, <4>1 DEF InService, SettledOnce
    <3> QED BY <3>1, <3>2
  <2> QED BY <2>6 DEF InService, SettledOnce
<1>5. CASE DeleteCommit(w)
  <2> DEFINE r == task[w].req
  <2>1. UNCHANGED staff
    BY <1>5 DEF DeleteCommit
  <2>2. r \in Requests
    BY <1>1, <1>5 DEF DeleteCommit, Rest
  <2>3. /\ \A s \in Requests : s # r => req'[s] = req[s]
        /\ req'[r].deleted
    BY <1>1, <1>5, <2>2 DEF DeleteCommit, Rows
  <2>4. \A e \in Employees : OpenSettlements(e)' \subseteq OpenSettlements(e)
    BY <2>3 DEF OpenSettlements, Live
  <2>5. \A v \in Workers, e \in Employees : Filing(v, e)' => Filing(v, e)
    BY <1>1, <1>2, <1>5 DEF DeleteCommit, Filing, Idle, Rest
  <2> QED BY <2>1, <2>4, <2>5, InServiceKept
<1>6. ASSUME \/ SuspendCommit(w) \/ EditCommit(w) \/ Abort(w)
             \/ \E e \in Employees : SuspendBegin(w, e) \/ EditBegin(w, e)
             \/ \E u \in Users, r \in Requests : DeleteBegin(w, u, r)
      PROVE  InService'
  <2>1. UNCHANGED req
    BY <1>6 DEF SuspendBegin, SuspendCommit, EditBegin, EditCommit, Abort, DeleteBegin
  <2>2. \A f \in Employees : OpenSettlements(f)' = OpenSettlements(f)
    BY <2>1 DEF OpenSettlements, Live
  <2>3. \A f \in Employees : staff'[f] = "terminated" => staff[f] = "terminated"
    <3>1. CASE EditCommit(w)
      BY <1>1, <3>1 DEF EditCommit, EditedApart, Rest
    <3>2. CASE SuspendCommit(w)
      BY <1>1, <3>2 DEF SuspendCommit, Rest
    <3>3. CASE UNCHANGED staff
      BY <3>3
    <3> QED BY <1>6, <3>1, <3>2, <3>3 DEF SuspendBegin, EditBegin, Abort, DeleteBegin
  <2>4. \A v \in Workers, f \in Employees : Filing(v, f)' => Filing(v, f)
    <3>1. task'[w].op # "create"
      <4>1. CASE SuspendCommit(w) \/ EditCommit(w) \/ Abort(w)
        BY <1>1, <4>1 DEF SuspendCommit, EditCommit, Abort, Idle, Rest
      <4>2. ASSUME NEW e \in Employees, SuspendBegin(w, e) \/ EditBegin(w, e)
            PROVE  task'[w].op # "create"
        BY <1>1, <4>2 DEF SuspendBegin, EditBegin, Idle, Rest
      <4>3. ASSUME NEW u \in Users, NEW r \in Requests, DeleteBegin(w, u, r)
            PROVE  task'[w].op # "create"
        BY <1>1, <4>3 DEF DeleteBegin, Idle, Rest
      <4> QED BY <1>6, <4>1, <4>2, <4>3
    <3> QED BY <1>2, <3>1 DEF Filing
  <2> QED BY <2>2, <2>3, <2>4, InServiceKept
<1>7. CASE Employees = {}
  BY <1>7 DEF InService, SettledOnce
<1> QED BY <1>3, <1>4, <1>5, <1>6, <1>7 DEF Handle

\* What the steps preserve when settlements are filed apart.
ApartInv == IInv /\ FiledApart /\ EditedApart /\ InService

LEMMA ApartInit == Init => ApartInv
<1> SUFFICES ASSUME Init PROVE ApartInv
  OBVIOUS
<1>1. \A w \in Workers, e \in Employees : ~Filing(w, e)
  BY DEF Init, Filing, Idle
<1>2. \A e \in Employees : OpenSettlements(e) = {}
  BY DEF Init, OpenSettlements, Live, NoRow
<1>3. EditedApart
  BY DEF Init, EditedApart, Idle
<1> QED BY <1>1, <1>2, <1>3, InitInv DEF ApartInv, FiledApart, InService, SettledOnce

LEMMA ApartStep == ApartInv /\ [ApartNext]_vars => ApartInv'
<1> SUFFICES ASSUME ApartInv, [ApartNext]_vars PROVE ApartInv'
  OBVIOUS
<1>1. IInv'
  BY StepInv DEF ApartInv, ApartNext
<1>2. CASE ApartNext
  <2>1. InService'
    BY <1>2, DecideInService, HandleInService DEF ApartInv, ApartNext, Next
  <2> QED BY <1>1, <1>2, <2>1 DEF ApartInv, ApartNext
<1>3. CASE UNCHANGED vars
  <2>1. \A e \in Employees : OpenSettlements(e)' = OpenSettlements(e)
    BY <1>3 DEF vars, OpenSettlements, Live
  <2>2. \A w \in Workers, e \in Employees : Filing(w, e)' = Filing(w, e)
    BY <1>3 DEF vars, Filing
  <2>3. EditedApart'
    BY <1>3 DEF ApartInv, EditedApart, vars
  <2> QED BY <1>1, <1>3, <2>1, <2>2, <2>3 DEF ApartInv, FiledApart, InService, SettledOnce, vars
<1> QED BY <1>2, <1>3

\* A settlement executed now was open, so its employee is in service.
LEMMA SettledWasOpen ==
    ASSUME IInv, InService, Next, NEW r \in Requests, req[r].kind = "settlement",
           ~req[r].executed, req'[r].executed
    PROVE  staff[req[r].emp] # "terminated"
<1>1. req \in [Requests -> Rows] /\ TypeOK
  BY DEF IInv, TypeOK
<1>2. Live(r)
  <2>1. ASSUME NEW s \in Requests, Decide(s) PROVE Live(r)
    <3>1. CASE s = r
      BY <2>1, <3>1 DEF Decide, BranchApprove, CashApprove, GMApprove, OfficerApprove,
         AccountantApprove, GMFinalApprove, ReturnAction, ResubmitAction, SettlementEdit,
         SignedUpload, MayEditSettlement
    <3>2. CASE s # r
      <4>1. req'[r] = req[r]
        BY <1>1, <2>1, <3>2 DEF Decide, BranchApprove, CashApprove, GMApprove,
           OfficerApprove, AccountantApprove, GMFinalApprove, ReturnAction, ResubmitAction,
           SettlementEdit, SignedUpload
      <4> QED BY <4>1
    <3> QED BY <3>1, <3>2
  <2>2. ASSUME NEW w \in Workers, Handle(w) PROVE Live(r)
    <3>1. ASSUME NEW s \in Requests, CreateCommit(w, s) PROVE FALSE
      <4>1. ~req'[s].executed /\ (s # r => req'[r] = req[r])
        BY <1>1, <3>1 DEF CreateCommit, NoRow
      <4> QED BY <4>1
    <3>2. CASE DeleteCommit(w)
      <4>1. req'[r].executed = req[r].executed
        BY <1>1, <3>2 DEF DeleteCommit, Rows
      <4> QED BY <4>1
    <3> QED BY <2>2, <3>1, <3>2 DEF Handle, CreateBegin, DeleteBegin, SuspendBegin,
               SuspendCommit, EditBegin, EditCommit, Abort
  <2> QED BY <2>1, <2>2 DEF Next
<1>3. req[r].emp \in Employees
  BY <1>1, <1>2 DEF Live, TypeOK
<1> QED BY <1>2, <1>3 DEF InService, SettledOnce, OpenSettlements

\* A settlement is executed only for an employee who is not terminated, through
\* all returns, deletions, reactivations, suspensions and edits, as long as the
\* checks of two filings for one employee do not overlap, and nobody is
\* reactivated under a form that read them terminated.
THEOREM SettlesOnce == Init /\ [][ApartNext]_vars => SettlesInService
<1>1. ApartInv /\ [ApartNext]_vars =>
        [\A r \in Requests :
            /\ req[r].kind = "settlement"
            /\ ~req[r].executed
            /\ req'[r].executed
            => staff[req[r].emp] # "terminated"]_vars
  BY SettledWasOpen DEF ApartInv, ApartNext
<1> QED BY <1>1, ApartInit, ApartStep, PTL DEF SettlesInService

-----------------------------------------------------------------------------
(* The daily report: the mark of the last sending is never ahead of the    *)
(* sendings, and in calm weather no role gets a report twice.              *)

Busy(j) == job[j].at # "idle"

IdleIsEmpty == \A j \in Jobs : ~Busy(j) => job[j].todo = {} /\ ~job[j].sent

\* A process that has sent anything, and a mark a form has read, tell of a
\* sending on their day.
Backed ==
    /\ MarkedIsSent
    /\ \A j \in Jobs : job[j].sent => Got(job[j].start.day)
    /\ form.last # Never => Got(form.last.day)

Calm == smooth /\ saves = 0

\* One process at a time, in its own minute.
Alone ==
    Calm =>
        /\ ~form.open
        /\ \A j \in Jobs : Busy(j) => /\ started
                                      /\ job[j].start = now
                                      /\ now.minute >= settings.time
        /\ \A i, j \in Jobs : Busy(i) /\ Busy(j) => i = j

\* The mark is not before the time of sending, nor in the future.
MarkInTime ==
    Calm /\ settings.last # Never =>
        /\ settings.last.minute >= settings.time
        /\ settings.last.day <= now.day
        /\ settings.last.day = now.day => settings.last.minute <= now.minute

\* What is still to be sent today has not been sent; when no process is
\* busy, a sending of today is marked.
Unsent ==
    Calm =>
        /\ \A d \in Days, r \in Roles : copies[d][r] < 2
        /\ \A d \in Days, r \in Roles : d > now.day => copies[d][r] = 0
        /\ \A j \in Jobs, r \in Roles :
              Busy(j) /\ (r \in job[j].todo \/ ~job[j].sent) => copies[now.day][r] = 0
        /\ (\A j \in Jobs : ~Busy(j)) /\ Got(now.day) => settings.last.day = now.day

ReportInv == ReportTypeOK /\ IdleIsEmpty /\ Backed /\ Alone /\ MarkInTime /\ Unsent

-----------------------------------------------------------------------------
LEMMA ReportStarts == ReportInit => ReportInv
<1> USE ReportAssumption
<1> SUFFICES ASSUME ReportInit PROVE ReportInv
  OBVIOUS
<1>1. ReportTypeOK
  <2>1. FirstMinute \in Times
    BY DEF FirstMinute, Times, Days, Minutes
  <2>2. NoProcess \in Processes
    BY <2>1 DEF NoProcess, Processes
  <2>3. settings \in [enabled : BOOLEAN, time : SendTimes, last : Marks]
    BY DEF ReportInit, Marks
  <2>4. form \in Forms
    BY DEF ReportInit, Forms, Marks
  <2>5. content \subseteq Roles \cup {Full}
    BY DEF ReportInit
  <2>6. job \in [Jobs -> Processes] /\ now \in Times
    BY <2>1, <2>2 DEF ReportInit
  <2>7. copies \in [Days -> [Roles -> 0..2]]
    BY DEF ReportInit
  <2>8. faults \in 0..MaxFaults /\ saves \in 0..MaxSaves
    BY DEF ReportInit
  <2> QED
    BY <2>3, <2>4, <2>5, <2>6, <2>7, <2>8 DEF ReportInit, ReportTypeOK
<1>2. IdleIsEmpty
  BY DEF ReportInit, IdleIsEmpty, NoProcess
<1>3. Backed
  BY DEF ReportInit, Backed, MarkedIsSent, NoProcess
<1>4. Alone /\ MarkInTime /\ Unsent
  BY DEF ReportInit, Alone, MarkInTime, Unsent, Busy, NoProcess, Calm, Got,
     FirstMinute, Days
<1> QED
  BY <1>1, <1>2, <1>3, <1>4 DEF ReportInv

-----------------------------------------------------------------------------
(* Types.                                                                  *)

LEMMA ProcessTyped ==
    ASSUME NEW p \in Processes, NEW r \in Roles
    PROVE  /\ [p EXCEPT !.todo = @ \ {r}, !.sent = TRUE] \in Processes
           /\ [p EXCEPT !.todo = @ \ {r}] \in Processes
<1>1. p.todo \ {r} \in SUBSET Roles
  BY DEF Processes
<1> QED
  BY <1>1 DEF Processes

LEMMA FullTyped ==
    ASSUME NEW p \in Processes
    PROVE  [p EXCEPT !.at = "full", !.todo = Roles] \in Processes
<1>1. Roles \in SUBSET Roles
  OBVIOUS
<1> QED
  BY <1>1 DEF Processes

LEMMA ReportTypeStep ==
    ReportTypeOK /\ [ReportNext]_ReportVars => ReportTypeOK'
<1> USE ReportAssumption
<1> SUFFICES ASSUME ReportTypeOK, [ReportNext]_ReportVars PROVE ReportTypeOK'
  OBVIOUS
<1> USE DEF ReportTypeOK, Marks, Forms, Processes, NoProcess
<1>1. ASSUME NEW j \in Jobs, Launch(j) PROVE ReportTypeOK'
  BY <1>1 DEF Launch
<1>2. ASSUME NEW j \in Jobs, NEW r \in Roles, Send(j, r) PROVE ReportTypeOK'
  <2>1. job[j].start.day \in Days
    BY DEF Times, ReportTypeOK
  <2>2. \A n \in 0..2 : More(n) \in 0..2
    BY DEF More
  <2>3. copies' \in [Days -> [Roles -> 0..2]]
    BY <1>2, <2>1, <2>2 DEF Send
  <2>4. job' \in [Jobs -> Processes]
    <3>1. job[j] \in Processes
      BY DEF ReportTypeOK
    <3>2. [job[j] EXCEPT !.todo = @ \ {r}, !.sent = TRUE] \in Processes
      BY <3>1, ProcessTyped
    <3>3. job' = [job EXCEPT ![j] = [job[j] EXCEPT !.todo = @ \ {r}, !.sent = TRUE]]
      BY <1>2 DEF Send, ReportTypeOK
    <3> QED
      BY <3>2, <3>3 DEF ReportTypeOK
  <2> QED
    BY <1>2, <2>3, <2>4 DEF Send
<1>3. ASSUME NEW j \in Jobs, NEW r \in Roles, SendFails(j, r) PROVE ReportTypeOK'
  BY <1>3 DEF SendFails
<1>12. ASSUME NEW j \in Jobs, NEW r \in Roles, SendTimesOut(j, r) PROVE ReportTypeOK'
  <2>1. job[j].start.day \in Days
    BY DEF Times, ReportTypeOK
  <2>2. \A n \in 0..2 : More(n) \in 0..2
    BY DEF More
  <2>3. copies' \in [Days -> [Roles -> 0..2]]
    BY <1>12, <2>1, <2>2 DEF SendTimesOut
  <2>4. [job[j] EXCEPT !.todo = @ \ {r}] \in Processes
    BY ProcessTyped DEF ReportTypeOK
  <2>5. job' \in [Jobs -> Processes]
    BY <1>12, <2>4 DEF SendTimesOut, ReportTypeOK
  <2> QED
    BY <1>12, <2>3, <2>5 DEF SendTimesOut
<1>4. ASSUME NEW j \in Jobs, FallBack(j) PROVE ReportTypeOK'
  <2>1. job[j] \in Processes
    BY DEF ReportTypeOK
  <2>2. job' \in [Jobs -> Processes]
    BY <1>4, <2>1, FullTyped DEF FallBack
  <2> QED
    BY <1>4, <2>2 DEF FallBack
<1>5. ASSUME NEW j \in Jobs, Finish(j) PROVE ReportTypeOK'
  <2>1. Mark(j) \in Marks
    BY DEF Mark
  <2>2. settings' \in [enabled : BOOLEAN, time : SendTimes, last : Marks]
    BY <1>5, <2>1 DEF Finish
  <2>3. NoProcess \in Processes
    BY DEF Times, Days, Minutes, FirstMinute
  <2>4. job' \in [Jobs -> Processes]
    BY <1>5, <2>3 DEF Finish
  <2> QED
    BY <1>5, <2>2, <2>4 DEF Finish
<1>6. ASSUME NEW j \in Jobs, Crash(j) PROVE ReportTypeOK'
  BY <1>6 DEF Crash, Times, Days, Minutes, FirstMinute
<1>7. CASE Miss
  BY <1>7 DEF Miss
<1>8. CASE Tick
  BY <1>8 DEF Tick
<1>9. CASE OpenForm
  BY <1>9 DEF OpenForm
<1>10. ASSUME NEW e \in BOOLEAN, NEW t \in SendTimes, SaveForm(e, t) PROVE ReportTypeOK'
  BY <1>10 DEF SaveForm
<1>11. CASE UNCHANGED ReportVars
  BY <1>11 DEF ReportVars
<1> QED
  BY <1>1, <1>2, <1>3, <1>4, <1>5, <1>6, <1>7, <1>8, <1>9, <1>10, <1>11, <1>12
  DEF ReportNext, Work, Done

-----------------------------------------------------------------------------
(* The mark.                                                               *)

\* A report that was received stays received.
GotNext(d) == \E r \in Roles : copies'[d][r] > 0

LEMMA GotStays ==
    ReportTypeOK /\ [ReportNext]_ReportVars =>
        \A d \in Days : Got(d) => GotNext(d)
<1> USE ReportAssumption
<1> SUFFICES ASSUME ReportTypeOK, [ReportNext]_ReportVars,
                    NEW d \in Days, Got(d)
             PROVE  GotNext(d)
  OBVIOUS
<1> USE DEF Got, GotNext
<1>1. ASSUME NEW j \in Jobs, NEW r \in Roles, Send(j, r) PROVE GotNext(d)
  BY <1>1 DEF Send, More, ReportTypeOK
<1>2. ASSUME NEW j \in Jobs, NEW r \in Roles, SendTimesOut(j, r) PROVE GotNext(d)
  BY <1>2 DEF SendTimesOut, More, ReportTypeOK
<1>3. ASSUME copies' = copies PROVE GotNext(d)
  BY <1>3
<1> QED
  BY <1>1, <1>2, <1>3 DEF ReportNext, Work, Done, ReportVars, Launch,
     SendFails, FallBack, Finish, Crash,
     Miss, Tick, OpenForm, SaveForm

LEMMA BackedStep ==
    ReportTypeOK /\ ReportTypeOK' /\ Backed /\ [ReportNext]_ReportVars => Backed'
<1> USE ReportAssumption
<1> SUFFICES ASSUME ReportTypeOK, ReportTypeOK', Backed, [ReportNext]_ReportVars PROVE Backed'
  OBVIOUS
<1>1. \A d \in Days : Got(d) => GotNext(d)
  BY GotStays
<1>2. \A m \in Marks : m # Never => m.day \in Days
  BY DEF Marks, Times
<1>3. \A j \in Jobs : job[j].start.day \in Days
  BY DEF ReportTypeOK, Processes, Times
<1>4. settings.last \in Marks /\ form.last \in Marks
  BY DEF ReportTypeOK, Forms
<1>5. settings.last # Never => GotNext(settings.last.day)
  BY <1>1, <1>2, <1>4 DEF Backed, MarkedIsSent
<1>6. form.last # Never => GotNext(form.last.day)
  BY <1>1, <1>2, <1>4 DEF Backed
<1>7. \A j \in Jobs : job[j].sent => GotNext(job[j].start.day)
  BY <1>1, <1>3 DEF Backed
<1> USE DEF Backed, MarkedIsSent, Got, GotNext
<1>8. ASSUME NEW j \in Jobs, Launch(j) PROVE Backed'
  BY <1>5, <1>6, <1>7, <1>8 DEF Launch, ReportTypeOK, Processes
<1>9. ASSUME NEW j \in Jobs, NEW r \in Roles, Send(j, r) PROVE Backed'
  <2>1. copies'[job[j].start.day][r] > 0
    BY <1>3, <1>9 DEF Send, More, ReportTypeOK
  <2>2. job'[j].start = job[j].start /\ \A i \in Jobs \ {j} : job'[i] = job[i]
    BY <1>9 DEF Send, ReportTypeOK
  <2>3. ASSUME NEW i \in Jobs, job'[i].sent PROVE \E q \in Roles : copies'[job'[i].start.day][q] > 0
    <3>1. CASE i = j
      BY <2>1, <2>2, <3>1
    <3>2. CASE i # j
      BY <1>7, <2>2, <2>3, <3>2
    <3> QED
      BY <3>1, <3>2
  <2> QED
    BY <1>5, <1>6, <1>9, <2>3 DEF Send
<1>10. ASSUME NEW j \in Jobs, NEW r \in Roles, SendFails(j, r) PROVE Backed'
  BY <1>5, <1>6, <1>7, <1>10 DEF SendFails, ReportTypeOK, Processes
<1>19. ASSUME NEW j \in Jobs, NEW r \in Roles, SendTimesOut(j, r) PROVE Backed'
  <2>1. \A i \in Jobs : job'[i].sent = job[i].sent /\ job'[i].start = job[i].start
    BY <1>19 DEF SendTimesOut, ReportTypeOK, Processes
  <2> QED
    BY <1>5, <1>6, <1>7, <1>19, <2>1 DEF SendTimesOut
<1>11. ASSUME NEW j \in Jobs, FallBack(j) PROVE Backed'
  BY <1>5, <1>6, <1>7, <1>11 DEF FallBack, ReportTypeOK, Processes
<1>12. ASSUME NEW j \in Jobs, Finish(j) PROVE Backed'
  BY <1>5, <1>6, <1>7, <1>12 DEF Finish, Mark, NoProcess, ReportTypeOK,
     Processes
<1>13. ASSUME NEW j \in Jobs, Crash(j) PROVE Backed'
  BY <1>5, <1>6, <1>7, <1>13 DEF Crash, NoProcess, ReportTypeOK, Processes
<1>14. CASE Miss
  BY <1>14 DEF Miss
<1>15. CASE Tick
  BY <1>15 DEF Tick
<1>16. CASE OpenForm
  BY <1>16 DEF OpenForm
<1>17. ASSUME NEW e \in BOOLEAN, NEW t \in SendTimes, SaveForm(e, t) PROVE Backed'
  BY <1>17 DEF SaveForm
<1>18. CASE UNCHANGED ReportVars
  BY <1>18 DEF ReportVars
<1> QED
  BY <1>8, <1>9, <1>10, <1>11, <1>12, <1>13, <1>14, <1>15, <1>16, <1>17, <1>18,
     <1>19
  DEF ReportNext, Work, Done

-----------------------------------------------------------------------------
(* Calm weather.                                                           *)

LEMMA CalmStep ==
    ReportInv /\ ReportTypeOK' /\ [ReportNext]_ReportVars =>
        (IdleIsEmpty /\ Alone /\ MarkInTime /\ Unsent)'
<1> USE ReportAssumption
<1> DEFINE Goal == IdleIsEmpty /\ Alone /\ MarkInTime /\ Unsent
<1> SUFFICES ASSUME ReportInv, ReportTypeOK', [ReportNext]_ReportVars PROVE Goal'
  OBVIOUS
<1> USE DEF ReportInv, IdleIsEmpty, Alone, MarkInTime, Unsent, Busy, Calm
<1>0. now.day \in Days /\ now.minute \in Nat /\ settings.time \in Nat
  <2>1. now.day \in Days /\ now.minute \in Nat
    BY DEF ReportTypeOK, Times, Minutes
  <2>2. settings.time \in SendTimes
    BY DEF ReportTypeOK
  <2>3. settings.time \in Minutes
    BY <2>2
  <2>4. Minutes \subseteq Nat
    BY DEF Minutes
  <2> QED
    BY <2>1, <2>3, <2>4
<1>1. ASSUME NEW j \in Jobs, Launch(j) PROVE Goal'
  <2>1. /\ settings' = settings /\ copies' = copies /\ now' = now /\ form' = form
        /\ saves' = saves /\ smooth' = smooth /\ started'
    BY <1>1 DEF Launch
  <2>2. CASE job' = job
    BY <1>1, <2>1, <2>2 DEF Launch, Got
  <2>3. CASE /\ job' = [job EXCEPT ![j] = [at |-> "roles", start |-> now,
                                          todo |-> Roles \cap content, sent |-> FALSE]]
             /\ Due(now)
    <3>1. /\ job'[j] = [at |-> "roles", start |-> now, todo |-> Roles \cap content, sent |-> FALSE]
          /\ \A i \in Jobs \ {j} : job'[i] = job[i]
      BY <2>3 DEF ReportTypeOK
    <3>2. ASSUME Calm PROVE \A i \in Jobs : ~Busy(i)
      BY <1>1, <3>2 DEF Launch
    <3>3. now.minute >= settings.time
      BY <1>0, <2>3 DEF Due
    <3>4. ASSUME Calm PROVE ~Got(now.day)
      <4> SUFFICES ASSUME Got(now.day) PROVE FALSE
        OBVIOUS
      <4>1. settings.last.day = now.day
        BY <3>2, <3>4
      <4>2. settings.last # Never
        BY <1>0, <4>1 DEF Never, Days
      <4>3. settings.last \in Times /\ now \in Times
        BY <4>2 DEF ReportTypeOK, Marks
      <4>4. settings.last.minute \in Nat
        BY <4>3 DEF Times, Minutes
      <4>5. now.minute = settings.time /\ settings.last # now
        BY <1>0, <2>3, <4>1 DEF Due, Days
      <4>6. settings.last.minute = now.minute
        BY <1>0, <3>4, <4>1, <4>2, <4>4, <4>5
      <4>7. settings.last = now
        BY <4>1, <4>3, <4>6 DEF Times
      <4> QED
        BY <4>5, <4>7
    <3>5. ASSUME Calm PROVE \A r \in Roles : copies[now.day][r] = 0
      <4>1. \A r \in Roles : copies[now.day][r] \in 0..2
        BY <1>0 DEF ReportTypeOK
      <4> QED
        BY <3>4, <3>5, <4>1 DEF Got
    <3>6. IdleIsEmpty'
      BY <2>1, <3>1
    <3>7. Alone'
      BY <2>1, <3>1, <3>2, <3>3
    <3>8. MarkInTime'
      BY <2>1
    <3>9. Unsent'
      BY <2>1, <3>1, <3>2, <3>5 DEF Got
    <3> QED
      BY <3>6, <3>7, <3>8, <3>9
  <2> QED
    BY <1>1, <2>2, <2>3 DEF Launch
<1>2. ASSUME NEW j \in Jobs, NEW r \in Roles, Send(j, r) PROVE Goal'
  <2>1. /\ settings' = settings /\ now' = now /\ form' = form /\ started' = started
        /\ saves' = saves /\ smooth' = smooth
    BY <1>2 DEF Send
  <2>2. /\ job'[j] = [job[j] EXCEPT !.todo = @ \ {r}, !.sent = TRUE]
        /\ \A i \in Jobs \ {j} : job'[i] = job[i]
    BY <1>2 DEF Send, ReportTypeOK
  <2>3. Busy(j) /\ r \in job[j].todo
    BY <1>2 DEF Send
  <2>4. /\ job'[j].at = job[j].at /\ job'[j].start = job[j].start
        /\ job'[j].todo = job[j].todo \ {r} /\ job'[j].sent = TRUE
    BY <2>2 DEF ReportTypeOK, Processes
  <2>5. IdleIsEmpty' /\ MarkInTime'
    BY ZenonT(40), <2>1, <2>2, <2>3, <2>4
  <2>6. Alone'
    <3>1. \A i \in Jobs : job'[i].at = job[i].at /\ job'[i].start = job[i].start
      BY <2>2, <2>4
    <3> QED
      BY <2>1, <3>1
  <2>7. ASSUME Calm PROVE Unsent'
    <3>1. job[j].start = now /\ copies[now.day][r] = 0
      BY <2>3, <2>7
    <3>2. /\ copies'[now.day][r] = 1
          /\ \A d \in Days, q \in Roles :
                d # now.day \/ q # r => copies'[d][q] = copies[d][q]
      BY <1>0, <1>2, <3>1 DEF Send, More, ReportTypeOK
    <3>3. \A i \in Jobs : Busy(i) => i = j
      BY <2>3, <2>7
    <3>4. \A d \in Days, q \in Roles : copies'[d][q] < 2
      BY <1>0, <2>7, <3>2
    <3>5. \A d \in Days, q \in Roles : d > now.day => copies'[d][q] = 0
      BY <1>0, <2>7, <3>2 DEF Days
    <3>6. ASSUME NEW i \in Jobs, NEW q \in Roles, job'[i].at # "idle",
                 q \in job'[i].todo \/ ~job'[i].sent
          PROVE copies'[now.day][q] = 0
      <4>1. i = j
        BY <2>2, <3>3, <3>6
      <4>2. q \in job[j].todo /\ q # r
        BY <2>4, <3>6, <4>1
      <4> QED
        BY <1>0, <2>3, <2>7, <3>2, <4>2
    <3>7. Busy(j)'
      BY <2>3, <2>4
    <3> QED
      BY <2>1, <3>4, <3>5, <3>6, <3>7
  <2> QED
    BY <2>1, <2>5, <2>6, <2>7
<1>3. ASSUME NEW j \in Jobs, NEW r \in Roles, SendFails(j, r) PROVE Goal'
  <2>1. /\ settings' = settings /\ copies' = copies /\ now' = now /\ form' = form
        /\ saves' = saves /\ smooth' = smooth /\ started' = started
    BY <1>3 DEF SendFails
  <2>2. /\ job'[j].at = job[j].at /\ job'[j].start = job[j].start
        /\ job'[j].todo = job[j].todo \ {r} /\ job'[j].sent = job[j].sent
        /\ \A i \in Jobs \ {j} : job'[i] = job[i]
    BY <1>3 DEF SendFails, ReportTypeOK, Processes
  <2> QED
    BY <2>1, <2>2 DEF Got
<1>12. ASSUME NEW j \in Jobs, NEW r \in Roles, SendTimesOut(j, r) PROVE Goal'
  <2>1. ~Calm /\ ~Calm'
    BY <1>12 DEF SendTimesOut
  <2>2. /\ job'[j].at = job[j].at /\ job'[j].todo = job[j].todo \ {r}
        /\ job'[j].sent = job[j].sent
        /\ \A i \in Jobs \ {j} : job'[i] = job[i]
    BY <1>12 DEF SendTimesOut, ReportTypeOK, Processes
  <2>3. IdleIsEmpty'
    BY <2>2
  <2> QED
    BY <2>1, <2>3
<1>4. ASSUME NEW j \in Jobs, FallBack(j) PROVE Goal'
  <2>1. /\ settings' = settings /\ copies' = copies /\ now' = now /\ form' = form
        /\ saves' = saves /\ smooth' = smooth /\ started' = started
    BY <1>4 DEF FallBack
  <2>2. /\ job'[j].at = "full" /\ job'[j].start = job[j].start
        /\ ~job'[j].sent /\ ~job[j].sent /\ Busy(j)
        /\ \A i \in Jobs \ {j} : job'[i] = job[i]
    BY <1>4 DEF FallBack, ReportTypeOK, Processes
  <2>3. IdleIsEmpty' /\ Alone' /\ MarkInTime'
    BY <2>1, <2>2
  <2>4. Unsent'
    BY <2>1, <2>2 DEF Got
  <2> QED
    BY <2>3, <2>4
<1>5. ASSUME NEW j \in Jobs, Finish(j) PROVE Goal'
  <2>1. /\ copies' = copies /\ now' = now /\ form' = form
        /\ saves' = saves /\ smooth' = smooth /\ started' = started
    BY <1>5 DEF Finish
  <2>2. job'[j] = NoProcess /\ \A i \in Jobs \ {j} : job'[i] = job[i]
    BY <1>5 DEF Finish, ReportTypeOK
  <2>3. settings'.time = settings.time /\ settings'.last = Mark(j)
    BY <1>5 DEF Finish, ReportTypeOK
  <2>4. Busy(j)
    BY <1>5 DEF Finish
  <2>5. IdleIsEmpty' /\ Alone'
    BY <2>1, <2>2, <2>3, <2>4 DEF NoProcess
  <2>6. ASSUME Calm PROVE MarkInTime' /\ Unsent'
    <3>1. job[j].start = now /\ now.minute >= settings.time
      BY <2>4, <2>6
    <3>2. MarkInTime'
      BY <1>0, <2>1, <2>3, <2>6, <3>1 DEF Mark, Days
    <3>3. Got(now.day) => settings'.last.day = now.day
      <4>1. CASE job[j].sent
        BY <2>3, <3>1, <4>1 DEF Mark
      <4>2. CASE ~job[j].sent
        BY <1>0, <2>4, <2>6, <4>2 DEF Got
      <4> QED
        BY <4>1, <4>2
    <3>4. \A i \in Jobs : ~Busy(i)'
      BY <2>2, <2>4, <2>6 DEF NoProcess
    <3>5. (/\ \A d \in Days, q \in Roles : copies[d][q] < 2
           /\ \A d \in Days, q \in Roles : d > now.day => copies[d][q] = 0)'
      BY <2>1, <2>6
    <3>6. Unsent'
      BY <2>1, <3>3, <3>4, <3>5 DEF Got
    <3> QED
      BY <3>2, <3>6
  <2> QED
    BY <2>1, <2>5, <2>6
<1>6. ASSUME NEW j \in Jobs, Crash(j) PROVE Goal'
  <2>1. ~smooth /\ ~smooth'
    BY <1>6 DEF Crash
  <2>2. job'[j] = NoProcess /\ \A i \in Jobs \ {j} : job'[i] = job[i]
    BY <1>6 DEF Crash, ReportTypeOK
  <2> QED
    BY <2>1, <2>2 DEF NoProcess
<1>7. CASE Miss
  BY <1>7 DEF Miss, Got
<1>8. CASE Tick
  <2>1. /\ settings' = settings /\ copies' = copies /\ form' = form /\ job' = job
        /\ saves' = saves /\ smooth' = smooth /\ now' = Soon
        /\ smooth => \A j \in Jobs : ~Busy(j)
    BY <1>8 DEF Tick
  <2>2. \/ now'.day = now.day /\ now'.minute = now.minute + 1
        \/ now'.day = now.day + 1
    BY <2>1 DEF Soon, Tomorrow, ReportTypeOK, Times
  <2>3. IdleIsEmpty' /\ Alone'
    BY <2>1
  <2>4. settings.last # Never => settings.last.day \in Nat /\ settings.last.minute \in Nat
    BY DEF ReportTypeOK, Marks, Times, Days, Minutes
  <2>5. MarkInTime'
    BY <1>0, <2>1, <2>2, <2>4 DEF Days
  <2>6. ASSUME Calm PROVE Unsent'
    <3>1. now'.day \in Days
      BY DEF ReportTypeOK, Times
    <3>2. \A d \in Days, q \in Roles : d > now'.day => copies[d][q] = 0
      BY <1>0, <2>2, <2>6 DEF Days
    <3>3. CASE now'.day = now.day
      BY <2>1, <2>6, <3>2, <3>3 DEF Got
    <3>4. CASE now'.day = now.day + 1
      <4>1. ~Got(now'.day)
        BY <1>0, <2>6, <3>1, <3>4 DEF Got, Days
      <4> QED
        BY <2>1, <2>6, <3>2, <4>1 DEF Got
    <3> QED
      BY <2>2, <3>3, <3>4
  <2> QED
    BY <2>1, <2>3, <2>5, <2>6
<1>9. CASE OpenForm
  <2>1. saves' # 0 /\ job' = job
    BY <1>9 DEF OpenForm, ReportTypeOK
  <2> QED
    BY <2>1
<1>10. ASSUME NEW e \in BOOLEAN, NEW t \in SendTimes, SaveForm(e, t) PROVE Goal'
  <2>1. ~Calm /\ ~Calm' /\ job' = job
    BY <1>10 DEF SaveForm
  <2> QED
    BY <2>1
<1>11. CASE UNCHANGED ReportVars
  BY <1>11 DEF ReportVars, Got
<1> QED
  BY <1>1, <1>2, <1>3, <1>4, <1>5, <1>6, <1>7, <1>8, <1>9, <1>10, <1>11, <1>12
  DEF ReportNext, Work, Done

-----------------------------------------------------------------------------
\* The inductive invariant holds, whatever the days, the roles, the number of
\* processes and of faults.
THEOREM ReportInvariance == ReportSpec => []ReportInv
<1>1. ReportInv /\ [ReportNext]_ReportVars => ReportInv'
  BY ReportTypeStep, BackedStep, CalmStep DEF ReportInv
<1> QED
  BY ReportStarts, <1>1, PTL DEF ReportSpec

\* Every variable keeps its type.
THEOREM ReportTypeCorrect == ReportSpec => []ReportTypeOK
<1>1. ReportInv => ReportTypeOK
  BY DEF ReportInv
<1> QED
  BY ReportInvariance, <1>1, PTL

\* The time written after a sending suppresses no report that nobody got.
THEOREM MarksAreSent == ReportSpec => []MarkedIsSent
<1>1. ReportInv => MarkedIsSent
  BY DEF ReportInv, Backed
<1> QED
  BY ReportInvariance, <1>1, PTL

\* While processes end in their minute, the settings are left alone and a copy
\* reported as failed has not arrived, the checks of the time and of the mark
\* let a report through to each role once a day.
THEOREM SentOnce == ReportSpec => []OncePerDay
<1>1. ReportInv => OncePerDay
  BY DEF ReportInv, Unsent, OncePerDay, Calm
<1> QED
  BY ReportInvariance, <1>1, PTL

=============================================================================
