------------------------ MODULE HiringRequestsProofs ------------------------
(***************************************************************************)
(* Proofs about HiringRequests, for any officers, data, workers and number *)
(* of rounds.                                                              *)
(*                                                                         *)
(* Two properties hold whatever stale rows are saved: they rest on what    *)
(* every handler has checked before it saves (Signed).  The others need    *)
(* the handlers to run one at a time: then what the busy one has read is   *)
(* what the row still holds (Fits).                                        *)
(***************************************************************************)
EXTENDS HiringRequests, TLAPS

\* The types, and what the tasks under way have checked.
Typed ==
    /\ serial \in BOOLEAN
    /\ row \in Rows
    /\ employee \in Data \cup {NoEmployee}
    /\ job \in BOOLEAN
    /\ task \in [Workers -> Tasks]
    /\ rounds \subseteq 0..MaxRounds
    /\ \A w \in Workers :
          /\ task[w].op = "resubmit" => task[w].row.round < MaxRounds
          /\ task[w].op \in {"gm", "assign"} => task[w].officer # Nobody
          /\ task[w].op = "officer" => task[w].row.data \in Complete
          /\ task[w].op = "edit_returned" => task[w].row.status = "returned"

\* A handler of the officer's stage has seen the HR manager's approval, and
\* so has everyone who sees the request there or approved.
Signed ==
    /\ row.status \in {"pending_officer", "approved"} => rounds # {}
    /\ \A w \in Workers :
          task[w].op \in {"officer", "edit", "edit_and_approve"} => rounds # {}
    /\ employee # NoEmployee => rounds # {} /\ employee \in Complete

\* The row still is what the task has read of it.
Fits(t) ==
    /\ t.op \in {"skip", "first"} => row.status = "pending_branch"
    /\ t.op = "gm" => row.status = "pending_gm" /\ t.row.round = row.round
    /\ t.op = "assign" => row.status = "pending_officer"
    /\ t.op = "officer" => row.status = "pending_officer" /\ t.row.data = row.data
    /\ t.op \in {"edit", "edit_and_approve"} =>
          row.status = "pending_officer" /\ t.row = row
    /\ t.op = "reread" => row.status = "pending_officer"
    /\ t.op = "edit_returned" => row.status = "returned" /\ t.row = row
    /\ t.op = "resubmit" => row.status = "returned" /\ t.row.round = row.round
    /\ t.op = "reject" => Rejectable(row)
    /\ t.op = "return" => Returnable(row)
    /\ t.op = "delete" => row.status # "none"

OneAtATime ==
    /\ \A v, w \in Workers : task[v].op # "idle" /\ task[w].op # "idle" => v = w
    /\ \A w \in Workers : Fits(task[w])

\* What the row shows of its history.
Kept ==
    /\ row.officer # Nobody <=> row.gm
    /\ row.gm => row.round \in rounds
    /\ row.status \in {"pending_officer", "approved"} => row.gm
    /\ employee = IF row.status = "approved" THEN row.data ELSE NoEmployee

\* The inductive invariant.
IInv ==
    /\ Typed
    /\ Signed
    /\ serial => OneAtATime
    /\ serial => Kept

-----------------------------------------------------------------------------
(* Values.                                                                 *)

LEMMA FiledTyped ==
    ASSUME NEW d \in Data, NEW s \in BOOLEAN
    PROVE  /\ Filed(d, s) \in Rows
           /\ Filed(d, s).status = "pending_branch"
           /\ Filed(d, s).officer = Nobody
           /\ ~Filed(d, s).gm
<1> 0 \in 0..MaxRounds
  BY HiringAssumption
<1> QED BY DEF Filed, Rows, Status, Pending

LEMMA NoRowTyped == NoRow \in Rows
<1>1. EmptyForm \in Data /\ FALSE \in BOOLEAN
  BY HiringAssumption
<1>2. Filed(EmptyForm, FALSE) \in Rows
  BY <1>1, FiledTyped
<1> QED BY <1>2 DEF NoRow, Rows, Status

LEMMA IdleTyped == Idle \in Tasks /\ Idle.op = "idle"
<1> USE HiringAssumption
<1> QED BY NoRowTyped DEF Idle, Tasks, Ops

LEMMA TasksTyped ==
    /\ [Idle EXCEPT !.op = "skip"] \in Tasks
    /\ [Idle EXCEPT !.op = "skip"].op = "skip"
    /\ \A a \in Officers \cup {Manager, Nobody} :
          /\ [Idle EXCEPT !.op = "reread", !.actor = a] \in Tasks
          /\ [Idle EXCEPT !.op = "reread", !.actor = a].op = "reread"
    /\ \A r \in Rows :
          /\ [Idle EXCEPT !.op = "officer", !.row = r] \in Tasks
          /\ [Idle EXCEPT !.op = "officer", !.row = r].op = "officer"
          /\ [Idle EXCEPT !.op = "officer", !.row = r].row = r
<1> USE HiringAssumption, NoRowTyped
<1> QED BY DEF Idle, Tasks, Ops

\* What a handler keeps of a row is typed as the row is.
LEMMA NeededTyped ==
    ASSUME NEW op \in Ops, NEW r \in Rows
    PROVE  /\ Needed(op, r) \in Rows
           /\ op \in {"gm", "resubmit"} => Needed(op, r).round = r.round
           /\ op = "officer" => Needed(op, r).data = r.data
           /\ op \in {"edit", "edit_and_approve", "edit_returned"} => Needed(op, r) = r
<1>1. NoRow \in Rows
  BY NoRowTyped
<1>2. CASE op \in {"edit", "edit_and_approve", "edit_returned"}
  BY <1>2 DEF Needed
<1>3. CASE op = "resubmit"
  <2>1. Needed(op, r) = [NoRow EXCEPT !.skips = r.skips, !.round = r.round]
    BY <1>3 DEF Needed
  <2> QED BY <1>1, <1>3, <2>1 DEF Rows
<1>4. CASE op = "gm"
  <2>1. Needed(op, r) = [NoRow EXCEPT !.round = r.round]
    BY <1>4 DEF Needed
  <2> QED BY <1>1, <1>4, <2>1 DEF Rows
<1>5. CASE op = "officer"
  <2>1. Needed(op, r) = [NoRow EXCEPT !.data = r.data]
    BY <1>5 DEF Needed
  <2> QED BY <1>1, <1>5, <2>1 DEF Rows
<1>6. CASE op \notin {"edit", "edit_and_approve", "edit_returned", "resubmit", "gm", "officer"}
  <2>1. Needed(op, r) = NoRow
    BY <1>6 DEF Needed
  <2> QED BY <1>1, <1>6, <2>1
<1> QED BY <1>2, <1>3, <1>4, <1>5, <1>6

-----------------------------------------------------------------------------
(* The steps.                                                              *)

LEMMA InitInv ==
    ASSUME Init
    PROVE  IInv
<1> USE HiringAssumption DEF Init
<1>1. row.status = "none" /\ row.officer = Nobody /\ ~row.gm /\ row.round = 0
  BY DEF NoRow, Filed
<1>2. Typed
  BY NoRowTyped, IdleTyped DEF Typed
<1>3. Signed
  BY <1>1, IdleTyped DEF Signed
<1>4. OneAtATime
  BY IdleTyped DEF OneAtATime, Fits
<1>5. Kept
  BY <1>1 DEF Kept
<1> QED BY <1>2, <1>3, <1>4, <1>5 DEF IInv

LEMMA GMApproveAndAssignInv ==
    ASSUME IInv, NEW w \in Workers, GMApproveAndAssign(w)
    PROVE  IInv'
<1> USE HiringAssumption, IdleTyped, NoRowTyped DEF IInv, GMApproveAndAssign, Saved
<1>1. Typed'
  BY ZenonT(40) DEF Typed, Rows, Tasks, Status, Pending, Ops
<1>2. Signed'
  BY DEF Typed, Signed, Rows, Tasks
<1>3. (serial => OneAtATime)'
  BY DEF Typed, OneAtATime, Fits, Rows, Tasks
<1>4. (serial => Kept)'
  BY DEF Typed, OneAtATime, Fits, Kept, Rows, Tasks
<1> QED BY <1>1, <1>2, <1>3, <1>4

LEMMA SaveOfficerAssignmentInv ==
    ASSUME IInv, NEW w \in Workers, SaveOfficerAssignment(w)
    PROVE  IInv'
<1> USE HiringAssumption, IdleTyped, NoRowTyped DEF IInv, SaveOfficerAssignment, Saved
<1>1. Typed'
  BY DEF Typed, Rows, Tasks, Status, Pending, Ops
<1>2. Signed'
  BY DEF Typed, Signed, Rows, Tasks
<1>3. (serial => OneAtATime)'
  BY DEF Typed, OneAtATime, Fits, Rows, Tasks
<1>4. (serial => Kept)'
  BY DEF Typed, OneAtATime, Fits, Kept, Rows, Tasks
<1> QED BY <1>1, <1>2, <1>3, <1>4

LEMMA OfficerApproveInv ==
    ASSUME IInv, NEW w \in Workers, OfficerApprove(w)
    PROVE  IInv'
<1> USE HiringAssumption, IdleTyped, NoRowTyped DEF IInv, OfficerApprove, Saved, Hired
<1>1. Typed'
  BY DEF Typed, Rows, Tasks, Status, Pending, Ops
<1>2. Signed'
  BY DEF Typed, Signed, Rows, Tasks
<1>3. (serial => OneAtATime)'
  BY DEF Typed, OneAtATime, Fits, Rows, Tasks
<1>4. (serial => Kept)'
  BY DEF Typed, OneAtATime, Fits, Kept, Rows, Tasks
<1> QED BY <1>1, <1>2, <1>3, <1>4

LEMMA RejectInv ==
    ASSUME IInv, NEW w \in Workers, Reject(w)
    PROVE  IInv'
<1> USE HiringAssumption, IdleTyped, NoRowTyped DEF IInv, Reject, Saved, Rejectable, Pending
<1>1. Typed'
  BY DEF Typed, Rows, Tasks, Status, Pending, Ops
<1>2. Signed'
  BY DEF Typed, Signed, Rows, Tasks
<1>3. (serial => OneAtATime)'
  BY DEF Typed, OneAtATime, Fits, Rows, Tasks
<1>4. (serial => Kept)'
  BY DEF Typed, OneAtATime, Fits, Kept, Rows, Tasks
<1> QED BY <1>1, <1>2, <1>3, <1>4

LEMMA ReturnForEditInv ==
    ASSUME IInv, NEW w \in Workers, ReturnForEdit(w)
    PROVE  IInv'
<1> USE HiringAssumption, IdleTyped, NoRowTyped DEF IInv, ReturnForEdit, Saved, Returnable, Pending
<1>1. Typed'
  BY DEF Typed, Rows, Tasks, Status, Pending, Ops
<1>2. Signed'
  BY DEF Typed, Signed, Rows, Tasks
<1>3. (serial => OneAtATime)'
  BY DEF Typed, OneAtATime, Fits, Rows, Tasks
<1>4. (serial => Kept)'
  BY DEF Typed, OneAtATime, Fits, Kept, Rows, Tasks
<1> QED BY <1>1, <1>2, <1>3, <1>4

LEMMA DeleteInv ==
    ASSUME IInv, NEW w \in Workers, Delete(w)
    PROVE  IInv'
<1> USE HiringAssumption, IdleTyped, NoRowTyped DEF IInv, Delete, Saved
<1>1. Typed'
  BY DEF Typed, Rows, Tasks, Status, Pending, Ops
<1>2. Signed'
  BY DEF Typed, Signed, Rows, Tasks
<1>3. (serial => OneAtATime)'
  BY DEF Typed, OneAtATime, Fits, Rows, Tasks
<1>4. (serial => Kept)'
  BY DEF Typed, OneAtATime, Fits, Kept, Rows, Tasks
<1> QED BY <1>1, <1>2, <1>3, <1>4

LEMMA EditSaveInv ==
    ASSUME IInv, NEW w \in Workers, EditSave(w)
    PROVE  IInv'
<1> USE HiringAssumption, IdleTyped, NoRowTyped DEF IInv, EditSave, Saved
<1>1. Typed'
  BY ZenonT(40) DEF Typed, Rows, Tasks, Status, Pending, Ops
<1>2. Signed'
  BY DEF Typed, Signed, Rows, Tasks
<1>3. (serial => OneAtATime)'
  BY DEF Typed, OneAtATime, Fits, Rows, Tasks
<1>4. (serial => Kept)'
  BY DEF Typed, OneAtATime, Fits, Kept, Rows, Tasks
<1> QED BY <1>1, <1>2, <1>3, <1>4

LEMMA EditReturnedInv ==
    ASSUME IInv, NEW w \in Workers, EditReturned(w)
    PROVE  IInv'
<1> USE HiringAssumption, IdleTyped, NoRowTyped DEF IInv, EditReturned, Saved
<1>1. Typed'
  BY ZenonT(40) DEF Typed, Rows, Tasks, Status, Pending, Ops
<1>2. Signed'
  BY DEF Typed, Signed, Rows, Tasks
<1>3. (serial => OneAtATime)'
  BY DEF Typed, OneAtATime, Fits, Rows, Tasks
<1>4. (serial => Kept)'
  BY DEF Typed, OneAtATime, Fits, Kept, Rows, Tasks
<1> QED BY <1>1, <1>2, <1>3, <1>4

LEMMA FirstStageInv ==
    ASSUME IInv, NEW w \in Workers, FirstStage(w)
    PROVE  IInv'
<1> USE HiringAssumption, IdleTyped, NoRowTyped DEF IInv
<1>1. PICK stamp \in BOOLEAN : row' = [row EXCEPT !.status = "pending_gm", !.branch = @ \/ stamp]
  BY DEF FirstStage, Saved
<1>2. (row.branch \/ stamp) \in BOOLEAN
  OBVIOUS
<1>3. /\ row' \in Rows
      /\ row'.status = "pending_gm"
      /\ row'.officer = row.officer /\ row'.gm = row.gm /\ row'.round = row.round
  BY <1>1, <1>2 DEF Typed, Rows, Status, Pending
<1>4. /\ task' = [task EXCEPT ![w] = Idle]
      /\ task[w].op \in {"skip", "first"}
      /\ UNCHANGED <<serial, employee, job, rounds>>
  BY DEF FirstStage, Saved
<1>11. Typed'
  BY <1>3, <1>4 DEF Typed
<1>12. Signed'
  BY <1>3, <1>4 DEF Typed, Signed
<1>13. (serial => OneAtATime)'
  BY <1>3, <1>4 DEF Typed, OneAtATime, Fits
<1>14. (serial => Kept)'
  BY <1>3, <1>4 DEF Typed, OneAtATime, Fits, Kept
<1> QED BY <1>11, <1>12, <1>13, <1>14

LEMMA ResubmitInv ==
    ASSUME IInv, NEW w \in Workers, Resubmit(w)
    PROVE  IInv'
<1> USE HiringAssumption, IdleTyped, NoRowTyped DEF IInv
<1>1. /\ task[w].op = "resubmit" /\ task[w].row \in Rows
      /\ task[w].row.round < MaxRounds
  BY DEF Resubmit, Typed, Tasks
<1>2. task[w].row.round + 1 \in 0..MaxRounds
  BY <1>1 DEF Rows
<1>3. /\ row' \in Rows
      /\ row'.status \in {"pending_gm", "pending_branch"}
      /\ row'.officer = Nobody /\ ~row'.gm
  BY <1>2 DEF Resubmit, Saved, Restarted, Typed, Rows, Status, Pending
<1>4. /\ task' = [task EXCEPT ![w] = Idle]
      /\ UNCHANGED <<serial, employee, job, rounds>>
  BY DEF Resubmit, Saved
<1>11. Typed'
  BY <1>1, <1>3, <1>4 DEF Typed
<1>12. Signed'
  BY <1>1, <1>3, <1>4 DEF Typed, Signed
<1>13. (serial => OneAtATime)'
  BY <1>1, <1>3, <1>4 DEF Typed, OneAtATime, Fits
<1>14. (serial => Kept)'
  BY <1>1, <1>3, <1>4 DEF Typed, OneAtATime, Fits, Kept
<1> QED BY <1>11, <1>12, <1>13, <1>14

LEMMA EditSaveThenApproveInv ==
    ASSUME IInv, NEW w \in Workers, EditSaveThenApprove(w)
    PROVE  IInv'
<1> USE HiringAssumption, IdleTyped, NoRowTyped DEF IInv
<1>1. /\ task[w].op = "edit_and_approve"
      /\ task[w].row \in Rows /\ task[w].data \in Data
      /\ task[w].actor \in Officers \cup {Manager, Nobody}
  BY DEF EditSaveThenApprove, Typed, Tasks
<1> DEFINE t == [Idle EXCEPT !.op = "reread", !.actor = task[w].actor]
<1>2. t \in Tasks /\ t.op = "reread"
  BY <1>1, TasksTyped
<1>3. row' \in Rows /\ \A f \in {"status", "round", "gm", "officer"} : row'[f] = task[w].row[f]
  BY <1>1 DEF EditSaveThenApprove, Rows
<1>4. /\ row'.status = task[w].row.status /\ row'.round = task[w].row.round
      /\ row'.gm = task[w].row.gm /\ row'.officer = task[w].row.officer
  BY <1>3
<1>5. /\ task' = [task EXCEPT ![w] = t]
      /\ UNCHANGED <<serial, employee, job, rounds>>
  BY DEF EditSaveThenApprove
<1> HIDE DEF t
<1>11. Typed'
  BY <1>1, <1>2, <1>3, <1>4, <1>5 DEF Typed
<1>12. Signed'
  BY <1>1, <1>2, <1>3, <1>4, <1>5 DEF Typed, Signed
<1>13. (serial => OneAtATime)'
  BY <1>1, <1>2, <1>3, <1>4, <1>5 DEF Typed, OneAtATime, Fits
<1>14. (serial => Kept)'
  BY <1>1, <1>2, <1>3, <1>4, <1>5 DEF Typed, OneAtATime, Fits, Kept
<1> QED BY <1>11, <1>12, <1>13, <1>14

LEMMA RereadInv ==
    ASSUME IInv, NEW w \in Workers, Reread(w)
    PROVE  IInv'
<1> USE HiringAssumption, IdleTyped, NoRowTyped DEF IInv
<1> DEFINE ok == MayAct(task[w].actor, row) /\ row.data \in Complete
           t == IF ok THEN [Idle EXCEPT !.op = "officer", !.row = Needed("officer", row)]
                ELSE Idle
<1>1. task[w].op = "reread" /\ "officer" \in Ops /\ row \in Rows
  BY DEF Reread, Typed, Ops
<1>2. Needed("officer", row) \in Rows /\ Needed("officer", row).data = row.data
  BY <1>1, NeededTyped
<1>3. /\ t \in Tasks
      /\ t.op = IF ok THEN "officer" ELSE "idle"
      /\ ok => t.row.data = row.data
  <2>1. CASE ok
    <3>1. t = [Idle EXCEPT !.op = "officer", !.row = Needed("officer", row)]
      BY <2>1
    <3> HIDE DEF t, ok
    <3> QED BY <1>2, <2>1, <3>1, TasksTyped
  <2>2. CASE ~ok
    <3>1. t = Idle
      BY <2>2
    <3> HIDE DEF t, ok
    <3> QED BY <2>2, <3>1
  <2> QED BY <2>1, <2>2
<1>4. ok => row.status = "pending_officer" /\ row.data \in Complete
  BY DEF MayAct, AtOfficer
<1>5. /\ task' = [task EXCEPT ![w] = t]
      /\ UNCHANGED <<serial, row, employee, job, rounds>>
  BY DEF Reread
<1> HIDE DEF t, ok
<1>11. Typed'
  BY <1>1, <1>3, <1>4, <1>5 DEF Typed
<1>12. Signed'
  BY <1>1, <1>3, <1>4, <1>5 DEF Typed, Signed
<1>13. (serial => OneAtATime)'
  BY <1>1, <1>3, <1>4, <1>5 DEF Typed, OneAtATime, Fits
<1>14. (serial => Kept)'
  BY <1>1, <1>3, <1>4, <1>5 DEF Typed, OneAtATime, Fits, Kept
<1> QED BY <1>11, <1>12, <1>13, <1>14

LEMMA AddEmployeeInv ==
    ASSUME IInv, NEW w \in Workers, NEW d \in Data, NEW s \in BOOLEAN, AddEmployee(w, d, s)
    PROVE  IInv'
<1> USE HiringAssumption, IdleTyped, NoRowTyped DEF IInv
<1> DEFINE t == IF s THEN [Idle EXCEPT !.op = "skip"] ELSE Idle
<1>1. t \in Tasks /\ t.op \in {"idle", "skip"}
  BY TasksTyped
<1>2. /\ row' \in Rows /\ row'.status = "pending_branch"
      /\ row'.officer = Nobody /\ ~row'.gm /\ row.status = "none"
  BY FiledTyped DEF AddEmployee
<1>3. /\ task' = [task EXCEPT ![w] = t]
      /\ task[w].op = "idle"
      /\ serial => \A v \in Workers : task[v].op = "idle"
      /\ job' = TRUE
      /\ UNCHANGED <<serial, employee, rounds>>
  BY DEF AddEmployee, Free
<1> HIDE DEF t
<1>11. Typed'
  BY <1>1, <1>2, <1>3 DEF Typed
<1>12. Signed'
  BY <1>1, <1>2, <1>3 DEF Typed, Signed
<1>13. (serial => OneAtATime)'
  BY <1>1, <1>2, <1>3 DEF Typed, OneAtATime, Fits
<1>14. (serial => Kept)'
  BY <1>1, <1>2, <1>3 DEF Typed, OneAtATime, Fits, Kept
<1> QED BY <1>11, <1>12, <1>13, <1>14

LEMMA NotifyOnCreateInv ==
    ASSUME IInv, NEW w \in Workers, NotifyOnCreate(w)
    PROVE  IInv'
<1> USE HiringAssumption, IdleTyped, NoRowTyped DEF IInv
<1> DEFINE skip == ~row.deleted /\ row.skips /\ row.status = "pending_branch"
           t == IF skip THEN [Idle EXCEPT !.op = "skip"] ELSE Idle
<1>1. t \in Tasks /\ t.op = IF skip THEN "skip" ELSE "idle"
  BY TasksTyped
<1>2. skip => row.status = "pending_branch"
  OBVIOUS
<1>3. /\ task' = [task EXCEPT ![w] = t]
      /\ task[w].op = "idle"
      /\ serial => \A v \in Workers : task[v].op = "idle"
      /\ job' = FALSE
      /\ UNCHANGED <<serial, row, employee, rounds>>
  BY DEF NotifyOnCreate, Free
<1> HIDE DEF t, skip
<1>11. Typed'
  BY <1>1, <1>2, <1>3 DEF Typed
<1>12. Signed'
  BY <1>1, <1>2, <1>3 DEF Typed, Signed
<1>13. (serial => OneAtATime)'
  BY <1>1, <1>2, <1>3 DEF Typed, OneAtATime, Fits
<1>14. (serial => Kept)'
  BY <1>1, <1>2, <1>3 DEF Typed, OneAtATime, Fits, Kept
<1> QED BY <1>11, <1>12, <1>13, <1>14

LEMMA BeginInv ==
    ASSUME IInv, NEW w \in Workers, NEW op \in Ops \ {"idle", "skip", "reread"},
           NEW a \in Officers \cup {Manager, Nobody}, NEW o \in Officers \cup {Nobody},
           NEW d \in Data, NEW s \in BOOLEAN, Begin(w, op, a, o, d, s)
    PROVE  IInv'
<1> USE HiringAssumption, IdleTyped, NoRowTyped DEF IInv
<1> DEFINE actor == IF op = "edit_and_approve" THEN a ELSE Nobody
           t == [op |-> op, row |-> Needed(op, row), actor |-> actor,
                 officer |-> o, data |-> d, skips |-> s]
<1>1. op \in Ops /\ row \in Rows
  BY DEF Typed
<1>2. actor \in Officers \cup {Manager, Nobody}
  OBVIOUS
<1>3. /\ t.op = op /\ t.officer = o /\ t.row = Needed(op, row)
      /\ Needed(op, row) \in Rows
      /\ op \in {"gm", "resubmit"} => t.row.round = row.round
      /\ op = "officer" => t.row.data = row.data
      /\ op \in {"edit", "edit_and_approve", "edit_returned"} => t.row = row
  BY <1>1, NeededTyped
<1>4. t \in Tasks
  BY <1>1, <1>2, <1>3 DEF Tasks
<1>5. /\ op = "first" => row.status = "pending_branch"
      /\ op = "gm" => row.status = "pending_gm" /\ o # Nobody
      /\ op = "assign" => row.status = "pending_officer" /\ o # Nobody
      /\ op = "officer" => row.status = "pending_officer" /\ row.data \in Complete
      /\ op \in {"edit", "edit_and_approve"} => row.status = "pending_officer"
      /\ op = "edit_returned" => row.status = "returned"
      /\ op = "resubmit" => row.status = "returned" /\ row.round < MaxRounds
      /\ op = "reject" => Rejectable(row)
      /\ op = "return" => Returnable(row)
      /\ op = "delete" => row.status # "none"
  BY DEF Begin, Allowed, MayAct, AtOfficer
<1>6. /\ task' = [task EXCEPT ![w] = t]
      /\ task[w].op = "idle"
      /\ serial => \A v \in Workers : task[v].op = "idle"
      /\ UNCHANGED <<serial, row, employee, job, rounds>>
  BY DEF Begin, Free
<1>7. op \notin {"idle", "skip", "reread"}
  OBVIOUS
<1> HIDE DEF t, actor
<1>11. Typed'
  BY <1>1, <1>3, <1>4, <1>5, <1>6, <1>7 DEF Typed
<1>12. Signed'
  BY <1>1, <1>3, <1>4, <1>5, <1>6, <1>7 DEF Typed, Signed
<1>13. (serial => OneAtATime)'
  BY <1>1, <1>3, <1>4, <1>5, <1>6, <1>7 DEF Typed, OneAtATime, Fits
<1>14. (serial => Kept)'
  BY <1>1, <1>3, <1>4, <1>5, <1>6, <1>7 DEF Typed, OneAtATime, Fits, Kept
<1> QED BY <1>11, <1>12, <1>13, <1>14

LEMMA StutterInv ==
    ASSUME IInv, UNCHANGED vars
    PROVE  IInv'
<1> USE DEF IInv, vars
<1>1. Typed'
  BY DEF Typed
<1>2. Signed'
  BY DEF Signed
<1>3. (serial => OneAtATime)'
  BY DEF OneAtATime, Fits, Rejectable, Returnable
<1>4. (serial => Kept)'
  BY DEF Kept
<1> QED BY <1>1, <1>2, <1>3, <1>4

LEMMA NextInv ==
    ASSUME IInv, Next
    PROVE  IInv'
<1>1. PICK w \in Workers : Start(w) \/ Commit(w)
  BY DEF Next
<1>2. CASE Commit(w)
  BY <1>2, FirstStageInv, GMApproveAndAssignInv, SaveOfficerAssignmentInv, OfficerApproveInv,
     RejectInv, ReturnForEditInv, DeleteInv, EditSaveInv, EditSaveThenApproveInv, RereadInv,
     EditReturnedInv, ResubmitInv
     DEF Commit
<1>3. CASE Start(w)
  <2>1. CASE \E d \in Data, s \in BOOLEAN : AddEmployee(w, d, s)
    BY <2>1, AddEmployeeInv
  <2>2. CASE NotifyOnCreate(w)
    BY <2>2, NotifyOnCreateInv
  <2>3. CASE \E op \in Ops \ {"idle", "skip", "reread"}, a \in Officers \cup {Manager, Nobody},
                o \in Officers \cup {Nobody}, d \in Data, s \in BOOLEAN : Begin(w, op, a, o, d, s)
    BY <2>3, BeginInv
  <2>4. {"first", "reject", "return", "delete", "resubmit", "gm", "assign", "officer", "edit",
         "edit_and_approve", "edit_returned"} = Ops \ {"idle", "skip", "reread"}
    BY DEF Ops
  <2>5. EmptyForm \in Data /\ FALSE \in BOOLEAN
    BY HiringAssumption
  <2> QED BY <1>3, <2>1, <2>2, <2>3, <2>4, <2>5 DEF Start
<1> QED BY <1>1, <1>2, <1>3

-----------------------------------------------------------------------------
(* The theorems.                                                           *)

\* The inductive invariant holds in every reachable state.
THEOREM Invariance == Spec => []IInv
<1>1. Init => IInv
  BY InitInv
<1>2. IInv /\ [Next]_vars => IInv'
  BY NextInv, StutterInv
<1> QED BY <1>1, <1>2, PTL DEF Spec

\* Every variable keeps its type, and with one handler at a time the request
\* has an officer exactly while the HR manager's stamp is on it.
THEOREM TypeCorrect == Spec => []TypeOK
<1>1. IInv => TypeOK
  BY DEF IInv, Typed, Kept, TypeOK
<1> QED BY <1>1, Invariance, PTL

\* Nobody is hired without the HR manager's approval or with data missing,
\* however the handlers interleave.
THEOREM OnlyApprovedHired == Spec => []NeverUnapproved
<1>1. IInv => NeverUnapproved
  BY DEF IInv, Signed, NeverUnapproved
<1> QED BY <1>1, Invariance, PTL

\* With one handler at a time the employee is the one the approved request
\* shows.
THEOREM EmployeeIsRequest == Spec => []EmployeeMatchesRequest
<1>1. IInv => EmployeeMatchesRequest
  BY DEF IInv, Kept, EmployeeMatchesRequest
<1> QED BY <1>1, Invariance, PTL

\* With one handler at a time a resubmitted request is approved anew.
THEOREM ApprovedAnew == Spec => []ApprovedThisRound
<1>1. IInv => ApprovedThisRound
  BY DEF IInv, Kept, ApprovedThisRound
<1> QED BY <1>1, Invariance, PTL

\* A request never replaces the employee it has created.
THEOREM OneEmployee == Spec => HiredOnce
<1>1. [Next]_vars => [employee # NoEmployee => employee' = employee]_vars
  <2> SUFFICES ASSUME Next, employee # NoEmployee
               PROVE  employee' = employee
    OBVIOUS
  <2>1. PICK w \in Workers : Start(w) \/ Commit(w)
    BY DEF Next
  <2>2. CASE Commit(w)
    BY <2>2 DEF Commit, FirstStage, GMApproveAndAssign, SaveOfficerAssignment, OfficerApprove,
       Hired, Reject, ReturnForEdit, Delete, EditSave, EditSaveThenApprove, Reread,
       EditReturned, Resubmit
  <2>3. CASE Start(w)
    BY <2>3 DEF Start, AddEmployee, NotifyOnCreate, Begin
  <2> QED BY <2>1, <2>2, <2>3
<1> QED BY <1>1, PTL DEF Spec, HiredOnce

\* With one handler at a time a rejection is final.
THEOREM RejectionIsFinal == Spec => RejectionKept
<1>1. IInv /\ [Next]_vars => [serial => Final]_vars
  <2> SUFFICES ASSUME IInv, Next, serial, row.status = "rejected"
               PROVE  row'.status = "rejected"
    BY DEF Final
  <2>1. row \in Rows /\ \A w \in Workers : Fits(task[w])
    BY DEF IInv, Typed, OneAtATime
  <2>2. PICK w \in Workers : Start(w) \/ Commit(w)
    BY DEF Next
  <2>3. CASE Commit(w)
    <3>1. task[w].op \notin {"skip", "first", "gm", "assign", "officer", "edit",
                             "edit_and_approve", "reread", "edit_returned", "resubmit",
                             "reject", "return"}
      BY <2>1 DEF Fits, Rejectable, Returnable, Pending
    <3>2. Delete(w)
      BY <2>3, <3>1 DEF Commit, FirstStage, GMApproveAndAssign, SaveOfficerAssignment,
         OfficerApprove, Reject, ReturnForEdit, EditSave, EditSaveThenApprove, Reread,
         EditReturned, Resubmit
    <3> QED BY <2>1, <3>2 DEF Delete, Saved, Rows
  <2>4. CASE Start(w)
    BY <2>4 DEF Start, AddEmployee, NotifyOnCreate, Begin
  <2> QED BY <2>2, <2>3, <2>4
<1> QED BY <1>1, Invariance, PTL DEF Spec, RejectionKept

=============================================================================
