------------------------ MODULE LoanInstallmentsProofs ------------------------
(***************************************************************************)
(* Proofs about LoanInstallments for every number of loans, installments   *)
(* and months.  First which run an installment belongs to, and when a loan *)
(* is PAID: amounts play no part in either, so the invariant says of a row *)
(* only that it has one.  Then the amounts: what was merged into an        *)
(* installment is still in it, and a loan's installments add up to it.     *)
(***************************************************************************)
EXTENDS LoanInstallments, SumsProofs

Statuses == {"none", "pending", "paid", "skipped"}

IsRow(r) ==
    /\ r = [status |-> r.status, amount |-> r.amount, month |-> r.month, run |-> r.run]
    /\ r.status \in Statuses
    /\ r.run \in Months \cup {NoMonth}

IsDeferral(d) ==
    /\ d = [id |-> d.id, mode |-> d.mode, target |-> d.target, from |-> d.from]
    /\ d.id \in Installments

\* The shape of the variables, amounts left aside.
Shapes ==
    /\ loan \in [Loans -> {"none", "active", "paid", "deleted"}]
    /\ run \in [Months -> {"absent", "draft", "locked"}]
    /\ inst = [i \in Installments |-> inst[i]]
    /\ line = [m \in Months |-> line[m]]
    /\ deferred = [m \in Months |-> deferred[m]]
    /\ \A i \in Installments : IsRow(inst[i])
    /\ \A m \in Months : Listed(m) \subseteq Installments
    /\ \A m \in Months : \A d \in deferred[m] : IsDeferral(d)

\* Installments exist as long as their loan does.
Issued == \A i \in Installments : inst[i].status = "none" <=> loan[LoanOf[i]] = "none"

\* What a row says of the run it is bound to.
Owned ==
    \A i \in Installments :
        /\ inst[i].status \in {"none", "pending"} => inst[i].run = NoMonth
        /\ inst[i].status = "paid" =>
              \E m \in Locked : inst[i].run = m /\ i \in Listed(m)
        /\ inst[i].status = "skipped" =>
              \E m \in Locked : /\ inst[i].run = m
                               /\ \E d \in deferred[m] : d.id = i /\ d.mode = "merged"

\* What a locked run says of its rows.
Kept ==
    \A m \in Locked :
        /\ \A i \in Listed(m) : inst[i].status = "paid" /\ inst[i].run = m
        /\ \A d \in deferred[m] :
              d.mode = "merged" => inst[d.id].status = "skipped" /\ inst[d.id].run = m

\* A run deducts or defers an installment, and carries nothing before it is
\* locked.
Drafts ==
    \A m \in Months :
        /\ Listed(m) \cap Postponed(m) = {}
        /\ run[m] # "locked" => \A d \in deferred[m] : d.mode = ""

\* The inductive invariant.
IInv == Shapes /\ Issued /\ Owned /\ Kept /\ Drafts /\ OneAMonth(inst) /\ LoanPaidWhenCollected

-----------------------------------------------------------------------------
(* Rows and deferrals.                                                     *)

\* A change of one field of a row leaves the others.
Bind(r, s, u) == [r EXCEPT !.status = s, !.run = u]
Move(r, month) == [r EXCEPT !.month = month]
Reset(d) == [d EXCEPT !.mode = "", !.target = {}, !.from = NoMonth]

LEMMA SetAmount ==
    ASSUME NEW r, IsRow(r), NEW v
    PROVE  LET x == [r EXCEPT !.amount = v] IN
           /\ IsRow(x) /\ x.status = r.status /\ x.month = r.month /\ x.run = r.run
           /\ x.amount = v
<1> DEFINE y == [status |-> r.status, amount |-> v, month |-> r.month, run |-> r.run]
<1>1. [r EXCEPT !.amount = v] = y
  BY DEF IsRow
<1>2. QED
  BY <1>1 DEF IsRow

LEMMA SetMonth ==
    ASSUME NEW r, IsRow(r), NEW v
    PROVE  LET x == Move(r, v) IN
           /\ IsRow(x) /\ x.status = r.status /\ x.month = v /\ x.run = r.run
           /\ x.amount = r.amount
<1> DEFINE y == [status |-> r.status, amount |-> r.amount, month |-> v, run |-> r.run]
<1>1. Move(r, v) = y
  BY DEF IsRow, Move
<1>2. QED
  BY <1>1 DEF IsRow

LEMMA SetBound ==
    ASSUME NEW r, IsRow(r), NEW s \in Statuses, NEW u \in Months \cup {NoMonth}
    PROVE  LET x == Bind(r, s, u) IN
           /\ IsRow(x) /\ x.status = s /\ x.month = r.month /\ x.run = u
           /\ x.amount = r.amount
<1> DEFINE R == [status : Statuses, amount : {r.amount}, month : {r.month},
                 run : Months \cup {NoMonth}]
           x == Bind(r, s, u)
<1>1. r \in R
  BY DEF IsRow
<1>2. x \in R /\ x.status = s /\ x.run = u
  BY <1>1 DEF Bind
<1>3. \A y \in R : IsRow(y) /\ y.month = r.month /\ y.amount = r.amount
  BY DEF IsRow
<1>4. QED
  BY <1>2, <1>3

LEMMA SetStatus ==
    ASSUME NEW r, IsRow(r), NEW s \in Statuses
    PROVE  LET x == [r EXCEPT !.status = s] IN
           /\ IsRow(x) /\ x.status = s /\ x.month = r.month /\ x.run = r.run
           /\ x.amount = r.amount
<1> DEFINE y == [status |-> s, amount |-> r.amount, month |-> r.month, run |-> r.run]
<1>1. [r EXCEPT !.status = s] = y
  BY DEF IsRow
<1>2. QED
  BY <1>1 DEF IsRow

\* The same of a deferral.
WithMode(d, mode) == [d EXCEPT !.mode = mode]
WithTarget(d, target) == [d EXCEPT !.target = target]
WithFrom(d, month) == [d EXCEPT !.from = month]

LEMMA DeferralFields ==
    ASSUME NEW d, IsDeferral(d), NEW v
    PROVE  /\ IsDeferral(WithMode(d, v)) /\ WithMode(d, v).id = d.id /\ WithMode(d, v).mode = v
           /\ IsDeferral(WithTarget(d, v)) /\ WithTarget(d, v).id = d.id
           /\ WithTarget(d, v).mode = d.mode /\ WithTarget(d, v).target = v
           /\ IsDeferral(WithFrom(d, v)) /\ WithFrom(d, v).id = d.id
           /\ WithFrom(d, v).mode = d.mode /\ WithFrom(d, v).target = d.target
           /\ WithFrom(d, v).from = v
<1>1. WithMode(d, v) = [id |-> d.id, mode |-> v, target |-> d.target, from |-> d.from]
  BY DEF IsDeferral, WithMode
<1>2. WithTarget(d, v) = [id |-> d.id, mode |-> d.mode, target |-> v, from |-> d.from]
  BY DEF IsDeferral, WithTarget
<1>3. WithFrom(d, v) = [id |-> d.id, mode |-> d.mode, target |-> d.target, from |-> v]
  BY DEF IsDeferral, WithFrom
<1>4. QED
  BY <1>1, <1>2, <1>3 DEF IsDeferral

LEMMA ResetFields ==
    ASSUME NEW d, IsDeferral(d), NEW mode, NEW target, NEW month
    PROVE  [d EXCEPT !.mode = mode, !.target = target, !.from = month] =
              [id |-> d.id, mode |-> mode, target |-> target, from |-> month]
<1> DEFINE x == WithMode(d, mode)
           y == WithTarget(x, target)
           z == WithFrom(y, month)
<1>1. z = [d EXCEPT !.mode = mode, !.target = target, !.from = month]
  BY DEF WithMode, WithTarget, WithFrom
<1>2. IsDeferral(x) /\ x.id = d.id /\ x.mode = mode
  BY DeferralFields
<1> HIDE DEF x
<1>3. IsDeferral(y) /\ y.id = d.id /\ y.mode = mode /\ y.target = target
  BY <1>2, DeferralFields
<1> HIDE DEF y
<1>4. IsDeferral(z) /\ z.id = d.id /\ z.mode = mode /\ z.target = target /\ z.from = month
  BY <1>3, DeferralFields
<1> HIDE DEF z
<1> QED BY <1>1, <1>4 DEF IsDeferral

\* What follows for runs and items when a step leaves runs and drafts alone.
LEMMA SameRuns ==
    ASSUME UNCHANGED <<run, line, deferred>>
    PROVE  Locked' = Locked
           /\ \A m \in Months : Listed(m)' = Listed(m) /\ Postponed(m)' = Postponed(m)
  BY DEF Locked, Listed, Postponed

\* Sets of records whose members have the same ids have the same set of ids.
LEMMA SameIds ==
    ASSUME NEW A, NEW B,
           \A e \in B : \E d \in A : e.id = d.id,
           \A d \in A : \E e \in B : e.id = d.id
    PROVE  {e.id : e \in B} = {d.id : d \in A}
  OBVIOUS

\* Build, Delete and Unlock leave or make deferrals that carry nothing; Lock
\* carries each one, merged exactly when the next month has an installment.
LEMMA Carrying ==
    ASSUME NEW d, IsDeferral(d), NEW m
    PROVE  /\ IsDeferral(Carry(d, m)) /\ Carry(d, m).id = d.id
           /\ Carry(d, m).mode = "merged" <=> NextOf(d.id, m) # {}
           /\ IsDeferral(Reset(d)) /\ Reset(d).id = d.id /\ Reset(d).mode = ""
<1>1. IsDeferral(Reset(d)) /\ Reset(d).id = d.id /\ Reset(d).mode = ""
  <2> DEFINE c == [id |-> d.id, mode |-> "", target |-> {}, from |-> NoMonth]
  <2>1. Reset(d) = c
    BY ResetFields DEF Reset
  <2>2. c.id = d.id /\ c.mode = "" /\ IsDeferral(c)
    BY DEF IsDeferral
  <2> HIDE DEF c
  <2> QED BY <2>1, <2>2
<1>2. CASE NextOf(d.id, m) = {}
  <2> DEFINE a == WithMode(d, "shifted")
             b == WithFrom(a, inst[d.id].month)
  <2>1. Carry(d, m) = b
    BY <1>2 DEF Carry, WithMode, WithFrom
  <2>2. IsDeferral(a) /\ a.id = d.id /\ a.mode = "shifted"
    BY DeferralFields
  <2>3. IsDeferral(b) /\ b.id = d.id /\ b.mode = "shifted"
    <3> HIDE DEF a
    <3> QED  BY <2>2, DeferralFields
  <2> HIDE DEF b
  <2>4. QED
    BY <1>1, <1>2, <2>1, <2>3
<1>3. CASE NextOf(d.id, m) # {}
  <2> DEFINE a == WithMode(d, "merged")
             b == WithTarget(a, NextOf(d.id, m))
  <2>1. Carry(d, m) = b
    BY <1>3 DEF Carry, WithMode, WithTarget
  <2>2. IsDeferral(a) /\ a.id = d.id /\ a.mode = "merged"
    BY DeferralFields
  <2>3. IsDeferral(b) /\ b.id = d.id /\ b.mode = "merged"
    <3> HIDE DEF a
    <3> QED  BY <2>2, DeferralFields
  <2> HIDE DEF b
  <2>4. QED
    BY <1>1, <1>3, <2>1, <2>3
<1>4. QED
  BY <1>2, <1>3

\* What a lock of m merges into installment i, and what was merged into it.
Given(i, m) == {k \in Postponed(m) : i \in NextOf(k, m)}
Taken(i, m) == {d.id : d \in {d \in deferred[m] : i \in d.target}}

\* The rows after a run was locked.
LEMMA CollectedRows ==
    ASSUME Shapes, NEW m \in Months, NEW i \in Installments
    PROVE  LET r == Collected(m)[i] IN
           /\ IsRow(r)
           /\ i \in Listed(m) => r.status = "paid" /\ r.run = m
           /\ i \in Postponed(m) \ Listed(m) /\ NextOf(i, m) # {} =>
                 r.status = "skipped" /\ r.run = m
           /\ i \notin Listed(m) /\ (i \in Postponed(m) => NextOf(i, m) = {}) =>
                 r.status = inst[i].status /\ r.run = inst[i].run
           /\ r.amount = IF i \in Listed(m) \cup Postponed(m) THEN inst[i].amount
                         ELSE inst[i].amount + Sum(Given(i, m))
           /\ r.month \in {inst[i].month, m + 1}
<1>0. IsRow(inst[i]) /\ m \in Months \cup {NoMonth} /\ "paid" \in Statuses /\ "skipped" \in Statuses
  BY DEF Shapes, Statuses
<1> DEFINE amount == inst[i].amount + Sum(Given(i, m))
<1>1. CASE i \in Listed(m)
  <2>1. Collected(m)[i] = Bind(inst[i], "paid", m)
    BY <1>1 DEF Collected, Bind
  <2>2. IsRow(Bind(inst[i], "paid", m))
        /\ Bind(inst[i], "paid", m).status = "paid"
        /\ Bind(inst[i], "paid", m).run = m
        /\ Bind(inst[i], "paid", m).amount = inst[i].amount
        /\ Bind(inst[i], "paid", m).month = inst[i].month
    BY <1>0, SetBound
  <2>3. QED
    BY <1>1, <2>1, <2>2
<1>2. CASE i \notin Listed(m) /\ i \in Postponed(m) /\ NextOf(i, m) = {}
  <2>1. Collected(m)[i] = Move(inst[i], m + 1)
    BY <1>2 DEF Collected, Move
  <2>2. QED
    BY <1>0, <1>2, <2>1, SetMonth
<1>3. CASE i \notin Listed(m) /\ i \in Postponed(m) /\ NextOf(i, m) # {}
  <2>1. Collected(m)[i] = Bind(inst[i], "skipped", m)
    BY <1>3 DEF Collected, Bind
  <2>2. IsRow(Bind(inst[i], "skipped", m))
        /\ Bind(inst[i], "skipped", m).status = "skipped"
        /\ Bind(inst[i], "skipped", m).run = m
        /\ Bind(inst[i], "skipped", m).amount = inst[i].amount
        /\ Bind(inst[i], "skipped", m).month = inst[i].month
    BY <1>0, SetBound
  <2>3. QED
    BY <1>3, <2>1, <2>2
<1>4. CASE i \notin Listed(m) /\ i \notin Postponed(m)
  <2>1. Collected(m)[i] = [inst[i] EXCEPT !.amount = amount]
    BY <1>4, <1>0 DEF Collected, Given
  <2> HIDE DEF amount
  <2>2. LET x == [inst[i] EXCEPT !.amount = amount] IN
        /\ IsRow(x) /\ x.status = inst[i].status /\ x.month = inst[i].month
        /\ x.run = inst[i].run /\ x.amount = amount
    BY <1>0, SetAmount
  <2>3. QED
    BY <1>4, <2>1, <2>2 DEF amount
<1>5. QED
  BY <1>1, <1>2, <1>3, <1>4

\* The rows after a run was reopened.
LEMMA RevertedRows ==
    ASSUME Shapes, NEW m \in Months, NEW i \in Installments
    PROVE  LET r == Reverted(m)[i] IN
           /\ IsRow(r)
           /\ inst[i].run = m => r.status = "pending" /\ r.run = NoMonth
           /\ inst[i].run # m => r.status = inst[i].status /\ r.run = inst[i].run
           /\ r.amount = inst[i].amount - Sum(Taken(i, m))
           /\ r.month = inst[i].month \/ \E d \in deferred[m] : r.month = d.from
<1> DEFINE back == {d \in deferred[m] : d.id = i /\ d.mode = "shifted"}
           amount == inst[i].amount - Sum(Taken(i, m))
           row == [inst[i] EXCEPT !.amount = amount]
<1>0. IsRow(inst[i]) /\ NoMonth \in Months \cup {NoMonth} /\ "pending" \in Statuses
  BY DEF Shapes, Statuses
<1>1. /\ IsRow(row) /\ row.status = inst[i].status /\ row.run = inst[i].run
      /\ row.month = inst[i].month /\ row.amount = inst[i].amount - Sum(Taken(i, m))
  <2> HIDE DEF amount
  <2>1. /\ IsRow(row) /\ row.status = inst[i].status /\ row.run = inst[i].run
        /\ row.month = inst[i].month /\ row.amount = amount
    BY <1>0, SetAmount
  <2> QED  BY <2>1 DEF amount
<1>2. Reverted(m)[i] = IF inst[i].run = m THEN Bind(row, "pending", NoMonth)
                       ELSE IF back # {} THEN Move(row, (CHOOSE d \in back : TRUE).from)
                       ELSE row
  BY <1>0 DEF Reverted, Bind, Move, Taken
<1>6. back # {} => \E e \in deferred[m] : (CHOOSE d \in back : TRUE).from = e.from
  OBVIOUS
<1> HIDE DEF row, back
<1>3. LET x == Bind(row, "pending", NoMonth) IN
      /\ IsRow(x) /\ x.status = "pending" /\ x.run = NoMonth
      /\ x.month = row.month /\ x.amount = row.amount
  BY <1>0, <1>1, SetBound
<1>4. LET x == Move(row, (CHOOSE d \in back : TRUE).from) IN
      /\ IsRow(x) /\ x.status = row.status /\ x.run = row.run
      /\ x.month = (CHOOSE d \in back : TRUE).from /\ x.amount = row.amount
  BY <1>1, SetMonth
<1>5. QED
  BY <1>1, <1>2, <1>3, <1>4, <1>6

-----------------------------------------------------------------------------
(* The initial state.                                                      *)

LEMMA InitInvariant == Init => IInv
<1> SUFFICES ASSUME Init PROVE IInv
  OBVIOUS
<1>1. Shapes
  <2>1. \A i \in Installments : IsRow(inst[i])
    BY DEF Init, IsRow, Statuses
  <2>2. QED
    BY <2>1 DEF Init, Shapes, Listed
<1>2. Issued /\ Owned
  BY LoanAssumption DEF Init, Issued, Owned
<1>3. Kept /\ Drafts
  BY DEF Init, Kept, Drafts, Listed, Postponed, Locked
<1>4. OneAMonth(inst)
  BY LoanAssumption DEF Init, OneAMonth
<1>5. LoanPaidWhenCollected
  BY DEF Init, LoanPaidWhenCollected
<1>6. QED
  BY <1>1, <1>2, <1>3, <1>4, <1>5 DEF IInv

-----------------------------------------------------------------------------
(* One lemma per action.                                                   *)

LEMMA IssueStep == ASSUME IInv, NEW l \in Loans, Issue(l) PROVE IInv'
<1>1. /\ loan[l] = "none" /\ loan' = [loan EXCEPT ![l] = "active"]
      /\ UNCHANGED <<run, line, deferred>>
  BY DEF Issue
<1>2. \A i \in Installments :
        /\ LoanOf[i] = l => inst[i].status = "none" /\ inst'[i] = [inst[i] EXCEPT !.status = "pending"]
        /\ LoanOf[i] # l => inst'[i] = inst[i]
  BY <1>1, LoanAssumption DEF Issue, IInv, Issued
<1>3. \A i \in Installments :
        /\ IsRow(inst'[i]) /\ inst'[i].month = inst[i].month /\ inst'[i].run = inst[i].run
        /\ inst'[i].status = IF LoanOf[i] = l THEN "pending" ELSE inst[i].status
  <2>1. \A i \in Installments : IsRow(inst[i])
    BY DEF IInv, Shapes
  <2>2. "pending" \in Statuses
    BY DEF Statuses
  <2>3. \A i \in Installments :
          LET x == [inst[i] EXCEPT !.status = "pending"] IN
          IsRow(x) /\ x.status = "pending" /\ x.month = inst[i].month /\ x.run = inst[i].run
    BY <2>1, <2>2, SetStatus
  <2>4. QED
    BY <1>2, <2>1, <2>3
<1>0. Locked' = Locked /\ \A m \in Months : Listed(m)' = Listed(m) /\ Postponed(m)' = Postponed(m)
  BY <1>1, SameRuns
<1>4. Shapes'
  BY <1>0, <1>1, <1>3 DEF Issue, IInv, Shapes
<1>5. Issued'
  BY <1>1, <1>3, LoanAssumption DEF IInv, Shapes, Issued
<1>21. \A i \in Installments : LoanOf[i] = l => inst[i].status = "none"
  BY <1>2
<1>6. Owned'
  <2> SUFFICES ASSUME NEW i \in Installments PROVE
        /\ inst'[i].status \in {"none", "pending"} => inst'[i].run = NoMonth
        /\ inst'[i].status = "paid" =>
              \E m \in Locked' : inst'[i].run = m /\ i \in Listed(m)'
        /\ inst'[i].status = "skipped" =>
              \E m \in Locked' : /\ inst'[i].run = m
                                /\ \E d \in deferred'[m] : d.id = i /\ d.mode = "merged"
    BY DEF Owned
  <2>1. Locked \subseteq Months
    BY DEF Locked
  <2>2. CASE LoanOf[i] = l
    BY <1>3, <1>21, <2>2 DEF IInv, Owned
  <2>3. CASE LoanOf[i] # l
    BY <1>0, <1>1, <1>3, <2>1, <2>3 DEF IInv, Owned
  <2>4. QED
    BY <2>2, <2>3
<1>10. Kept'
  <2>3. \A m \in Locked : /\ Listed(m) \subseteq Installments
                          /\ \A d \in deferred[m] : d.id \in Installments
    BY DEF IInv, Shapes, IsDeferral, Locked
  <2>1. \A m \in Locked : \A i \in Listed(m) : LoanOf[i] # l
    BY <1>2, <2>3 DEF IInv, Kept
  <2>2. \A m \in Locked : \A d \in deferred[m] : d.mode = "merged" => LoanOf[d.id] # l
    <3> SUFFICES ASSUME NEW m \in Locked, NEW d \in deferred[m], d.mode = "merged"
                 PROVE  LoanOf[d.id] # l
      OBVIOUS
    <3>1. d.id \in Installments /\ inst[d.id].status = "skipped"
      BY <2>3 DEF IInv, Kept
    <3>2. QED
      BY <1>21, <3>1
  <2> SUFFICES ASSUME NEW m \in Locked PROVE
        /\ \A i \in Listed(m) : inst'[i].status = "paid" /\ inst'[i].run = m
        /\ \A d \in deferred[m] :
              d.mode = "merged" => inst'[d.id].status = "skipped" /\ inst'[d.id].run = m
    <3>1. Locked \subseteq Months
      BY DEF Locked
    <3>2. QED
      BY <1>0, <1>1, <3>1 DEF Kept
  <2>4. \A i \in Listed(m) : inst'[i].status = "paid" /\ inst'[i].run = m
    BY <1>3, <2>1, <2>3 DEF IInv, Kept
  <2>5. \A d \in deferred[m] :
          d.mode = "merged" => inst'[d.id].status = "skipped" /\ inst'[d.id].run = m
    <3> SUFFICES ASSUME NEW d \in deferred[m], d.mode = "merged"
                 PROVE  inst'[d.id].status = "skipped" /\ inst'[d.id].run = m
      OBVIOUS
    <3>1. d.id \in Installments /\ inst[d.id].status = "skipped" /\ inst[d.id].run = m
      BY <2>3 DEF IInv, Kept
    <3>2. QED
      BY <1>3, <2>2, <3>1
  <2>6. QED
    BY <2>4, <2>5
<1>7. Drafts' /\ OneAMonth(inst)'
  BY <1>0, <1>1, <1>3 DEF IInv, Drafts, OneAMonth
<1>8. LoanPaidWhenCollected'
  <2> SUFFICES ASSUME NEW k \in Loans, loan'[k] \in {"active", "paid"}
               PROVE  loan'[k] = "paid" <=> PendingIn(k, inst') = {}
    BY DEF LoanPaidWhenCollected
  <2>1. CASE k = l
    <3>1. PICK i \in Installments : LoanOf[i] = l
      BY LoanAssumption
    <3>2. i \in PendingIn(k, inst')
      BY <1>3, <2>1, <3>1 DEF PendingIn
    <3>3. QED
      BY <1>1, <2>1, <3>2 DEF IInv, Shapes
  <2>2. CASE k # l
    <3>1. PendingIn(k, inst') = PendingIn(k, inst)
      BY <1>3, <2>2 DEF PendingIn
    <3>2. loan'[k] = loan[k]
      BY <1>1, <2>2 DEF IInv, Shapes
    <3>3. QED
      BY <3>1, <3>2 DEF IInv, LoanPaidWhenCollected
  <2>3. QED
    BY <2>1, <2>2
<1>9. QED
  BY <1>4, <1>5, <1>6, <1>7, <1>8, <1>10 DEF IInv

LEMMA DeleteLoanStep == ASSUME IInv, NEW l \in Loans, DeleteLoan(l) PROVE IInv'
<1>1. /\ loan[l] \in {"active", "paid"} /\ loan' = [loan EXCEPT ![l] = "deleted"]
      /\ UNCHANGED <<inst, run, line, deferred>>
  BY DEF DeleteLoan
<1>2. Locked' = Locked /\ \A m \in Months : Listed(m)' = Listed(m) /\ Postponed(m)' = Postponed(m)
  BY <1>1, SameRuns
<1>3. Shapes'
  BY <1>1, <1>2 DEF IInv, Shapes
<1>8. Locked \subseteq Months
  BY DEF Locked
<1>9. Owned' /\ Kept'
  BY <1>1, <1>2, <1>8 DEF IInv, Owned, Kept
<1>4. Drafts' /\ OneAMonth(inst)'
  BY <1>1, <1>2 DEF IInv, Drafts, OneAMonth
<1>5. Issued'
  BY <1>1, LoanAssumption DEF IInv, Shapes, Issued
<1>6. LoanPaidWhenCollected'
  BY <1>1 DEF IInv, Shapes, LoanPaidWhenCollected, PendingIn
<1>7. QED
  BY <1>3, <1>4, <1>5, <1>6, <1>9 DEF IInv

\* A draft concerns no locked run, and lists an installment once.
LEMMA BuildStep ==
    ASSUME IInv, NEW m \in Months, NEW s \in Salaries, Build(m, s) PROVE IInv'
<1>1. /\ run[m] # "locked" /\ run' = [run EXCEPT ![m] = "draft"]
      /\ UNCHANGED <<loan, inst>>
      /\ \A n \in Months \ {m} : line'[n] = line[n] /\ deferred'[n] = deferred[n]
  BY DEF Build, IInv, Shapes
<1>2. Locked' = Locked /\ m \notin Locked
  BY <1>1 DEF Locked, IInv, Shapes
<1>3. /\ line'[m] = {[id |-> i, amount |-> inst[i].amount] : i \in Included(m, s)}
      /\ deferred'[m] = {[id |-> i, mode |-> "", target |-> {}, from |-> NoMonth] :
                            i \in Due(m) \ Included(m, s)}
  BY DEF Build, IInv, Shapes
<1>4. Included(m, s) \subseteq Installments /\ Due(m) \subseteq Installments
  BY DEF Included, Due
<1> DEFINE Item(i) == [id |-> i, amount |-> inst[i].amount]
           Left0(i) == [id |-> i, mode |-> "", target |-> {}, from |-> NoMonth]
<1>5. Listed(m)' = Included(m, s)
  <2>1. \A i : Item(i).id = i
    OBVIOUS
  <2>2. line'[m] = {Item(i) : i \in Included(m, s)}
    BY <1>3
  <2> HIDE DEF Item
  <2>3. QED
    BY <2>1, <2>2 DEF Listed
<1>14. \A i : Left0(i).id = i /\ Left0(i).mode = "" /\ (i \in Installments => IsDeferral(Left0(i)))
  BY DEF IsDeferral
<1>15. deferred'[m] = {Left0(i) : i \in Due(m) \ Included(m, s)}
  BY <1>3
<1> HIDE DEF Item, Left0
<1>16. Postponed(m)' = Due(m) \ Included(m, s)
  <2>1. \A i : Left0(i).id = i
    BY <1>14
  <2>2. QED
    BY <1>15, <2>1 DEF Postponed
<1>6. \A d \in deferred'[m] : IsDeferral(d) /\ d.mode = ""
  BY <1>4, <1>14, <1>15
<1>7. \A n \in Months \ {m} : Listed(n)' = Listed(n) /\ Postponed(n)' = Postponed(n)
  BY <1>1 DEF Listed, Postponed
<1>8. Shapes'
  <2>1. line' = [n \in Months |-> line'[n]] /\ deferred' = [n \in Months |-> deferred'[n]]
    BY DEF Build, IInv, Shapes
  <2>2. \A n \in Months : Listed(n)' \subseteq Installments
    BY <1>4, <1>5, <1>7 DEF IInv, Shapes
  <2>3. \A n \in Months : \A d \in deferred'[n] : IsDeferral(d)
    BY <1>1, <1>6 DEF IInv, Shapes
  <2>4. QED
    BY <1>1, <2>1, <2>2, <2>3 DEF IInv, Shapes
<1>9. Issued' /\ OneAMonth(inst)' /\ LoanPaidWhenCollected'
  BY <1>1 DEF IInv, Issued, OneAMonth, LoanPaidWhenCollected, PendingIn
<1>10. Owned'
  BY <1>1, <1>2, <1>7 DEF IInv, Owned, Locked
<1>11. Kept'
  BY <1>1, <1>2, <1>7 DEF IInv, Kept, Locked
<1>12. Drafts'
  <2>1. Listed(m)' \cap Postponed(m)' = {}
    BY <1>5, <1>16
  <2>2. \A n \in Months \ {m} : run'[n] = run[n]
    BY <1>1 DEF IInv, Shapes
  <2>3. QED
    BY <1>1, <1>6, <1>7, <2>1, <2>2 DEF IInv, Drafts
<1>13. QED
  BY <1>8, <1>9, <1>10, <1>11, <1>12 DEF IInv

\* Nothing is bound to a draft.
LEMMA DeleteStep == ASSUME IInv, NEW m \in Months, Delete(m) PROVE IInv'
<1>1. /\ run[m] = "draft" /\ run' = [run EXCEPT ![m] = "absent"] /\ UNCHANGED loan
      /\ line'[m] = {} /\ deferred'[m] = {}
      /\ \A n \in Months \ {m} : line'[n] = line[n] /\ deferred'[n] = deferred[n]
  BY DEF Delete, IInv, Shapes
<1>2. Locked' = Locked /\ m \notin Locked
  BY <1>1 DEF Locked, IInv, Shapes
<1>3. \A i \in Installments : inst[i].run # m
  BY <1>2 DEF IInv, Owned, Shapes, IsRow, Statuses, NoMonth, Months
<1>4. inst' = inst
  BY <1>3 DEF Delete, IInv, Shapes
<1>5. Listed(m)' = {} /\ Postponed(m)' = {}
  BY <1>1 DEF Listed, Postponed
<1>6. \A n \in Months \ {m} : Listed(n)' = Listed(n) /\ Postponed(n)' = Postponed(n)
  BY <1>1 DEF Listed, Postponed
<1>7. Shapes'
  <2>1. line' = [n \in Months |-> line'[n]] /\ deferred' = [n \in Months |-> deferred'[n]]
    BY DEF Delete, IInv, Shapes
  <2>2. QED
    BY <1>1, <1>4, <1>5, <1>6, <2>1 DEF IInv, Shapes
<1>8. Issued' /\ OneAMonth(inst)' /\ LoanPaidWhenCollected'
  BY <1>1, <1>4 DEF IInv, Issued, OneAMonth, LoanPaidWhenCollected, PendingIn
<1>9. Owned'
  BY <1>1, <1>2, <1>4, <1>6 DEF IInv, Owned, Locked
<1>10. Kept'
  BY <1>1, <1>2, <1>4, <1>6 DEF IInv, Kept, Locked
<1>11. Drafts'
  BY <1>1, <1>5, <1>6 DEF IInv, Shapes, Drafts
<1>12. QED
  BY <1>7, <1>8, <1>9, <1>10, <1>11 DEF IInv

\* Locking binds what the run lists and merges; the row a deferred item is
\* merged into stays pending, so that no loan is emptied by a deferral alone.
LEMMA LockStep == ASSUME IInv, NEW m \in Months, Lock(m) PROVE IInv'
<1>1. /\ run[m] = "draft" /\ run' = [run EXCEPT ![m] = "locked"] /\ inst' = Collected(m)
      /\ line' = line /\ OneAMonth(inst')
      /\ loan' = [l \in Loans |-> IF Closed(l, m) THEN "paid" ELSE loan[l]]
      /\ \A i \in Listed(m) \cup Postponed(m) : inst[i].status = "pending" /\ inst[i].run = NoMonth
      /\ \A i \in Postponed(m) : \A j \in NextOf(i, m) :
            inst[j].status = "pending" /\ j \notin Listed(m)
  BY DEF Lock, Open, Mergeable
<1>2. /\ deferred'[m] = {Carry(d, m) : d \in deferred[m]}
      /\ \A n \in Months \ {m} : deferred'[n] = deferred[n]
      /\ deferred' = [n \in Months |-> deferred'[n]]
  BY DEF Lock, IInv, Shapes
<1>3. Locked' = Locked \cup {m} /\ m \notin Locked /\ Locked \subseteq Months
  BY <1>1 DEF Locked, IInv, Shapes
<1>4. \A d \in deferred[m] : /\ IsDeferral(Carry(d, m))
                             /\ Carry(d, m).id = d.id
  BY Carrying DEF IInv, Shapes
<1>21. \A d \in deferred[m] : Carry(d, m).mode = "merged" => NextOf(d.id, m) # {}
  BY Carrying DEF IInv, Shapes
<1>22. \A d \in deferred[m] : NextOf(d.id, m) # {} => Carry(d, m).mode = "merged"
  BY Carrying DEF IInv, Shapes
<1>5. /\ \A n \in Months : Listed(n)' = Listed(n)
      /\ \A n \in Months \ {m} : Postponed(n)' = Postponed(n)
  BY <1>1, <1>2 DEF Listed, Postponed
<1>20. /\ \A e \in deferred'[m] : \E d \in deferred[m] : e = Carry(d, m)
       /\ \A d \in deferred[m] : Carry(d, m) \in deferred'[m]
  BY <1>2
<1>6. Postponed(m)' = Postponed(m)
  <2>1. \A e \in deferred'[m] : \E d \in deferred[m] : e.id = d.id
    BY <1>4, <1>20
  <2>2. \A d \in deferred[m] : \E e \in deferred'[m] : e.id = d.id
    BY <1>4, <1>20
  <2>3. {e.id : e \in deferred'[m]} = {d.id : d \in deferred[m]}
    BY <2>1, <2>2, SameIds
  <2>4. QED
    BY <2>3 DEF Postponed
<1>7. Listed(m) \cap Postponed(m) = {}
  BY DEF IInv, Drafts
<1>8. Listed(m) \subseteq Installments /\ Postponed(m) \subseteq Installments
  BY DEF IInv, Shapes, Postponed, IsDeferral
<1>9. \A i \in Installments :
        /\ IsRow(inst'[i])
        /\ i \in Listed(m) => inst'[i].status = "paid" /\ inst'[i].run = m
        /\ i \in Postponed(m) /\ NextOf(i, m) # {} =>
              inst'[i].status = "skipped" /\ inst'[i].run = m
        /\ i \notin Listed(m) /\ (i \in Postponed(m) => NextOf(i, m) = {}) =>
              inst'[i].status = inst[i].status /\ inst'[i].run = inst[i].run
  BY <1>1, <1>7, CollectedRows DEF IInv
\* Who is bound to a locked run is not pending, so it is left alone.
<1>10. \A i \in Installments : inst[i].status # "pending" =>
         inst'[i].status = inst[i].status /\ inst'[i].run = inst[i].run
  BY <1>1, <1>9
<1>11. Shapes'
  <2>1. inst' = [i \in Installments |-> inst'[i]]
    BY <1>1 DEF Collected
  <2>2. loan' \in [Loans -> {"none", "active", "paid", "deleted"}]
    BY <1>1 DEF IInv, Shapes
  <2>3. \A n \in Months : \A d \in deferred'[n] : IsDeferral(d)
    <3>1. \A e \in deferred'[m] : IsDeferral(e)
      BY <1>4, <1>20
    <3>2. \A n \in Months \ {m} : \A d \in deferred'[n] : IsDeferral(d)
      <4>1. \A n \in Months : \A d \in deferred[n] : IsDeferral(d)
        BY DEF IInv, Shapes
      <4>2. \A n \in Months \ {m} : deferred'[n] = deferred[n]
        BY <1>2
      <4>3. QED
        BY <4>1, <4>2
    <3>3. QED
      BY <3>1, <3>2
  <2>4. \A i \in Installments : IsRow(inst'[i])
    BY <1>9
  <2>5. \A n \in Months : Listed(n)' \subseteq Installments
    BY <1>5 DEF IInv, Shapes
  <2>6. run' \in [Months -> {"absent", "draft", "locked"}] /\ line' = [n \in Months |-> line'[n]]
    BY <1>1 DEF IInv, Shapes
  <2>7. QED
    BY <1>2, <2>1, <2>2, <2>3, <2>4, <2>5, <2>6 DEF Shapes
<1>12. \A l \in Loans : loan'[l] = "none" <=> loan[l] = "none"
  BY <1>1 DEF Closed
<1>13. Issued'
  <2>1. \A i \in Installments : inst'[i].status = "none" <=> inst[i].status = "none"
    BY <1>1, <1>9, <1>10
  <2>2. QED
    BY <1>12, <2>1, LoanAssumption DEF IInv, Issued
<1>14. Owned'
  <2> SUFFICES ASSUME NEW i \in Installments PROVE
        /\ inst'[i].status \in {"none", "pending"} => inst'[i].run = NoMonth
        /\ inst'[i].status = "paid" =>
              \E n \in Locked' : inst'[i].run = n /\ i \in Listed(n)'
        /\ inst'[i].status = "skipped" =>
              \E n \in Locked' : /\ inst'[i].run = n
                                /\ \E d \in deferred'[n] : d.id = i /\ d.mode = "merged"
    BY DEF Owned
  <2>1. CASE i \in Listed(m)
    BY <1>3, <1>5, <1>9, <2>1
  <2>2. CASE i \in Postponed(m) /\ NextOf(i, m) # {}
    <3>1. PICK d \in deferred[m] : d.id = i
      BY <2>2 DEF Postponed
    <3>2. Carry(d, m) \in deferred'[m] /\ Carry(d, m).id = i /\ Carry(d, m).mode = "merged"
      BY <1>4, <1>20, <1>22, <2>2, <3>1
    <3>3. QED
      BY <1>3, <1>9, <2>2, <3>2
  <2>3. CASE i \notin Listed(m) /\ (i \in Postponed(m) => NextOf(i, m) = {})
    <3>1. inst'[i].status = inst[i].status /\ inst'[i].run = inst[i].run
      BY <1>9, <2>3
    <3>2. \A n \in Locked : n \in Locked' /\ Listed(n)' = Listed(n) /\ deferred'[n] = deferred[n]
      BY <1>2, <1>3, <1>5
    <3>3. QED
      BY <3>1, <3>2 DEF IInv, Owned
  <2>4. QED
    BY <2>1, <2>2, <2>3
<1>15. Kept'
  <2> SUFFICES ASSUME NEW n \in Locked' PROVE
        /\ \A i \in Listed(n) : inst'[i].status = "paid" /\ inst'[i].run = n
        /\ \A d \in deferred'[n] :
              d.mode = "merged" => inst'[d.id].status = "skipped" /\ inst'[d.id].run = n
    BY <1>3, <1>5 DEF Kept
  <2>1. CASE n = m
    <3>1. ASSUME NEW d \in deferred[m], Carry(d, m).mode = "merged"
          PROVE  inst'[Carry(d, m).id].status = "skipped" /\ inst'[Carry(d, m).id].run = m
      <4>1. d.id \in Postponed(m) /\ NextOf(d.id, m) # {} /\ Carry(d, m).id = d.id
        BY <1>4, <1>21, <3>1 DEF Postponed
      <4>2. QED
        BY <1>8, <1>9, <4>1
    <3>2. \A e \in deferred'[m] : e.mode = "merged" =>
            inst'[e.id].status = "skipped" /\ inst'[e.id].run = m
      BY <1>20, <3>1
    <3>3. \A i \in Listed(m) : inst'[i].status = "paid" /\ inst'[i].run = m
      BY <1>8, <1>9
    <3>4. QED
      BY <2>1, <3>2, <3>3
  <2>2. CASE n # m
    <3>1. n \in Locked /\ deferred'[n] = deferred[n]
      BY <1>2, <1>3, <2>2
    <3>2. \A i \in Listed(n) : i \in Installments /\ inst[i].status = "paid" /\ inst[i].run = n
      BY <1>3, <3>1 DEF IInv, Kept, Shapes
    <3>3. \A d \in deferred[n] : d.mode = "merged" =>
            d.id \in Installments /\ inst[d.id].status = "skipped" /\ inst[d.id].run = n
      BY <1>3, <3>1 DEF IInv, Kept, Shapes, IsDeferral
    <3>4. QED
      BY <1>10, <3>1, <3>2, <3>3
  <2>3. QED
    BY <2>1, <2>2
<1>16. Drafts'
  <2>1. \A n \in Months : Listed(n)' \cap Postponed(n)' = {}
    BY <1>5, <1>6 DEF IInv, Drafts
  <2>2. \A n \in Months : run'[n] # "locked" => n # m /\ run[n] # "locked"
    BY <1>1 DEF IInv, Shapes
  <2>3. QED
    BY <1>2, <2>1, <2>2 DEF IInv, Drafts
<1>17. LoanPaidWhenCollected'
  <2> SUFFICES ASSUME NEW l \in Loans, loan'[l] \in {"active", "paid"}
               PROVE  loan'[l] = "paid" <=> PendingIn(l, inst') = {}
    BY DEF LoanPaidWhenCollected
  <2>1. /\ loan'[l] = IF Closed(l, m) THEN "paid" ELSE loan[l]
        /\ loan[l] \in {"active", "paid"}
    BY <1>1 DEF Closed
  <2>2. loan[l] = "paid" <=> PendingIn(l, inst) = {}
    BY <2>1 DEF IInv, LoanPaidWhenCollected
  <2>3. PendingIn(l, inst') \subseteq PendingIn(l, inst)
    <3>1. \A i \in Installments : inst'[i].status = "pending" => inst[i].status = "pending"
      BY <1>1, <1>9
    <3>2. QED
      BY <3>1 DEF PendingIn
  <2>4. ASSUME PendingIn(l, inst) # {}, PendingIn(l, inst') = {}
        PROVE  \E i \in Listed(m) : LoanOf[i] = l
    <3>1. PICK i \in Installments : LoanOf[i] = l /\ inst[i].status = "pending"
      BY <2>4 DEF PendingIn
    <3>2. SUFFICES ASSUME i \notin Listed(m) PROVE FALSE
      BY <3>1
    <3>3. i \in Postponed(m) /\ NextOf(i, m) # {}
      BY <1>9, <2>4, <3>1, <3>2 DEF PendingIn
    <3>4. PICK j \in Installments : j \in NextOf(i, m)
      BY <3>3 DEF NextOf
    <3>5. /\ LoanOf[j] = l /\ inst[j].month = m + 1
          /\ inst[j].status = "pending" /\ j \notin Listed(m)
      BY <1>1, <3>1, <3>3, <3>4 DEF NextOf
    <3>6. NextOf(j, m) = {}
      BY <3>5 DEF NextOf, IInv, OneAMonth
    <3>7. inst'[j].status = "pending"
      BY <1>9, <3>5, <3>6
    <3>8. QED
      BY <2>4, <3>5, <3>7 DEF PendingIn
  <2>5. CASE PendingIn(l, inst') = {}
    <3>1. CASE loan[l] = "paid"
      BY <2>1, <2>5, <3>1
    <3>2. CASE loan[l] = "active"
      <4>1. \E i \in Listed(m) : LoanOf[i] = l
        BY <2>2, <2>4, <2>5, <3>2
      <4>2. Closed(l, m)
        BY <1>1, <2>5, <3>2, <4>1 DEF Closed
      <4>3. QED
        BY <2>1, <2>5, <4>2
    <3>3. QED
      BY <2>1, <3>1, <3>2
  <2>6. CASE PendingIn(l, inst') # {}
    <3>1. ~ Closed(l, m)
      BY <1>1, <2>6 DEF Closed
    <3>2. loan[l] # "paid"
      BY <2>2, <2>3, <2>6
    <3>3. QED
      BY <2>1, <2>6, <3>1, <3>2
  <2>7. QED
    BY <2>5, <2>6
<1>18. QED
  BY <1>1, <1>11, <1>13, <1>14, <1>15, <1>16, <1>17 DEF IInv

\* Reopening a run frees exactly what was bound to it.
LEMMA UnlockStep == ASSUME IInv, NEW m \in Months, Unlock(m) PROVE IInv'
<1>1. /\ run[m] = "locked" /\ run' = [run EXCEPT ![m] = "draft"] /\ inst' = Reverted(m)
      /\ line' = line /\ OneAMonth(inst')
      /\ loan' = [l \in Loans |->
                    IF loan[l] = "paid" /\ PendingIn(l, inst') # {} THEN "active" ELSE loan[l]]
  BY DEF Unlock
<1>2. /\ deferred'[m] = {Reset(d) : d \in deferred[m]}
      /\ \A n \in Months \ {m} : deferred'[n] = deferred[n]
      /\ deferred' = [n \in Months |-> deferred'[n]]
  BY DEF Unlock, IInv, Shapes, Reset
<1>3. Locked' = Locked \ {m} /\ m \in Locked /\ Locked \subseteq Months
  BY <1>1 DEF Locked, IInv, Shapes
<1>4. \A d \in deferred[m] : /\ IsDeferral(Reset(d)) /\ Reset(d).id = d.id
                              /\ Reset(d).mode = ""
  BY Carrying DEF IInv, Shapes
<1>5. /\ \A n \in Months : Listed(n)' = Listed(n)
      /\ \A n \in Months \ {m} : Postponed(n)' = Postponed(n)
  BY <1>1, <1>2 DEF Listed, Postponed
<1>20. /\ \A e \in deferred'[m] : \E d \in deferred[m] : e = Reset(d)
       /\ \A d \in deferred[m] : Reset(d) \in deferred'[m]
  BY <1>2
<1>6. Postponed(m)' = Postponed(m)
  <2>1. \A e \in deferred'[m] : \E d \in deferred[m] : e.id = d.id
    BY <1>4, <1>20
  <2>2. \A d \in deferred[m] : \E e \in deferred'[m] : e.id = d.id
    BY <1>4, <1>20
  <2>3. {e.id : e \in deferred'[m]} = {d.id : d \in deferred[m]}
    BY <2>1, <2>2, SameIds
  <2>4. QED
    BY <2>3 DEF Postponed
<1>9. \A i \in Installments :
        /\ IsRow(inst'[i])
        /\ inst[i].run = m => inst'[i].status = "pending" /\ inst'[i].run = NoMonth
        /\ inst[i].run # m => inst'[i].status = inst[i].status /\ inst'[i].run = inst[i].run
  BY <1>1, RevertedRows DEF IInv
<1>10. \A i \in Installments : inst[i].run = m => inst[i].status \in {"paid", "skipped"}
  <2>1. m # NoMonth
    BY DEF Months, NoMonth
  <2>2. QED
    BY <2>1 DEF IInv, Owned, Shapes, IsRow, Statuses
<1>11. Shapes'
  <2>1. inst' = [i \in Installments |-> inst'[i]]
    BY <1>1 DEF Reverted
  <2>2. loan' \in [Loans -> {"none", "active", "paid", "deleted"}]
    BY <1>1 DEF IInv, Shapes
  <2>3. \A n \in Months : \A d \in deferred'[n] : IsDeferral(d)
    <3>1. \A e \in deferred'[m] : IsDeferral(e)
      BY <1>4, <1>20
    <3>2. \A n \in Months \ {m} : \A d \in deferred'[n] : IsDeferral(d)
      <4>1. \A n \in Months : \A d \in deferred[n] : IsDeferral(d)
        BY DEF IInv, Shapes
      <4>2. \A n \in Months \ {m} : deferred'[n] = deferred[n]
        BY <1>2
      <4>3. QED
        BY <4>1, <4>2
    <3>3. QED
      BY <3>1, <3>2
  <2>4. \A i \in Installments : IsRow(inst'[i])
    BY <1>9
  <2>5. \A n \in Months : Listed(n)' \subseteq Installments
    BY <1>5 DEF IInv, Shapes
  <2>6. run' \in [Months -> {"absent", "draft", "locked"}] /\ line' = [n \in Months |-> line'[n]]
    BY <1>1 DEF IInv, Shapes
  <2>7. QED
    BY <1>2, <2>1, <2>2, <2>3, <2>4, <2>5, <2>6 DEF Shapes
<1>13. Issued'
  <2>1. \A i \in Installments : inst'[i].status = "none" <=> inst[i].status = "none"
    BY <1>9, <1>10
  <2>2. \A l \in Loans : loan'[l] = "none" <=> loan[l] = "none"
    BY <1>1
  <2>3. QED
    BY <2>1, <2>2, LoanAssumption DEF IInv, Issued
<1>14. Owned'
  <2> SUFFICES ASSUME NEW i \in Installments PROVE
        /\ inst'[i].status \in {"none", "pending"} => inst'[i].run = NoMonth
        /\ inst'[i].status = "paid" =>
              \E n \in Locked' : inst'[i].run = n /\ i \in Listed(n)'
        /\ inst'[i].status = "skipped" =>
              \E n \in Locked' : /\ inst'[i].run = n
                                /\ \E d \in deferred'[n] : d.id = i /\ d.mode = "merged"
    BY DEF Owned
  <2>1. CASE inst[i].run = m
    BY <1>9, <2>1
  <2>2. CASE inst[i].run # m
    <3>1. inst'[i].status = inst[i].status /\ inst'[i].run = inst[i].run
      BY <1>9, <2>2
    <3>2. \A n \in Locked \ {m} :
            n \in Locked' /\ Listed(n)' = Listed(n) /\ deferred'[n] = deferred[n]
      BY <1>2, <1>3, <1>5
    <3>3. QED
      BY <2>2, <3>1, <3>2 DEF IInv, Owned
  <2>3. QED
    BY <2>1, <2>2
<1>15. Kept'
  <2> SUFFICES ASSUME NEW n \in Locked' PROVE
        /\ \A i \in Listed(n) : inst'[i].status = "paid" /\ inst'[i].run = n
        /\ \A d \in deferred'[n] :
              d.mode = "merged" => inst'[d.id].status = "skipped" /\ inst'[d.id].run = n
    BY <1>3, <1>5 DEF Kept
  <2>1. n \in Locked /\ n # m /\ n \in Months /\ deferred'[n] = deferred[n]
    BY <1>2, <1>3
  <2>2. \A i \in Listed(n) : i \in Installments /\ inst[i].status = "paid" /\ inst[i].run = n
    BY <2>1 DEF IInv, Kept, Shapes
  <2>3. \A d \in deferred[n] : d.mode = "merged" =>
          d.id \in Installments /\ inst[d.id].status = "skipped" /\ inst[d.id].run = n
    BY <2>1 DEF IInv, Kept, Shapes, IsDeferral
  <2>4. QED
    BY <1>9, <2>1, <2>2, <2>3
<1>16. Drafts'
  <2>1. \A n \in Months : Listed(n)' \cap Postponed(n)' = {}
    BY <1>5, <1>6 DEF IInv, Drafts
  <2>2. \A n \in Months \ {m} : run'[n] = run[n]
    BY <1>1 DEF IInv, Shapes
  <2>3. \A d \in deferred'[m] : d.mode = ""
    BY <1>2, <1>4
  <2>4. QED
    BY <1>2, <2>1, <2>2, <2>3 DEF IInv, Drafts
<1>17. LoanPaidWhenCollected'
  <2> SUFFICES ASSUME NEW l \in Loans, loan'[l] \in {"active", "paid"}
               PROVE  loan'[l] = "paid" <=> PendingIn(l, inst') = {}
    BY DEF LoanPaidWhenCollected
  <2>1. /\ loan'[l] = IF loan[l] = "paid" /\ PendingIn(l, inst') # {} THEN "active" ELSE loan[l]
        /\ loan[l] \in {"active", "paid"}
    BY <1>1
  <2>2. loan[l] = "paid" <=> PendingIn(l, inst) = {}
    BY <2>1 DEF IInv, LoanPaidWhenCollected
  <2>3. PendingIn(l, inst) \subseteq PendingIn(l, inst')
    <3>1. \A i \in Installments : inst[i].status = "pending" => inst'[i].status = "pending"
      BY <1>9
    <3>2. QED
      BY <3>1 DEF PendingIn
  <2>4. QED
    BY <2>1, <2>2, <2>3
<1>18. QED
  BY <1>1, <1>11, <1>13, <1>14, <1>15, <1>16, <1>17 DEF IInv

-----------------------------------------------------------------------------
\* A step that changes nothing.
LEMMA StutterStep == ASSUME IInv, UNCHANGED vars PROVE IInv'
<1>1. UNCHANGED <<loan, inst, run, line, deferred, history>>
  BY DEF vars
<1>2. Locked' = Locked /\ \A m \in Months : Listed(m)' = Listed(m) /\ Postponed(m)' = Postponed(m)
  BY <1>1, SameRuns
<1>3. Locked \subseteq Months
  BY DEF Locked
<1>4. Shapes'
  BY <1>1, <1>2 DEF IInv, Shapes
<1>5. Owned' /\ Kept'
  BY <1>1, <1>2, <1>3 DEF IInv, Owned, Kept
<1>6. Drafts' /\ OneAMonth(inst)' /\ Issued'
  BY <1>1, <1>2 DEF IInv, Drafts, OneAMonth, Issued
<1>7. LoanPaidWhenCollected'
  BY <1>1 DEF IInv, LoanPaidWhenCollected, PendingIn
<1>8. QED
  BY <1>1, <1>4, <1>5, <1>6, <1>7 DEF IInv

\* The inductive invariant, for any loans, installments, months and salaries:
\* rows, runs and deferrals agree on who is bound to what.
THEOREM Invariance == Spec => []IInv
<1>1. IInv /\ [Next]_vars => IInv'
  <2> SUFFICES ASSUME IInv, [Next]_vars PROVE IInv'
    OBVIOUS
  <2>1. CASE UNCHANGED vars
    BY <2>1, StutterStep
  <2>2. ASSUME NEW l \in Loans, Issue(l) \/ DeleteLoan(l) PROVE IInv'
    BY <2>2, IssueStep, DeleteLoanStep
  <2>3. ASSUME NEW m \in Months, NEW s \in Salaries, Build(m, s) PROVE IInv'
    BY <2>3, BuildStep
  <2>4. ASSUME NEW m \in Months, Delete(m) \/ Lock(m) \/ Unlock(m) PROVE IInv'
    BY <2>4, DeleteStep, LockStep, UnlockStep
  <2>5. QED
    BY <2>1, <2>2, <2>3, <2>4 DEF Next
<1>2. QED
  BY InitInvariant, <1>1, PTL DEF Spec

\* An installment is PAID exactly when one locked run deducts it, and SKIPPED
\* exactly when one locked run has merged it (lock_payroll_run,
\* _carry_forward_deferred_installments and their undoing).
THEOREM PaidByOneRun == Spec => []PaidOnce
<1>1. IInv => PaidOnce
  <2> SUFFICES ASSUME IInv, NEW i \in Installments PROVE
        /\ {m \in Locked : i \in Listed(m)} =
              IF inst[i].status = "paid" THEN {inst[i].run} ELSE {}
        /\ {m \in Locked : \E d \in deferred[m] : d.id = i /\ d.mode = "merged"} =
              IF inst[i].status = "skipped" THEN {inst[i].run} ELSE {}
    BY DEF PaidOnce
  <2>1. \A m \in Locked : i \in Listed(m) <=> inst[i].status = "paid" /\ inst[i].run = m
    BY DEF IInv, Owned, Kept
  <2>2. \A m \in Locked : (\E d \in deferred[m] : d.id = i /\ d.mode = "merged")
                            <=> inst[i].status = "skipped" /\ inst[i].run = m
    BY DEF IInv, Owned, Kept
  <2>3. inst[i].status \in {"paid", "skipped"} => inst[i].run \in Locked
    BY DEF IInv, Owned
  <2>4. QED
    BY <2>1, <2>2, <2>3
<1>2. QED
  BY Invariance, <1>1, PTL

\* A loan is PAID exactly when nothing of it is pending, however its
\* installments were deferred, merged, collected and given back.
THEOREM PaidWhenCollected == Spec => []LoanPaidWhenCollected
<1>1. IInv => LoanPaidWhenCollected
  BY DEF IInv
<1>2. QED
  BY Invariance, <1>1, PTL

-----------------------------------------------------------------------------
(* Amounts.                                                                *)

\* Amounts are never negative, months are numbers.
Figures == \A i \in Installments : inst[i].amount \in Nat /\ inst[i].month \in Nat

\* The entries of a run: a merged deferral names another installment of its
\* loan, the others name none.
Entries ==
    \A m \in Months :
        /\ line[m] \subseteq [id : Installments, amount : Nat]
        /\ \A d \in deferred[m] :
              /\ d.mode \in {"", "merged", "shifted"}
              /\ d.from \in Nat
              /\ d.mode # "merged" => d.target = {}
              /\ d.mode = "merged" =>
                    \E j \in Installments :
                        j # d.id /\ LoanOf[j] = LoanOf[d.id] /\ d.target = {j}

\* A run concerns one installment of a loan, and defers it once: two of a loan
\* are never due in one month.
OncePerLoan ==
    \A m \in Months :
        /\ \A i, k \in Listed(m) \cup Postponed(m) : LoanOf[i] = LoanOf[k] => i = k
        /\ \A d, e \in deferred[m] : d.id = e.id => d = e

\* The installments merged into j by runs that are locked.
Into(j) == UNION {Taken(j, m) : m \in Locked}

\* What was merged into an installment is still in it.
Covered == \A j \in Installments : Sum(Into(j)) <= inst[j].amount

\* The inductive invariant with amounts.
AInv == IInv /\ Figures /\ Entries /\ OncePerLoan /\ Covered

\* No loan has two installments in a month, so there are finitely many.
LEMMA FiniteInstallments == IsFiniteSet(Installments)
<1> DEFINE f == [i \in Installments |-> <<LoanOf[i], DueMonth[i]>>]
<1>1. IsFiniteSet(Loans) /\ IsFiniteSet(Months)
  BY LoanAssumption, FS_Interval DEF Loans, Months
<1>2. IsFiniteSet(Loans \X Months)
  BY <1>1, FS_Product
<1>3. f \in Injection(Installments, Loans \X Months)
  BY LoanAssumption DEF Injection, IsInjective
<1> HIDE DEF f
<1> QED BY <1>2, <1>3, FS_Injection

\* A sum of amounts is a natural number, and 0 for no installment.
LEMMA SumsOfAmounts ==
    ASSUME Figures, NEW S, S \subseteq Installments
    PROVE  IsFiniteSet(S) /\ Sum(S) \in Nat /\ (S = {} => Sum(S) = 0)
<1>1. IsFiniteSet(S)
  BY FiniteInstallments, FS_Subset
<1>2. \A i \in S : Amounts[i] \in Nat
  BY DEF Figures, Amounts
<1>3. Sum(S) \in Nat
  BY <1>1, <1>2, SumNat DEF Sum
<1>4. S = {} => Sum(S) = 0
  BY SumEmpty DEF Sum
<1> QED BY <1>1, <1>3, <1>4

LEMMA GivenTaken ==
    ASSUME IInv, NEW m \in Months, NEW i \in Installments
    PROVE  Given(i, m) \subseteq Installments /\ Taken(i, m) \subseteq Installments
BY DEF IInv, Shapes, IsDeferral, Given, Taken, Postponed

\* What was merged into an installment belongs to its loan.
LEMMA IntoSkipped ==
    ASSUME IInv, Entries, NEW m \in Locked, NEW j \in Installments, NEW k \in Taken(j, m)
    PROVE  /\ k \in Installments /\ inst[k].status = "skipped" /\ inst[k].run = m
           /\ LoanOf[k] = LoanOf[j] /\ k # j
<1>1. PICK d \in deferred[m] : d.id = k /\ j \in d.target
  BY DEF Taken
<1>2. m \in Months
  BY DEF Locked
<1>3. d.mode = "merged"
  BY <1>1, <1>2 DEF Entries
<1>4. j # d.id /\ LoanOf[j] = LoanOf[d.id]
  BY <1>1, <1>2, <1>3 DEF Entries
<1>5. d.id \in Installments
  BY <1>2 DEF IInv, Shapes, IsDeferral
<1> QED BY <1>1, <1>3, <1>4, <1>5 DEF IInv, Kept

LEMMA AInvInit == Init => AInv
<1> SUFFICES ASSUME Init PROVE AInv
  OBVIOUS
<1>1. IInv
  BY InitInvariant
<1>2. Figures
  BY LoanAssumption DEF Init, Figures, Months
<1>3. Entries /\ OncePerLoan
  BY DEF Init, Entries, OncePerLoan, Listed, Postponed
<1>4. \A j \in Installments : Into(j) = {}
  BY DEF Init, Into, Locked
<1>5. Covered
  BY <1>2, <1>4, SumsOfAmounts DEF Covered, Figures
<1> QED BY <1>1, <1>2, <1>3, <1>5 DEF AInv

-----------------------------------------------------------------------------
\* Steps that leave the amounts, the months and the locked runs alone.
LEMMA SameAmounts ==
    ASSUME AInv, Locked' = Locked,
           \A i \in Installments : inst'[i].amount = inst[i].amount /\ inst'[i].month = inst[i].month,
           \A m \in Locked : deferred'[m] = deferred[m]
    PROVE  Figures' /\ Covered'
<1>1. Figures'
  BY DEF AInv, Figures
<1>2. \A j \in Installments : Into(j)' = Into(j)
  BY DEF Into, Taken
<1>3. Amounts' = Amounts
  BY DEF Amounts
<1>4. Covered'
  BY <1>2, <1>3 DEF AInv, Covered, Sum
<1> QED BY <1>1, <1>4

LEMMA IssueAmounts == ASSUME AInv, NEW l \in Loans, Issue(l) PROVE AInv'
<1>1. IInv'
  BY IssueStep DEF AInv
<1>2. UNCHANGED <<run, line, deferred>>
  BY DEF Issue
<1>3. Locked' = Locked /\ \A m \in Months : Listed(m)' = Listed(m) /\ Postponed(m)' = Postponed(m)
  BY <1>2, SameRuns
<1>4. ASSUME NEW i \in Installments
      PROVE  inst'[i].amount = inst[i].amount /\ inst'[i].month = inst[i].month
  <2>1. inst'[i] = IF LoanOf[i] = l THEN [inst[i] EXCEPT !.status = "pending"] ELSE inst[i]
    BY DEF Issue
  <2>2. IsRow(inst[i]) /\ "pending" \in Statuses
    BY DEF AInv, IInv, Shapes, Statuses
  <2> QED BY <2>1, <2>2, SetStatus
<1>5. Figures' /\ Covered'
  BY <1>2, <1>3, <1>4, SameAmounts
<1>6. Entries' /\ OncePerLoan'
  BY <1>2, <1>3 DEF AInv, Entries, OncePerLoan
<1> QED BY <1>1, <1>5, <1>6 DEF AInv

LEMMA DeleteLoanAmounts == ASSUME AInv, NEW l \in Loans, DeleteLoan(l) PROVE AInv'
<1>1. IInv'
  BY DeleteLoanStep DEF AInv
<1>2. UNCHANGED <<inst, run, line, deferred>>
  BY DEF DeleteLoan
<1>3. Locked' = Locked /\ \A m \in Months : Listed(m)' = Listed(m) /\ Postponed(m)' = Postponed(m)
  BY <1>2, SameRuns
<1>4. Figures' /\ Covered'
  BY <1>2, <1>3, SameAmounts
<1>5. Entries' /\ OncePerLoan'
  BY <1>2, <1>3 DEF AInv, Entries, OncePerLoan
<1> QED BY <1>1, <1>4, <1>5 DEF AInv

LEMMA BuildAmounts ==
    ASSUME AInv, NEW m \in Months, NEW s \in Salaries, Build(m, s) PROVE AInv'
<1>1. IInv'
  BY BuildStep DEF AInv
<1>2. /\ run[m] # "locked" /\ run' = [run EXCEPT ![m] = "draft"] /\ inst' = inst
      /\ \A n \in Months \ {m} : line'[n] = line[n] /\ deferred'[n] = deferred[n]
  BY DEF Build, AInv, IInv, Shapes
<1>3. Locked' = Locked /\ m \notin Locked /\ Locked \subseteq Months
  BY <1>2 DEF Locked, AInv, IInv, Shapes
<1>4. Figures' /\ Covered'
  BY <1>2, <1>3, SameAmounts
<1> DEFINE Item(i) == [id |-> i, amount |-> inst[i].amount]
           Left0(i) == [id |-> i, mode |-> "", target |-> {}, from |-> NoMonth]
<1>5. /\ line'[m] = {Item(i) : i \in Included(m, s)}
      /\ deferred'[m] = {Left0(i) : i \in Due(m) \ Included(m, s)}
  BY DEF Build, AInv, IInv, Shapes
<1>6. Included(m, s) \subseteq Due(m) /\ Due(m) \subseteq Installments
  BY DEF Included, Due
<1>7. \A i \in Installments : Item(i).id = i /\ Item(i) \in [id : Installments, amount : Nat]
  BY DEF AInv, Figures
<1>8. \A i : /\ Left0(i).id = i /\ Left0(i).mode = "" /\ Left0(i).target = {}
             /\ Left0(i).from \in Nat
  BY DEF NoMonth
<1> HIDE DEF Item, Left0
<1>9. \A n \in Months \ {m} : Listed(n)' = Listed(n) /\ Postponed(n)' = Postponed(n)
  BY <1>2 DEF Listed, Postponed
<1>17. ASSUME NEW d \in deferred'[m]
       PROVE  d.id \in Due(m) /\ d = Left0(d.id)
  <2>1. PICK i \in Due(m) \ Included(m, s) : d = Left0(i)
    BY <1>5
  <2>2. d.id = i
    BY <1>8, <2>1
  <2> QED BY <2>1, <2>2
<1>10. Listed(m)' \cup Postponed(m)' \subseteq Due(m)
  <2>1. Listed(m)' \subseteq Due(m)
    BY <1>5, <1>6, <1>7 DEF Listed
  <2>2. \A d \in deferred'[m] : d.id \in Due(m)
    BY <1>17
  <2>3. Postponed(m)' \subseteq Due(m)
    BY <2>2 DEF Postponed
  <2> QED BY <2>1, <2>3
<1>11. \A i, k \in Due(m) : LoanOf[i] = LoanOf[k] => i = k
  BY DEF Due, AInv, IInv, OneAMonth
<1>12. \A d, e \in deferred'[m] : d.id = e.id => d = e
  BY <1>17
<1>13. OncePerLoan'
  BY <1>2, <1>9, <1>10, <1>11, <1>12 DEF AInv, OncePerLoan
<1>14. line'[m] \subseteq [id : Installments, amount : Nat]
  BY <1>5, <1>6, <1>7
<1>15. \A d \in deferred'[m] : d.mode = "" /\ d.target = {} /\ d.from \in Nat
  BY <1>5, <1>8
<1>16. Entries'
  <2>1. ASSUME NEW n \in Months \ {m} PROVE line'[n] = line[n] /\ deferred'[n] = deferred[n]
    BY <1>2
  <2> QED BY <1>14, <1>15, <2>1 DEF AInv, Entries
<1> QED BY <1>1, <1>4, <1>13, <1>16 DEF AInv

LEMMA DeleteAmounts == ASSUME AInv, NEW m \in Months, Delete(m) PROVE AInv'
<1>1. IInv'
  BY DeleteStep DEF AInv
<1>2. /\ run[m] = "draft" /\ run' = [run EXCEPT ![m] = "absent"]
      /\ line'[m] = {} /\ deferred'[m] = {}
      /\ \A n \in Months \ {m} : line'[n] = line[n] /\ deferred'[n] = deferred[n]
  BY DEF Delete, AInv, IInv, Shapes
<1>3. Locked' = Locked /\ m \notin Locked /\ Locked \subseteq Months
  BY <1>2 DEF Locked, AInv, IInv, Shapes
<1>4. \A i \in Installments : inst[i].run # m
  BY <1>3 DEF AInv, IInv, Owned, Shapes, IsRow, Statuses, NoMonth, Months
<1>5. inst' = inst
  BY <1>4 DEF Delete, AInv, IInv, Shapes
<1>6. Figures' /\ Covered'
  BY <1>2, <1>3, <1>5, SameAmounts
<1>7. /\ Listed(m)' = {} /\ Postponed(m)' = {}
      /\ \A n \in Months \ {m} : Listed(n)' = Listed(n) /\ Postponed(n)' = Postponed(n)
  BY <1>2 DEF Listed, Postponed
<1>8. OncePerLoan'
  BY <1>2, <1>7 DEF AInv, OncePerLoan
<1>9. Entries'
  BY <1>2 DEF AInv, Entries
<1> QED BY <1>1, <1>6, <1>8, <1>9 DEF AInv

-----------------------------------------------------------------------------
(* The amounts after a lock and after a reopening.                         *)

\* The row that takes a deferred amount is concerned by the run in no other
\* way; a row that takes none keeps its amount.
LEMMA LockedAmounts ==
    ASSUME AInv, NEW m \in Months, Lock(m), NEW i \in Installments
    PROVE  /\ inst'[i].amount = inst[i].amount + Sum(Given(i, m))
           /\ Given(i, m) # {} => /\ i \notin Listed(m) \cup Postponed(m)
                                  /\ inst[i].status = "pending"
           /\ inst'[i].month \in Nat
<1>1. /\ inst' = Collected(m)
      /\ \A k \in Postponed(m) : \A j \in NextOf(k, m) : inst[j].status = "pending"
      /\ \A k \in Postponed(m) : \A j \in NextOf(k, m) : j \notin Listed(m)
  BY DEF Lock, Mergeable
<1>2. /\ inst'[i].amount = IF i \in Listed(m) \cup Postponed(m) THEN inst[i].amount
                           ELSE inst[i].amount + Sum(Given(i, m))
      /\ inst'[i].month \in {inst[i].month, m + 1}
  BY <1>1, CollectedRows DEF AInv, IInv
<1>3. inst'[i].month \in Nat
  BY <1>2 DEF AInv, Figures, Months
<1>4. Given(i, m) # {} => i \notin Listed(m) \cup Postponed(m) /\ inst[i].status = "pending"
  <2> SUFFICES ASSUME NEW k \in Given(i, m)
               PROVE  i \notin Listed(m) \cup Postponed(m) /\ inst[i].status = "pending"
    OBVIOUS
  <2>1. k \in Postponed(m) /\ i \in NextOf(k, m)
    BY DEF Given
  <2>2. i # k /\ LoanOf[i] = LoanOf[k]
    BY <2>1 DEF NextOf
  <2>3. i \notin Postponed(m)
    BY <2>1, <2>2 DEF AInv, OncePerLoan
  <2> QED BY <1>1, <2>1, <2>3
<1>5. Given(i, m) = {} => Sum(Given(i, m)) = 0
  BY SumEmpty DEF Sum
<1>6. inst[i].amount \in Nat
  BY DEF AInv, Figures
<1> QED BY <1>2, <1>3, <1>4, <1>5, <1>6

\* The deferrals of the run that is locked.
LEMMA CarriedEntry ==
    ASSUME AInv, NEW m \in Months, Lock(m), NEW d \in deferred[m]
    PROVE  LET c == Carry(d, m) IN
           /\ c.id = d.id /\ c.mode \in {"merged", "shifted"} /\ c.from \in Nat
           /\ c.target = NextOf(d.id, m)
           /\ c.mode = "merged" <=> NextOf(d.id, m) # {}
           /\ c.mode = "merged" =>
                \E j \in Installments : /\ j # d.id /\ LoanOf[j] = LoanOf[d.id]
                                        /\ NextOf(d.id, m) = {j}
<1>1. IsDeferral(d) /\ d.id \in Installments /\ d.mode = "" /\ d.target = {} /\ d.from \in Nat
  <2>1. run[m] = "draft"
    BY DEF Lock
  <2>2. d.mode = "" /\ IsDeferral(d)
    BY <2>1 DEF AInv, IInv, Drafts, Shapes
  <2> QED BY <2>2 DEF AInv, Entries, IsDeferral
<1>2. inst[d.id].month \in Nat
  BY <1>1 DEF AInv, Figures
<1>3. CASE NextOf(d.id, m) = {}
  <2> DEFINE c == [id |-> d.id, mode |-> "shifted", target |-> d.target,
                   from |-> inst[d.id].month]
  <2>1. Carry(d, m) = c
    BY <1>1, <1>3 DEF Carry, IsDeferral
  <2>2. c.id = d.id /\ c.mode = "shifted" /\ c.target = {} /\ c.from \in Nat
    BY <1>1, <1>2
  <2> HIDE DEF c
  <2> QED BY <1>3, <2>1, <2>2
<1>4. CASE NextOf(d.id, m) # {}
  <2> DEFINE c == [id |-> d.id, mode |-> "merged", target |-> NextOf(d.id, m),
                   from |-> d.from]
  <2>1. Carry(d, m) = c
    BY <1>1, <1>4 DEF Carry, IsDeferral
  <2>2. PICK j \in Installments : j \in NextOf(d.id, m)
    BY <1>4 DEF NextOf
  <2>3. \A k \in NextOf(d.id, m) : k = j
    BY <2>2 DEF NextOf, AInv, IInv, OneAMonth
  <2>4. NextOf(d.id, m) = {j} /\ j # d.id /\ LoanOf[j] = LoanOf[d.id]
    BY <2>2, <2>3 DEF NextOf
  <2>5. c.id = d.id /\ c.mode = "merged" /\ c.target = NextOf(d.id, m) /\ c.from \in Nat
    BY <1>1
  <2> HIDE DEF c
  <2> QED BY <1>4, <2>1, <2>4, <2>5
<1> QED BY <1>3, <1>4

\* A lock adds to what was merged into an installment exactly what it gives it.
LEMMA LockedInto ==
    ASSUME AInv, NEW m \in Months, Lock(m), NEW j \in Installments
    PROVE  Into(j)' = Into(j) \cup Given(j, m)
<1>1. /\ run[m] = "draft" /\ run' = [run EXCEPT ![m] = "locked"]
      /\ deferred'[m] = {Carry(d, m) : d \in deferred[m]}
      /\ \A n \in Months \ {m} : deferred'[n] = deferred[n]
  BY DEF Lock, AInv, IInv, Shapes
<1>2. Locked' = Locked \cup {m} /\ m \notin Locked /\ Locked \subseteq Months
  BY <1>1 DEF Locked, AInv, IInv, Shapes
<1>3. \A n \in Locked : Taken(j, n)' = Taken(j, n)
  BY <1>1, <1>2 DEF Taken
<1>4. Taken(j, m)' = Given(j, m)
  <2>1. ASSUME NEW k \in Taken(j, m)' PROVE k \in Given(j, m)
    <3>1. PICK e \in deferred'[m] : j \in e.target /\ e.id = k
      BY <2>1 DEF Taken
    <3>2. PICK d \in deferred[m] : e = Carry(d, m)
      BY <1>1
    <3>3. e.id = d.id /\ e.target = NextOf(d.id, m)
      BY <3>2, CarriedEntry
    <3> QED BY <3>1, <3>3 DEF Given, Postponed
  <2>2. ASSUME NEW k \in Given(j, m) PROVE k \in Taken(j, m)'
    <3>1. k \in Postponed(m) /\ j \in NextOf(k, m)
      BY <2>2 DEF Given
    <3>2. PICK d \in deferred[m] : d.id = k
      BY <3>1 DEF Postponed
    <3>3. Carry(d, m) \in deferred'[m]
      BY <1>1
    <3>4. Carry(d, m).id = k /\ j \in Carry(d, m).target
      BY <3>1, <3>2, CarriedEntry
    <3> QED BY <3>3, <3>4 DEF Taken
  <2> QED BY <2>1, <2>2
<1> QED BY <1>2, <1>3, <1>4 DEF Into

LEMMA LockCovered == ASSUME AInv, NEW m \in Months, Lock(m) PROVE Figures' /\ Covered'
<1>1. Figures'
  <2> SUFFICES ASSUME NEW i \in Installments
               PROVE  inst'[i].amount \in Nat /\ inst'[i].month \in Nat
    BY DEF Figures
  <2>1. inst[i].amount \in Nat /\ Sum(Given(i, m)) \in Nat
    BY GivenTaken, SumsOfAmounts DEF AInv, Figures
  <2> QED BY <2>1, LockedAmounts
<1>2. ASSUME NEW j \in Installments PROVE (Sum(Into(j)) <= inst[j].amount)'
  <2> DEFINE A == Into(j)
             B == Given(j, m)
             amounts == Amounts'
  <2>1. A \subseteq Installments /\ B \subseteq Installments
    <3>1. A \subseteq Installments
      BY GivenTaken DEF AInv, Into, Locked
    <3> QED BY <3>1, GivenTaken DEF AInv
  \* A: skipped before; B: still open.
  <2>2. A \cap B = {}
    <3>1. \A k \in A : inst[k].status = "skipped"
      BY IntoSkipped DEF AInv, Into
    <3>2. \A k \in B : inst[k].status = "pending"
      BY DEF Given, Lock, Open
    <3> QED BY <3>1, <3>2
  <2>3. ASSUME NEW k \in A \cup B PROVE amounts[k] = Amounts[k]
    <3>1. k \in Installments
      BY <2>1, <2>3
    <3>2. Given(k, m) = {}
      <4>1. CASE k \in A
        <5>1. inst[k].status = "skipped"
          BY <4>1, IntoSkipped DEF AInv, Into
        <5> QED BY <3>1, <5>1, LockedAmounts
      <4>2. CASE k \in B
        <5>1. k \in Postponed(m)
          BY <4>2 DEF Given
        <5> QED BY <3>1, <5>1, LockedAmounts
      <4> QED BY <2>3, <4>1, <4>2
    <3>3. Sum(Given(k, m)) = 0
      BY <3>2, SumEmpty DEF Sum
    <3>4. inst'[k].amount = inst[k].amount
      BY <3>1, <3>3, LockedAmounts DEF AInv, Figures
    <3> QED BY <3>1, <3>4 DEF Amounts
  <2>4. IsFiniteSet(A \cup B) /\ \A k \in A \cup B : Amounts[k] \in Int
    BY <2>1, FiniteInstallments, FS_Subset DEF AInv, Figures, Amounts
  <2> HIDE DEF A, B, amounts
  <2>5. SumOver(amounts, A \cup B) = SumOver(Amounts, A \cup B)
    BY <2>3, <2>4, SumSame
  <2>6. SumOver(Amounts, A \cup B) = SumOver(Amounts, A) + SumOver(Amounts, B)
    <3>1. (A \cup B) \ A = B /\ A \in SUBSET (A \cup B)
      BY <2>2
    <3>2. SumOver(Amounts, A \cup B) = SumOver(Amounts, A) + SumOver(Amounts, (A \cup B) \ A)
      BY <2>4, <3>1, SumSplit
    <3> QED BY <3>1, <3>2
  <2>7. Sum(Into(j))' = SumOver(amounts, A \cup B)
    BY LockedInto DEF Sum, A, B, amounts
  <2>8. inst'[j].amount = inst[j].amount + SumOver(Amounts, B)
    BY LockedAmounts DEF B, Sum
  <2>9. SumOver(Amounts, A) <= inst[j].amount
    BY DEF AInv, Covered, A, Sum
  <2>10. /\ SumOver(Amounts, A) \in Nat /\ SumOver(Amounts, B) \in Nat
         /\ inst[j].amount \in Nat
    BY <2>1, SumsOfAmounts DEF AInv, Figures, Sum
  <2>11. SumOver(Amounts, A) + SumOver(Amounts, B) <= inst'[j].amount
    BY <2>8, <2>9, <2>10
  <2> QED BY <2>5, <2>6, <2>7, <2>11
<1> QED BY <1>1, <1>2 DEF Covered

LEMMA LockAmounts == ASSUME AInv, NEW m \in Months, Lock(m) PROVE AInv'
<1>1. IInv'
  BY LockStep DEF AInv
<1>2. /\ line' = line /\ deferred'[m] = {Carry(d, m) : d \in deferred[m]}
      /\ \A n \in Months \ {m} : deferred'[n] = deferred[n]
  BY DEF Lock, AInv, IInv, Shapes
<1>3. /\ \A n \in Months : Listed(n)' = Listed(n)
      /\ \A n \in Months \ {m} : Postponed(n)' = Postponed(n)
  BY <1>2 DEF Listed, Postponed
<1>4. ASSUME NEW e \in deferred'[m]
      PROVE  /\ \E d \in deferred[m] : e = Carry(d, m) /\ e.id = d.id
             /\ e.mode \in {"", "merged", "shifted"} /\ e.from \in Nat
             /\ e.mode # "merged" => e.target = {}
             /\ e.mode = "merged" =>
                  \E j \in Installments : j # e.id /\ LoanOf[j] = LoanOf[e.id] /\ e.target = {j}
  <2>1. PICK d \in deferred[m] : e = Carry(d, m)
    BY <1>2
  <2>2. /\ e.id = d.id /\ e.mode \in {"merged", "shifted"} /\ e.from \in Nat
        /\ e.target = NextOf(d.id, m)
        /\ e.mode = "merged" <=> NextOf(d.id, m) # {}
        /\ e.mode = "merged" =>
             \E j \in Installments : /\ j # d.id /\ LoanOf[j] = LoanOf[d.id]
                                     /\ NextOf(d.id, m) = {j}
    BY <2>1, CarriedEntry
  <2> QED BY <2>1, <2>2
<1>5. Entries'
  <2>1. ASSUME NEW n \in Months \ {m} PROVE deferred'[n] = deferred[n]
    BY <1>2
  <2> QED BY <1>2, <1>4, <2>1 DEF AInv, Entries
<1>6. OncePerLoan'
  <2>1. Postponed(m)' \subseteq Postponed(m)
    BY <1>4 DEF Postponed
  <2>2. \A d, e \in deferred'[m] : d.id = e.id => d = e
    <3> SUFFICES ASSUME NEW d \in deferred'[m], NEW e \in deferred'[m], d.id = e.id PROVE d = e
      OBVIOUS
    <3>1. PICK a \in deferred[m] : d = Carry(a, m) /\ d.id = a.id
      BY <1>4
    <3>2. PICK b \in deferred[m] : e = Carry(b, m) /\ e.id = b.id
      BY <1>4
    <3>3. a = b
      BY <3>1, <3>2 DEF AInv, OncePerLoan
    <3> QED BY <3>1, <3>2, <3>3
  <2>3. ASSUME NEW n \in Months
        PROVE  Listed(n)' \cup Postponed(n)' \subseteq Listed(n) \cup Postponed(n)
    BY <1>3, <2>1
  <2>4. ASSUME NEW n \in Months, NEW d \in deferred'[n], NEW e \in deferred'[n], d.id = e.id
        PROVE  d = e
    BY <1>2, <2>2, <2>4 DEF AInv, OncePerLoan
  <2> QED BY <2>3, <2>4 DEF AInv, OncePerLoan
<1> QED BY <1>1, <1>5, <1>6, LockCovered DEF AInv

\* A reopening takes off an installment what the run merged into it.
LEMMA UnlockedInto ==
    ASSUME AInv, NEW m \in Months, Unlock(m), NEW j \in Installments
    PROVE  /\ Into(j)' = Into(j) \ Taken(j, m)
           /\ Taken(j, m) \subseteq Into(j)
<1>1. /\ run[m] = "locked" /\ run' = [run EXCEPT ![m] = "draft"]
      /\ \A n \in Months \ {m} : deferred'[n] = deferred[n]
  BY DEF Unlock, AInv, IInv, Shapes
<1>2. Locked' = Locked \ {m} /\ m \in Locked /\ Locked \subseteq Months
  BY <1>1 DEF Locked, AInv, IInv, Shapes
<1>3. \A n \in Locked \ {m} : Taken(j, n)' = Taken(j, n)
  BY <1>1, <1>2 DEF Taken
<1>4. \A n \in Locked : \A k \in Taken(j, n) : inst[k].run = n
  BY IntoSkipped DEF AInv
<1>5. \A n \in Locked \ {m} : Taken(j, n) \cap Taken(j, m) = {}
  BY <1>2, <1>4
<1>6. Into(j)' = UNION {Taken(j, n) : n \in Locked \ {m}}
  BY <1>2, <1>3 DEF Into
<1>7. Into(j) = Taken(j, m) \cup UNION {Taken(j, n) : n \in Locked \ {m}}
  BY <1>2 DEF Into
<1> QED BY <1>5, <1>6, <1>7

LEMMA UnlockCovered == ASSUME AInv, NEW m \in Months, Unlock(m) PROVE Figures' /\ Covered'
<1>1. inst' = Reverted(m) /\ m \in Locked
  BY DEF Unlock, Locked
<1>2. ASSUME NEW i \in Installments
      PROVE  /\ inst'[i].amount = inst[i].amount - Sum(Taken(i, m))
             /\ inst'[i].month \in Nat
             /\ inst[i].amount \in Nat /\ Sum(Taken(i, m)) \in Nat
             /\ Sum(Into(i)) \in Nat /\ Sum(Into(i)) <= inst[i].amount
             /\ Taken(i, m) \subseteq Into(i) /\ Into(i) \subseteq Installments
  <2>1. /\ inst'[i].amount = inst[i].amount - Sum(Taken(i, m))
        /\ inst'[i].month = inst[i].month \/ \E d \in deferred[m] : inst'[i].month = d.from
    BY <1>1, RevertedRows DEF AInv, IInv
  <2>2. inst'[i].month \in Nat /\ inst[i].amount \in Nat
    BY <2>1 DEF AInv, Figures, Entries
  <2>3. Taken(i, m) \subseteq Into(i) /\ Into(i) \subseteq Installments
    BY UnlockedInto, GivenTaken DEF AInv, Into, Locked
  <2>4. Sum(Taken(i, m)) \in Nat /\ Sum(Into(i)) \in Nat
    BY <2>3, SumsOfAmounts DEF AInv
  <2> QED BY <2>1, <2>2, <2>3, <2>4 DEF AInv, Covered
<1>3. ASSUME NEW j \in Installments
      PROVE  /\ SumOver(Amounts, Into(j)) =
                   SumOver(Amounts, Taken(j, m)) + SumOver(Amounts, Into(j)')
             /\ SumOver(Amounts, Into(j)') \in Nat
             /\ SumOver(Amounts, Taken(j, m)) \in Nat
  <2>1. IsFiniteSet(Into(j)) /\ \A k \in Into(j) : Amounts[k] \in Int
    BY <1>2, SumsOfAmounts DEF AInv, Figures, Amounts
  <2>2. Into(j)' = Into(j) \ Taken(j, m) /\ Taken(j, m) \in SUBSET Into(j)
    BY UnlockedInto
  <2>3. SumOver(Amounts, Into(j)) =
           SumOver(Amounts, Taken(j, m)) + SumOver(Amounts, Into(j) \ Taken(j, m))
    BY <2>1, <2>2, SumSplit
  <2>4. Into(j) \ Taken(j, m) \subseteq Installments
    BY <1>2
  <2>5. SumOver(Amounts, Into(j) \ Taken(j, m)) \in Nat
    BY <2>4, SumsOfAmounts DEF AInv, Sum
  <2> QED BY <1>2, <2>2, <2>3, <2>5 DEF Sum
<1>4. Figures'
  <2> SUFFICES ASSUME NEW i \in Installments
               PROVE  inst'[i].amount \in Nat /\ inst'[i].month \in Nat
    BY DEF Figures
  <2>1. Sum(Taken(i, m)) <= Sum(Into(i))
    BY <1>3 DEF Sum
  <2> QED BY <1>2, <2>1
<1>5. ASSUME NEW j \in Installments PROVE (Sum(Into(j)) <= inst[j].amount)'
  <2> DEFINE A == Into(j)'
             amounts == Amounts'
  <2>1. A \subseteq Installments
    BY <1>2, UnlockedInto
  <2>2. IsFiniteSet(A) /\ \A k \in A : amounts[k] \in Int /\ Amounts[k] \in Int
                                        /\ amounts[k] <= Amounts[k]
    <3>1. IsFiniteSet(A)
      BY <2>1, SumsOfAmounts DEF AInv
    <3>2. ASSUME NEW k \in A PROVE amounts[k] \in Int /\ Amounts[k] \in Int /\ amounts[k] <= Amounts[k]
      <4>1. k \in Installments
        BY <2>1
      <4>2. amounts[k] = inst'[k].amount /\ Amounts[k] = inst[k].amount
        BY <4>1 DEF Amounts
      <4> QED BY <1>2, <4>1, <4>2
    <3> QED BY <3>1, <3>2
  <2>3. Sum(Into(j))' = SumOver(amounts, A)
    BY DEF Sum
  <2>4. SumOver(Amounts, A) <= inst'[j].amount /\ SumOver(Amounts, A) \in Nat
    BY <1>2, <1>3 DEF Sum
  <2> HIDE DEF A, amounts
  <2>5. SumOver(amounts, A) <= SumOver(Amounts, A)
    BY <2>2, SumAtMost
  <2>6. SumOver(amounts, A) \in Int
    BY <2>2, SumRemove
  <2>7. inst'[j].amount \in Nat
    BY <1>4 DEF Figures
  <2> QED BY <2>3, <2>4, <2>5, <2>6, <2>7
<1> QED BY <1>4, <1>5 DEF Covered

LEMMA UnlockAmounts == ASSUME AInv, NEW m \in Months, Unlock(m) PROVE AInv'
<1>1. IInv'
  BY UnlockStep DEF AInv
<1>2. /\ line' = line /\ deferred'[m] = {Reset(d) : d \in deferred[m]}
      /\ \A n \in Months \ {m} : deferred'[n] = deferred[n]
  BY DEF Unlock, Reset, AInv, IInv, Shapes
<1>3. /\ \A n \in Months : Listed(n)' = Listed(n)
      /\ \A n \in Months \ {m} : Postponed(n)' = Postponed(n)
  BY <1>2 DEF Listed, Postponed
<1>4. ASSUME NEW e \in deferred'[m]
      PROVE  /\ \E d \in deferred[m] : e = Reset(d) /\ e.id = d.id
             /\ e.mode = "" /\ e.target = {} /\ e.from \in Nat
  <2>1. PICK d \in deferred[m] : e = Reset(d)
    BY <1>2
  <2> DEFINE c == [id |-> d.id, mode |-> "", target |-> {}, from |-> NoMonth]
  <2>2. Reset(d) = c
    <3>1. IsDeferral(d)
      BY DEF AInv, IInv, Shapes
    <3> QED BY <3>1, ResetFields DEF Reset
  <2>3. c.id = d.id /\ c.mode = "" /\ c.target = {} /\ c.from \in Nat
    BY DEF NoMonth
  <2> HIDE DEF c
  <2> QED BY <2>1, <2>2, <2>3
<1>5. Entries'
  <2>1. ASSUME NEW n \in Months \ {m} PROVE deferred'[n] = deferred[n]
    BY <1>2
  <2> QED BY <1>2, <1>4, <2>1 DEF AInv, Entries
<1>6. OncePerLoan'
  <2>1. Postponed(m)' \subseteq Postponed(m)
    BY <1>4 DEF Postponed
  <2>2. \A d, e \in deferred'[m] : d.id = e.id => d = e
    <3> SUFFICES ASSUME NEW d \in deferred'[m], NEW e \in deferred'[m], d.id = e.id PROVE d = e
      OBVIOUS
    <3>1. PICK a \in deferred[m] : d = Reset(a) /\ d.id = a.id
      BY <1>4
    <3>2. PICK b \in deferred[m] : e = Reset(b) /\ e.id = b.id
      BY <1>4
    <3>3. a = b
      BY <3>1, <3>2 DEF AInv, OncePerLoan
    <3> QED BY <3>1, <3>2, <3>3
  <2>3. ASSUME NEW n \in Months
        PROVE  Listed(n)' \cup Postponed(n)' \subseteq Listed(n) \cup Postponed(n)
    BY <1>3, <2>1
  <2>4. ASSUME NEW n \in Months, NEW d \in deferred'[n], NEW e \in deferred'[n], d.id = e.id
        PROVE  d = e
    BY <1>2, <2>2, <2>4 DEF AInv, OncePerLoan
  <2> QED BY <2>3, <2>4 DEF AInv, OncePerLoan
<1> QED BY <1>1, <1>5, <1>6, UnlockCovered DEF AInv

LEMMA StutterAmounts == ASSUME AInv, UNCHANGED vars PROVE AInv'
<1>1. IInv'
  BY StutterStep DEF AInv
<1>2. UNCHANGED <<loan, inst, run, line, deferred, history>>
  BY DEF vars
<1>3. Locked' = Locked /\ \A m \in Months : Listed(m)' = Listed(m) /\ Postponed(m)' = Postponed(m)
  BY <1>2, SameRuns
<1>4. Figures' /\ Covered'
  BY <1>2, <1>3, SameAmounts
<1>5. Entries' /\ OncePerLoan'
  BY <1>2, <1>3 DEF AInv, Entries, OncePerLoan
<1> QED BY <1>1, <1>4, <1>5 DEF AInv

LEMMA AmountsStep == ASSUME AInv, [Next]_vars PROVE AInv'
<1>1. CASE UNCHANGED vars
  BY <1>1, StutterAmounts
<1>2. ASSUME NEW l \in Loans, Issue(l) \/ DeleteLoan(l) PROVE AInv'
  BY <1>2, IssueAmounts, DeleteLoanAmounts
<1>3. ASSUME NEW m \in Months, NEW s \in Salaries, Build(m, s) PROVE AInv'
  BY <1>3, BuildAmounts
<1>4. ASSUME NEW m \in Months, Delete(m) \/ Lock(m) \/ Unlock(m) PROVE AInv'
  BY <1>4, DeleteAmounts, LockAmounts, UnlockAmounts
<1> QED BY <1>1, <1>2, <1>3, <1>4 DEF Next

\* Whatever was carried forward, undone and carried again, what the locked runs
\* merged into an installment is in its amount: taking it off again never
\* leaves less than nothing (_revert_deferred_installments).
THEOREM AmountsInvariance == Spec => []AInv
  BY AInvInit, AmountsStep, PTL DEF Spec

Recorded == overtaken \in BOOLEAN /\ outdated \in BOOLEAN

LEMMA HistoryTyped == ASSUME Recorded, [Next]_vars PROVE Recorded'
BY DEF Recorded, Next, vars, history, Issue, DeleteLoan, Build, Delete, Lock, Unlock

\* The type of every variable: amounts stay natural numbers through merges and
\* reversals, only a locked run has carried anything, and a deferral has one
\* target exactly when it was merged.
THEOREM TypeCorrect == Spec => []TypeOK
<1>1. AInv /\ Recorded => TypeOK
  <2> SUFFICES ASSUME AInv, Recorded PROVE TypeOK
    OBVIOUS
  <2>1. \A i \in Installments : inst[i] \in Row
    BY DEF AInv, IInv, Shapes, Figures, IsRow, Statuses, Row
  <2>2. /\ loan \in [Loans -> {"none", "active", "paid", "deleted"}]
        /\ run \in [Months -> {"absent", "draft", "locked"}]
        /\ inst \in [Installments -> Row]
    <3>1. inst = [i \in Installments |-> inst[i]]
      BY DEF AInv, IInv, Shapes
    <3> HIDE DEF Row
    <3>2. inst \in [Installments -> Row]
      BY <2>1, <3>1
    <3> QED BY <3>2 DEF AInv, IInv, Shapes
  <2>3. ASSUME NEW m \in Months, NEW d \in deferred[m]
        PROVE  /\ d \in Carried
               /\ d.mode # "" => run[m] = "locked"
               /\ Cardinality(d.target) = IF d.mode = "merged" THEN 1 ELSE 0
    <3>1. /\ d = [id |-> d.id, mode |-> d.mode, target |-> d.target, from |-> d.from]
          /\ d.id \in Installments
          /\ d.mode # "" => run[m] = "locked"
      BY DEF AInv, IInv, Shapes, IsDeferral, Drafts
    <3>2. /\ d.mode \in {"", "merged", "shifted"}
          /\ d.from \in Nat
          /\ d.mode # "merged" => d.target = {}
          /\ d.mode = "merged" => \E j \in Installments : d.target = {j}
      BY DEF AInv, Entries
    <3>3. Cardinality(d.target) = IF d.mode = "merged" THEN 1 ELSE 0
      BY <3>2, FS_EmptySet, FS_Singleton
    <3>4. d.target \in SUBSET Installments
      BY <3>2
    <3> QED BY <3>1, <3>2, <3>3, <3>4 DEF Carried
  <2>4. \A m \in Months : line[m] \subseteq [id : Installments, amount : Nat]
    BY DEF AInv, Entries
  <2> QED BY <2>2, <2>3, <2>4 DEF TypeOK, Recorded
<1>2. Init => Recorded
  BY DEF Init, Recorded
<1>3. QED
  BY AmountsInvariance, HistoryTyped, <1>1, <1>2, PTL DEF Spec

-----------------------------------------------------------------------------
(* What a loan adds up to.                                                 *)

\* What an installment is worth: a skipped one has handed its amount on.
Values == [i \in Installments |->
             IF inst[i].status = "skipped" THEN 0 ELSE inst[i].amount]

OfLoan(l) == {i \in Installments : LoanOf[i] = l}

\* An installment that took an amount is collected or skipped by later runs only.
Firm ==
    \A m \in Locked : \A d \in deferred[m] : \A j \in d.target :
        inst[j].status \in {"paid", "skipped"} => inst[j].run > m

\* A locked run has deducted an installment at the amount of its row.
AsListed == \A m \in Locked : \A x \in line[m] : x.amount = inst[x.id].amount

CInv == AInv /\ Firm /\ AddsUp

\* The inductive invariant: the rows add up until an overtaken draft is locked,
\* and the money until an outdated one is.
HInv ==
    /\ AInv
    /\ Recorded
    /\ ~overtaken => CInv
    /\ ~overtaken /\ ~outdated => AsListed

\* A step conserves a loan when its installments keep their worth.
LEMMA SameWorth ==
    ASSUME AddsUp, \A i \in Installments : Values'[i] = Values[i]
    PROVE  AddsUp'
<1>1. Values' = Values
  BY DEF Values
<1> QED BY <1>1 DEF AddsUp, Values

\* A loan is conserved when one installment passes to another what it loses.
LEMMA Passed ==
    ASSUME AInv, AInv', NEW l \in Loans,
           \/ \A i \in OfLoan(l) : Values'[i] = Values[i]
           \/ \E a, b \in OfLoan(l) :
                 /\ a # b /\ Values[a] + Values[b] = Values'[a] + Values'[b]
                 /\ \A i \in OfLoan(l) \ {a, b} : Values'[i] = Values[i]
    PROVE  SumOver(Values', OfLoan(l)) = SumOver(Values, OfLoan(l))
<1>1. IsFiniteSet(OfLoan(l)) /\ OfLoan(l) \subseteq Installments
  BY FiniteInstallments, FS_Subset DEF OfLoan
<1>2. \A i \in OfLoan(l) : Values[i] \in Int /\ Values'[i] \in Int
  BY <1>1 DEF Values, AInv, Figures
<1> DEFINE S == OfLoan(l)
           f == Values
           h == Values'
<1> HIDE DEF S, f, h
<1>3. CASE \A i \in S : h[i] = f[i]
  BY <1>1, <1>2, <1>3, SumSame DEF S, f, h
<1>4. ASSUME NEW a \in S, NEW b \in S, a # b, f[a] + f[b] = h[a] + h[b],
             \A i \in S \ {a, b} : h[i] = f[i]
      PROVE  SumOver(h, S) = SumOver(f, S)
  BY <1>1, <1>2, <1>4, SumTransfer DEF S, f, h
<1> QED BY <1>3, <1>4 DEF S, f, h

LEMMA ConservedByLoans ==
    ASSUME AddsUp,
           \A l \in Loans : SumOver(Values', OfLoan(l)) = SumOver(Values, OfLoan(l))
    PROVE  AddsUp'
BY DEF AddsUp, Total, Values, OfLoan

\* One deferral of a loan at most gives its amount away when a run is locked.
LEMMA LockConserves == ASSUME CInv, NEW m \in Months, Lock(m) PROVE AddsUp'
<1>1. AInv /\ AInv' /\ AddsUp
  BY LockAmounts DEF CInv
<1>2. /\ inst' = Collected(m)
      /\ \A i \in Listed(m) \cup Postponed(m) : inst[i].status = "pending"
      /\ Listed(m) \cap Postponed(m) = {}
      /\ Listed(m) \cup Postponed(m) \subseteq Installments
  <2>1. inst' = Collected(m) /\ \A i \in Listed(m) \cup Postponed(m) : inst[i].status = "pending"
    BY DEF Lock, Open
  <2>2. Listed(m) \cap Postponed(m) = {} /\ Listed(m) \subseteq Installments
    BY <1>1 DEF AInv, IInv, Drafts, Shapes
  <2>3. Postponed(m) \subseteq Installments
    BY <1>1 DEF AInv, IInv, Shapes, IsDeferral, Postponed
  <2> QED BY <2>1, <2>2, <2>3
\* What becomes of one installment.
<1>3. ASSUME NEW i \in Installments
      PROVE  /\ i \in Postponed(m) /\ NextOf(i, m) # {} =>
                   Values[i] = inst[i].amount /\ Values'[i] = 0
             /\ ~(i \in Postponed(m) /\ NextOf(i, m) # {}) /\ Given(i, m) = {} =>
                   Values'[i] = Values[i]
             /\ Given(i, m) # {} =>
                   Values[i] = inst[i].amount /\ Values'[i] = inst[i].amount + Sum(Given(i, m))
  <2>1. /\ i \in Listed(m) => inst'[i].status = "paid"
        /\ i \in Postponed(m) \ Listed(m) /\ NextOf(i, m) # {} => inst'[i].status = "skipped"
        /\ i \notin Listed(m) /\ (i \in Postponed(m) => NextOf(i, m) = {}) =>
              inst'[i].status = inst[i].status
    BY <1>1, <1>2, CollectedRows DEF AInv, IInv
  <2>2. /\ inst'[i].amount = inst[i].amount + Sum(Given(i, m))
        /\ Given(i, m) # {} => i \notin Listed(m) \cup Postponed(m) /\ inst[i].status = "pending"
    BY <1>1, LockedAmounts
  <2>3. Given(i, m) = {} => inst'[i].amount = inst[i].amount
    <3>1. Given(i, m) = {} => Sum(Given(i, m)) = 0
      BY SumEmpty DEF Sum
    <3> QED BY <1>1, <2>2, <3>1 DEF AInv, Figures
  <2>4. /\ Values[i] = IF inst[i].status = "skipped" THEN 0 ELSE inst[i].amount
        /\ Values'[i] = IF inst'[i].status = "skipped" THEN 0 ELSE inst'[i].amount
    BY DEF Values
  <2> QED BY <1>2, <2>1, <2>2, <2>3, <2>4
<1>4. ASSUME NEW l \in Loans
      PROVE  SumOver(Values', OfLoan(l)) = SumOver(Values, OfLoan(l))
  <2>1. OfLoan(l) \subseteq Installments /\ \A i \in OfLoan(l) : LoanOf[i] = l
    BY DEF OfLoan
  <2>2. \A i \in OfLoan(l) : \A k \in Given(i, m) :
           k \in OfLoan(l) /\ k \in Postponed(m) /\ i \in NextOf(k, m)
    BY <1>2 DEF Given, NextOf, OfLoan
  <2>3. CASE \A k \in OfLoan(l) : k \in Postponed(m) => NextOf(k, m) = {}
    <3>1. \A i \in OfLoan(l) : Given(i, m) = {}
      BY <2>2, <2>3
    <3>2. \A i \in OfLoan(l) : Values'[i] = Values[i]
      BY <1>3, <2>1, <2>3, <3>1
    <3> QED BY <1>1, <3>2, Passed
  <2>4. ASSUME NEW k \in OfLoan(l), k \in Postponed(m), NextOf(k, m) # {}
        PROVE  SumOver(Values', OfLoan(l)) = SumOver(Values, OfLoan(l))
    <3>1. PICK d \in deferred[m] : d.id = k
      BY <2>4 DEF Postponed
    <3>2. PICK j \in Installments : j # k /\ LoanOf[j] = LoanOf[k] /\ NextOf(k, m) = {j}
      BY <1>1, <2>4, <3>1, CarriedEntry
    <3>3. j \in OfLoan(l)
      BY <2>1, <3>2 DEF OfLoan
    <3>4. \A i \in OfLoan(l) : i \in Postponed(m) => i = k
      BY <1>1, <2>1, <2>4 DEF AInv, OncePerLoan
    <3>5. Given(j, m) = {k}
      BY <2>2, <2>4, <3>2, <3>3, <3>4 DEF Given
    <3>6. \A i \in OfLoan(l) \ {j} : Given(i, m) = {}
      BY <2>2, <3>2, <3>4
    <3>7. Sum(Given(j, m)) = inst[k].amount /\ inst[k].amount \in Nat /\ inst[j].amount \in Nat
      <4>1. k \in Installments /\ inst[k].amount \in Nat /\ inst[j].amount \in Nat
        BY <1>1, <2>1 DEF AInv, Figures
      <4>2. Amounts[k] = inst[k].amount
        BY <4>1 DEF Amounts
      <4> QED BY <3>5, <4>1, <4>2, SumSingle DEF Sum
    <3>8. Values[k] = inst[k].amount /\ Values'[k] = 0
      BY <1>3, <2>1, <2>4
    <3>9. Values[j] = inst[j].amount /\ Values'[j] = inst[j].amount + inst[k].amount
      BY <1>3, <3>5, <3>7
    <3>10. Values[k] + Values[j] = Values'[k] + Values'[j]
      BY <3>7, <3>8, <3>9
    <3>11. \A i \in OfLoan(l) \ {k, j} : Values'[i] = Values[i]
      BY <1>3, <2>1, <3>4, <3>6
    <3> QED BY <1>1, <3>2, <3>3, <3>10, <3>11, Passed
  <2> QED BY <2>3, <2>4
<1> QED BY <1>1, <1>4, ConservedByLoans

\* The last locked run took at most one deferral of a loan away, and what took
\* its amount has not handed it on.
LEMMA UnlockConserves == ASSUME CInv, NEW m \in Months, Unlock(m) PROVE AddsUp'
<1>1. AInv /\ AInv' /\ AddsUp /\ Firm
  BY UnlockAmounts DEF CInv
<1>2. inst' = Reverted(m) /\ m \in Locked /\ \A n \in Locked : ~(n > m)
  BY DEF Unlock, LaterLocked, Locked
<1>3. ASSUME NEW i \in Installments
      PROVE  /\ inst[i].run = m => inst'[i].status = "pending"
             /\ inst[i].run # m => inst'[i].status = inst[i].status
             /\ inst'[i].amount = inst[i].amount - Sum(Taken(i, m))
             /\ Taken(i, m) = {} => inst'[i].amount = inst[i].amount
             /\ Values[i] = IF inst[i].status = "skipped" THEN 0 ELSE inst[i].amount
             /\ Values'[i] = IF inst'[i].status = "skipped" THEN 0 ELSE inst'[i].amount
  <2>1. /\ inst[i].run = m => inst'[i].status = "pending"
        /\ inst[i].run # m => inst'[i].status = inst[i].status
        /\ inst'[i].amount = inst[i].amount - Sum(Taken(i, m))
    BY <1>1, <1>2, RevertedRows DEF AInv, IInv
  <2>2. Taken(i, m) = {} => Sum(Taken(i, m)) = 0
    BY SumEmpty DEF Sum
  <2>3. inst[i].amount \in Nat
    BY <1>1 DEF AInv, Figures
  <2>4. Taken(i, m) = {} => inst'[i].amount = inst[i].amount
    BY <2>1, <2>2, <2>3
  <2> QED BY <2>1, <2>4 DEF Values
\* The deferrals that were merged.
<1>4. ASSUME NEW d \in deferred[m], d.mode = "merged"
      PROVE  /\ d.id \in Installments /\ d.id \in Postponed(m)
             /\ inst[d.id].status = "skipped" /\ inst[d.id].run = m
             /\ \E j \in Installments : /\ j # d.id /\ LoanOf[j] = LoanOf[d.id]
                                        /\ d.target = {j} /\ inst[j].status # "skipped"
  <2>1. m \in Months /\ d.id \in Installments /\ d.id \in Postponed(m)
    BY <1>1 DEF AInv, IInv, Shapes, IsDeferral, Postponed
  <2>2. inst[d.id].status = "skipped" /\ inst[d.id].run = m
    BY <1>1, <1>2, <1>4 DEF AInv, IInv, Kept
  <2>3. PICK j \in Installments : j # d.id /\ LoanOf[j] = LoanOf[d.id] /\ d.target = {j}
    BY <1>1, <1>4 DEF AInv, Entries
  <2>4. inst[j].status = "skipped" => inst[j].run > m
    BY <1>1, <1>2, <2>3 DEF Firm
  <2>5. inst[j].status = "skipped" => inst[j].run \in Locked
    BY <1>1 DEF AInv, IInv, Owned
  <2> QED BY <1>2, <2>1, <2>2, <2>3, <2>4, <2>5
<1>5. ASSUME NEW i \in Installments, NEW k \in Taken(i, m)
      PROVE  \E d \in deferred[m] : d.mode = "merged" /\ d.id = k /\ d.target = {i}
  <2>1. PICK d \in deferred[m] : d.id = k /\ i \in d.target
    BY <1>5 DEF Taken
  <2>2. d.mode = "merged"
    BY <1>1, <2>1 DEF AInv, Entries
  <2> QED BY <1>4, <2>1, <2>2
<1>6. ASSUME NEW i \in Installments, inst[i].status = "skipped", inst[i].run = m
      PROVE  \E d \in deferred[m] : d.mode = "merged" /\ d.id = i
  BY <1>1, <1>6 DEF AInv, IInv, Owned
<1>7. ASSUME NEW l \in Loans
      PROVE  SumOver(Values', OfLoan(l)) = SumOver(Values, OfLoan(l))
  <2>1. OfLoan(l) \subseteq Installments /\ \A i \in OfLoan(l) : LoanOf[i] = l
    BY DEF OfLoan
  <2>2. CASE \A d \in deferred[m] : d.mode = "merged" => LoanOf[d.id] # l
    <3>1. ASSUME NEW i \in OfLoan(l) PROVE Values'[i] = Values[i]
      <4>1. i \in Installments /\ LoanOf[i] = l
        BY <2>1
      <4>2. Taken(i, m) = {}
        <5> SUFFICES ASSUME NEW k \in Taken(i, m) PROVE FALSE
          OBVIOUS
        <5>1. PICK d \in deferred[m] : d.mode = "merged" /\ d.id = k /\ d.target = {i}
          BY <1>5, <4>1
        <5>2. LoanOf[d.id] = LoanOf[i]
          BY <1>4, <5>1
        <5> QED BY <2>2, <4>1, <5>1, <5>2
      <4>3. ~(inst[i].status = "skipped" /\ inst[i].run = m)
        BY <1>6, <2>2, <4>1
      <4>4. inst[i].run = m => inst[i].status # "skipped" /\ inst'[i].status # "skipped"
        BY <1>3, <4>1, <4>3
      <4> QED BY <1>3, <4>1, <4>2, <4>4
    <3> QED BY <1>1, <3>1, Passed
  <2>3. ASSUME NEW d \in deferred[m], d.mode = "merged", LoanOf[d.id] = l
        PROVE  SumOver(Values', OfLoan(l)) = SumOver(Values, OfLoan(l))
    <3>0. PICK k \in Installments : k = d.id
      BY <1>4, <2>3
    <3>1. k \in OfLoan(l) /\ k \in Postponed(m) /\ inst[k].status = "skipped" /\ inst[k].run = m
      BY <1>4, <2>3, <3>0 DEF OfLoan
    <3>2. PICK j \in Installments : /\ j # k /\ LoanOf[j] = LoanOf[k] /\ d.target = {j}
                                    /\ inst[j].status # "skipped"
      BY <1>4, <2>3, <3>0
    <3>3. j \in OfLoan(l)
      BY <2>3, <3>0, <3>2 DEF OfLoan
    <3>4. \A e \in deferred[m] : e.mode = "merged" /\ LoanOf[e.id] = l => e = d
      <4> SUFFICES ASSUME NEW e \in deferred[m], e.mode = "merged", LoanOf[e.id] = l PROVE e = d
        OBVIOUS
      <4>1. e.id \in Postponed(m) /\ d.id \in Postponed(m)
        BY <1>4, <2>3
      <4>2. e.id = d.id
        BY <1>1, <2>3, <4>1 DEF AInv, OncePerLoan
      <4> QED BY <1>1, <4>2 DEF AInv, OncePerLoan
    <3>5. ASSUME NEW i \in OfLoan(l), NEW x \in Taken(i, m) PROVE i = j /\ x = k
      <4>1. i \in Installments /\ LoanOf[i] = l
        BY <2>1
      <4>2. PICK e \in deferred[m] : e.mode = "merged" /\ e.id = x /\ e.target = {i}
        BY <1>5, <4>1
      <4>3. LoanOf[e.id] = LoanOf[i]
        BY <1>4, <4>2
      <4>4. e = d
        BY <3>4, <4>1, <4>2, <4>3
      <4> QED BY <3>0, <3>2, <4>2, <4>4
    <3>6. k \in Taken(j, m)
      BY <3>0, <3>2 DEF Taken
    <3>7. Taken(j, m) = {k} /\ \A i \in OfLoan(l) \ {j} : Taken(i, m) = {}
      BY <3>3, <3>5, <3>6
    <3>8. Sum(Taken(j, m)) = inst[k].amount /\ inst[k].amount \in Nat /\ inst[j].amount \in Nat
      <4>1. k \in Installments /\ inst[k].amount \in Nat /\ inst[j].amount \in Nat
        BY <1>1, <2>1, <3>1 DEF AInv, Figures
      <4>2. Amounts[k] = inst[k].amount
        BY <4>1 DEF Amounts
      <4>3. SumOver(Amounts, {k}) = Amounts[k]
        <5>1. Amounts[k] \in Int
          BY <4>1, <4>2
        <5> QED BY <5>1, SumSingle, Zenon
      <4>4. Sum(Taken(j, m)) = SumOver(Amounts, {k})
        BY <3>7 DEF Sum
      <4> QED BY <4>1, <4>2, <4>3, <4>4
    <3>9. Values[k] = 0 /\ Values'[k] = inst[k].amount
      <4>1. Taken(k, m) = {} /\ k \in Installments
        BY <2>1, <3>1, <3>2, <3>7
      <4> QED BY <1>3, <3>1, <4>1
    <3>10. Values[j] = inst[j].amount /\ Values'[j] = inst[j].amount - inst[k].amount
      <4>1. inst'[j].status # "skipped"
        BY <1>3, <3>2
      <4> QED BY <1>3, <3>2, <3>8, <4>1
    <3>11. Values[k] + Values[j] = Values'[k] + Values'[j]
      BY <3>8, <3>9, <3>10
    <3>12. ASSUME NEW i \in OfLoan(l) \ {k, j} PROVE Values'[i] = Values[i]
      <4>1. i \in Installments /\ LoanOf[i] = l /\ Taken(i, m) = {}
        BY <2>1, <3>7
      <4>2. ~(inst[i].status = "skipped" /\ inst[i].run = m)
        BY <1>6, <3>0, <3>4, <4>1
      <4>3. inst[i].run = m => inst[i].status # "skipped" /\ inst'[i].status # "skipped"
        BY <1>3, <4>1, <4>2
      <4> QED BY <1>3, <4>1, <4>3
    <3> QED BY <1>1, <3>1, <3>2, <3>3, <3>11, <3>12, Passed
  <2> QED BY <2>2, <2>3
<1> QED BY <1>1, <1>7, ConservedByLoans

LEMMA LockFirm == ASSUME CInv, NEW m \in Months, Lock(m), ~Overtaken(m) PROVE Firm'
<1>1. AInv /\ Firm
  BY DEF CInv
<1>2. /\ run[m] = "draft" /\ run' = [run EXCEPT ![m] = "locked"] /\ inst' = Collected(m)
      /\ deferred'[m] = {Carry(d, m) : d \in deferred[m]}
      /\ \A n \in Months \ {m} : deferred'[n] = deferred[n]
  BY <1>1 DEF Lock, AInv, IInv, Shapes
<1>3. Locked' = Locked \cup {m} /\ m \notin Locked /\ Locked \subseteq Months
  BY <1>1, <1>2 DEF Locked, AInv, IInv, Shapes
<1>4. ASSUME NEW j \in Installments, inst'[j].status \in {"paid", "skipped"}
      PROVE  IF j \in Listed(m) \cup Postponed(m) THEN inst'[j].run = m
             ELSE inst'[j].status = inst[j].status /\ inst'[j].run = inst[j].run
  <2>1. Listed(m) \cap Postponed(m) = {}
    BY <1>1 DEF AInv, IInv, Drafts
  <2>2. /\ j \in Listed(m) => inst'[j].run = m
        /\ j \in Postponed(m) \ Listed(m) /\ NextOf(j, m) # {} => inst'[j].run = m
        /\ j \notin Listed(m) /\ (j \in Postponed(m) => NextOf(j, m) = {}) =>
              inst'[j].status = inst[j].status /\ inst'[j].run = inst[j].run
    BY <1>1, <1>2, CollectedRows DEF AInv, IInv
  <2>3. j \in Postponed(m) => inst[j].status = "pending"
    BY DEF Lock, Open
  <2> QED BY <1>4, <2>1, <2>2, <2>3
<1>5. ASSUME NEW n \in Locked', NEW e \in deferred'[n], NEW j \in e.target,
             inst'[j].status \in {"paid", "skipped"}
      PROVE  inst'[j].run > n
  <2>1. CASE n = m
    <3>1. PICK d \in deferred[m] : e = Carry(d, m)
      BY <1>2, <2>1
    <3>2. j \in NextOf(d.id, m)
      BY <1>1, <1>5, <3>1, CarriedEntry
    <3>3. d.id \in Postponed(m) /\ j \in Installments
      BY <3>2 DEF Postponed, NextOf
    <3>4. Given(j, m) # {}
      BY <3>2, <3>3 DEF Given
    <3>5. j \notin Listed(m) \cup Postponed(m) /\ inst[j].status = "pending"
      BY <1>1, <3>3, <3>4, LockedAmounts
    <3>6. inst'[j].status = "pending"
      BY <1>4, <1>5, <3>3, <3>5
    <3> QED BY <1>5, <3>6
  <2>2. CASE n # m
    <3>1. n \in Locked /\ n \in Months /\ e \in deferred[n]
      BY <1>2, <1>3, <2>2
    <3>2. j \in Installments
      BY <1>1, <3>1 DEF AInv, Entries
    <3>3. CASE j \in Listed(m) \cup Postponed(m)
      <4>1. inst'[j].run = m
        BY <1>4, <1>5, <3>2, <3>3
      <4>2. ~(n > m)
        BY <3>1, <3>3 DEF Overtaken
      <4> QED BY <2>2, <3>1, <4>1, <4>2 DEF Months
    <3>4. CASE j \notin Listed(m) \cup Postponed(m)
      <4>1. inst'[j].status = inst[j].status /\ inst'[j].run = inst[j].run
        BY <1>4, <1>5, <3>2, <3>4
      <4> QED BY <1>1, <1>5, <3>1, <4>1 DEF Firm
    <3> QED BY <3>3, <3>4
  <2> QED BY <2>1, <2>2
<1> QED BY <1>5 DEF Firm

LEMMA UnlockFirm == ASSUME CInv, NEW m \in Months, Unlock(m) PROVE Firm'
<1>1. AInv /\ Firm
  BY DEF CInv
<1>2. /\ run' = [run EXCEPT ![m] = "draft"] /\ inst' = Reverted(m)
      /\ \A n \in Months \ {m} : deferred'[n] = deferred[n]
  BY <1>1 DEF Unlock, AInv, IInv, Shapes
<1>3. Locked' = Locked \ {m} /\ Locked \subseteq Months
  BY <1>1, <1>2 DEF Locked, AInv, IInv, Shapes
<1>4. ASSUME NEW n \in Locked', NEW d \in deferred'[n], NEW j \in d.target,
             inst'[j].status \in {"paid", "skipped"}
      PROVE  inst'[j].run > n
  <2>1. n \in Locked /\ n \in Months /\ d \in deferred[n]
    BY <1>2, <1>3
  <2>2. j \in Installments
    BY <1>1, <2>1 DEF AInv, Entries
  <2>3. inst'[j].status = inst[j].status /\ inst'[j].run = inst[j].run
    BY <1>1, <1>2, <1>4, <2>2, RevertedRows DEF AInv, IInv
  <2> QED BY <1>1, <1>4, <2>1, <2>3 DEF Firm
<1> QED BY <1>4 DEF Firm

\* Issuing and deleting loans, building and deleting drafts leave what was
\* collected and carried alone.
LEMMA RestConserves ==
    ASSUME CInv,
           \/ \E l \in Loans : Issue(l) \/ DeleteLoan(l)
           \/ \E m \in Months : (\E s \in Salaries : Build(m, s)) \/ Delete(m)
           \/ UNCHANGED vars
    PROVE  Firm' /\ AddsUp' /\ (AsListed => AsListed')
<1>1. AInv /\ Firm /\ AddsUp
  BY DEF CInv
<1>2. /\ Locked' = Locked
      /\ \A n \in Locked : deferred'[n] = deferred[n] /\ line'[n] = line[n]
      /\ \A i \in Installments :
            /\ inst'[i].amount = inst[i].amount /\ inst'[i].run = inst[i].run
            /\ inst'[i].status # inst[i].status =>
                  inst[i].status = "none" /\ inst'[i].status = "pending"
  <2>1. ASSUME NEW l \in Loans, Issue(l) PROVE <1>2
    <3>1. UNCHANGED <<run, line, deferred>> /\ loan[l] = "none"
      BY <2>1 DEF Issue
    <3>2. Locked' = Locked
      BY <3>1 DEF Locked
    <3>3. ASSUME NEW i \in Installments
          PROVE  /\ inst'[i].amount = inst[i].amount /\ inst'[i].run = inst[i].run
                 /\ inst'[i].status # inst[i].status =>
                       inst[i].status = "none" /\ inst'[i].status = "pending"
      <4>1. inst'[i] = IF LoanOf[i] = l THEN [inst[i] EXCEPT !.status = "pending"] ELSE inst[i]
        BY <2>1 DEF Issue
      <4>2. LoanOf[i] = l => inst[i].status = "none"
        BY <1>1, <3>1 DEF AInv, IInv, Issued
      <4>3. IsRow(inst[i]) /\ "pending" \in Statuses
        BY <1>1 DEF AInv, IInv, Shapes, Statuses
      <4> QED BY <4>1, <4>2, <4>3, SetStatus
    <3> QED BY <3>1, <3>2, <3>3
  <2>2. ASSUME NEW l \in Loans, DeleteLoan(l) PROVE <1>2
    BY <2>2 DEF DeleteLoan, Locked
  <2>3. ASSUME NEW m \in Months, NEW s \in Salaries, Build(m, s) PROVE <1>2
    <3>1. /\ run[m] # "locked" /\ run' = [run EXCEPT ![m] = "draft"] /\ inst' = inst
          /\ \A n \in Months \ {m} : deferred'[n] = deferred[n] /\ line'[n] = line[n]
      BY <1>1, <2>3 DEF Build, AInv, IInv, Shapes
    <3>2. Locked' = Locked /\ m \notin Locked /\ Locked \subseteq Months
      BY <1>1, <3>1 DEF Locked, AInv, IInv, Shapes
    <3> QED BY <3>1, <3>2
  <2>4. ASSUME NEW m \in Months, Delete(m) PROVE <1>2
    <3>1. /\ run[m] = "draft" /\ run' = [run EXCEPT ![m] = "absent"]
          /\ \A n \in Months \ {m} : deferred'[n] = deferred[n] /\ line'[n] = line[n]
      BY <1>1, <2>4 DEF Delete, AInv, IInv, Shapes
    <3>2. Locked' = Locked /\ m \notin Locked /\ Locked \subseteq Months
      BY <1>1, <3>1 DEF Locked, AInv, IInv, Shapes
    <3>3. \A i \in Installments : inst[i].run # m
      BY <1>1, <3>2 DEF AInv, IInv, Owned, Shapes, IsRow, Statuses, NoMonth, Months
    <3>4. inst' = inst
      BY <1>1, <2>4, <3>3 DEF Delete, AInv, IInv, Shapes
    <3> QED BY <3>1, <3>2, <3>4
  <2>5. CASE UNCHANGED vars
    BY <2>5 DEF vars, Locked
  <2> QED BY <2>1, <2>2, <2>3, <2>4, <2>5
<1>3. Firm'
  <2>1. ASSUME NEW n \in Locked', NEW d \in deferred'[n], NEW j \in d.target,
               inst'[j].status \in {"paid", "skipped"}
        PROVE  inst'[j].run > n
    <3>1. n \in Locked /\ n \in Months /\ d \in deferred[n]
      BY <1>2 DEF Locked
    <3>2. j \in Installments
      BY <1>1, <3>1 DEF AInv, Entries
    <3>3. inst'[j].status = inst[j].status /\ inst'[j].run = inst[j].run
      BY <1>2, <2>1, <3>2
    <3> QED BY <1>1, <2>1, <3>1, <3>3 DEF Firm
  <2> QED BY <2>1 DEF Firm
<1>4. \A i \in Installments : Values'[i] = Values[i]
  BY <1>2 DEF Values
<1>5. AddsUp'
  BY <1>1, <1>4, SameWorth
<1>6. ASSUME AsListed PROVE AsListed'
  <2>1. ASSUME NEW n \in Locked', NEW x \in line'[n] PROVE x.amount = inst'[x.id].amount
    <3>1. n \in Locked /\ n \in Months /\ x \in line[n]
      BY <1>2, <2>1 DEF Locked
    <3>2. x.id \in Installments
      BY <1>1, <3>1 DEF Listed, AInv, IInv, Shapes
    <3> QED BY <1>2, <1>6, <3>1, <3>2 DEF AsListed
  <2> QED BY <2>1 DEF AsListed
<1> QED BY <1>3, <1>5, <1>6

\* The run that is locked deducts its installments at the amounts of their rows,
\* and adds to rows that no run has deducted.
LEMMA LockListed ==
    ASSUME AInv, AsListed, NEW m \in Months, Lock(m), ~Outdated(m)
    PROVE  AsListed'
<1>1. Locked' = Locked \cup {m} /\ Locked \subseteq Months /\ line' = line
  <2>1. run' = [run EXCEPT ![m] = "locked"] /\ line' = line
    BY DEF Lock
  <2> QED BY <2>1 DEF Locked, AInv, IInv, Shapes
<1>2. ASSUME NEW n \in Locked', NEW x \in line'[n] PROVE x.amount = inst'[x.id].amount
  <2>1. n \in Months /\ x \in line[n] /\ x.id \in Listed(n) /\ x.id \in Installments
    BY <1>1 DEF Listed, AInv, IInv, Shapes
  <2>2. x.amount = inst[x.id].amount
    BY <1>1, <2>1 DEF AsListed, Outdated
  <2>3. Given(x.id, m) = {}
    <3>1. n # m => inst[x.id].status = "paid"
      BY <1>1, <2>1 DEF AInv, IInv, Kept
    <3> QED BY <2>1, <3>1, LockedAmounts
  <2>4. Sum(Given(x.id, m)) = 0
    BY <2>3, SumEmpty DEF Sum
  <2>5. inst[x.id].amount \in Nat
    BY <2>1 DEF AInv, Figures
  <2>6. inst'[x.id].amount = inst[x.id].amount + Sum(Given(x.id, m))
    BY <2>1, LockedAmounts
  <2> QED BY <2>2, <2>4, <2>5, <2>6
<1> QED BY <1>2 DEF AsListed

\* The last locked run has added to no row that an earlier one has deducted.
LEMMA UnlockListed ==
    ASSUME AInv, Firm, AsListed, NEW m \in Months, Unlock(m)
    PROVE  AsListed'
<1>1. /\ Locked' = Locked \ {m} /\ m \in Locked /\ Locked \subseteq Months
      /\ line' = line /\ inst' = Reverted(m)
      /\ \A n \in Locked : ~(n > m)
  <2>1. /\ run[m] = "locked" /\ run' = [run EXCEPT ![m] = "draft"]
        /\ line' = line /\ inst' = Reverted(m) /\ ~LaterLocked(m)
    BY DEF Unlock
  <2> QED BY <2>1 DEF Locked, LaterLocked, AInv, IInv, Shapes
<1>2. ASSUME NEW n \in Locked', NEW x \in line'[n] PROVE x.amount = inst'[x.id].amount
  <2>1. n \in Locked /\ n \in Months /\ x \in line[n] /\ x.id \in Listed(n) /\ x.id \in Installments
    BY <1>1 DEF Listed, AInv, IInv, Shapes
  <2>2. x.amount = inst[x.id].amount /\ inst[x.id].amount \in Nat
    BY <2>1 DEF AsListed, AInv, Figures
  <2>3. inst[x.id].status = "paid" /\ inst[x.id].run = n
    BY <2>1 DEF AInv, IInv, Kept
  <2>4. Taken(x.id, m) = {}
    <3>1. ASSUME NEW d \in deferred[m], x.id \in d.target PROVE FALSE
      BY <1>1, <2>1, <2>3, <3>1 DEF Firm
    <3> QED BY <3>1 DEF Taken
  <2>5. Sum(Taken(x.id, m)) = 0
    BY <2>4, SumEmpty DEF Sum
  <2>6. inst'[x.id].amount = inst[x.id].amount - Sum(Taken(x.id, m))
    BY <1>1, <2>1, RevertedRows DEF AInv, IInv
  <2> QED BY <2>2, <2>5, <2>6
<1> QED BY <1>2 DEF AsListed

LEMMA InitConserved == Init => CInv
<1> SUFFICES ASSUME Init PROVE CInv
  OBVIOUS
<1>1. AInv
  BY AInvInit
<1>2. Firm
  BY DEF Init, Firm, Locked
<1>3. [i \in Installments |-> IF inst[i].status = "skipped" THEN 0 ELSE inst[i].amount]
         = [i \in Installments |-> DueAmount[i]]
  BY DEF Init
<1>4. DueAmount = [i \in Installments |-> DueAmount[i]]
  BY LoanAssumption
<1>5. AddsUp
  BY <1>3, <1>4 DEF AddsUp
<1> QED BY <1>1, <1>2, <1>5 DEF CInv

LEMMA HistoryStep == ASSUME HInv, [Next]_vars PROVE HInv'
<1>1. AInv'
  BY AmountsStep DEF HInv
<1>2. ASSUME NEW m \in Months, Lock(m) PROVE HInv'
  <2>1. overtaken' = (overtaken \/ Overtaken(m)) /\ outdated' = (outdated \/ Outdated(m))
    BY <1>2 DEF Lock
  <2>2. ASSUME ~overtaken' PROVE CInv'
    <3>1. CInv /\ ~Overtaken(m)
      BY <2>1, <2>2 DEF HInv, Recorded
    <3> QED BY <1>1, <1>2, <3>1, LockFirm, LockConserves DEF CInv
  <2>3. ASSUME ~overtaken', ~outdated' PROVE AsListed'
    <3>1. AInv /\ AsListed /\ ~Outdated(m)
      BY <2>1, <2>3 DEF HInv, Recorded
    <3> QED BY <1>2, <3>1, LockListed
  <2> QED BY <1>1, <2>1, <2>2, <2>3 DEF HInv, Recorded
<1>3. ASSUME ~(\E m \in Months : Lock(m)) PROVE HInv'
  <2>1. overtaken' = overtaken /\ outdated' = outdated
    BY <1>3 DEF Next, vars, history, Issue, DeleteLoan, Build, Delete, Unlock
  <2>2. ASSUME CInv PROVE Firm' /\ AddsUp' /\ (AsListed => AsListed')
    <3>1. ASSUME NEW m \in Months, Unlock(m) PROVE Firm' /\ AddsUp' /\ (AsListed => AsListed')
      BY <2>2, <3>1, UnlockFirm, UnlockConserves, UnlockListed DEF CInv
    <3>2. \/ \E l \in Loans : Issue(l) \/ DeleteLoan(l)
          \/ \E m \in Months : (\E s \in Salaries : Build(m, s)) \/ Delete(m)
          \/ UNCHANGED vars
          \/ \E m \in Months : Unlock(m)
      BY <1>3, Zenon DEF Next
    <3> QED BY <2>2, <3>1, <3>2, RestConserves
  <2> QED BY <1>1, <2>1, <2>2 DEF HInv, Recorded, CInv
<1> QED BY <1>2, <1>3

\* When locked runs have deducted what the rows say, the money adds up as the
\* rows do.
LEMMA RowsAreMoney == ASSUME AInv, AsListed, AddsUp PROVE Repaid
<1>1. ASSUME NEW i \in Installments, inst[i].status = "paid"
      PROVE  Deducted(i) = inst[i].amount
  <2>1. inst[i].run \in Locked /\ i \in Listed(inst[i].run)
    BY <1>1 DEF AInv, IInv, Owned
  <2>2. \E x \in line[inst[i].run] : x.id = i
    BY <2>1 DEF Listed
  <2>3. \A x \in line[inst[i].run] : x.id = i => x.amount = inst[i].amount
    BY <2>1 DEF AsListed
  <2> QED BY <2>2, <2>3 DEF Deducted
<1>2. ASSUME NEW i \in Installments
      PROVE  (CASE inst[i].status = "skipped" -> 0
                [] inst[i].status = "paid" -> Deducted(i)
                [] OTHER -> inst[i].amount)
             = IF inst[i].status = "skipped" THEN 0 ELSE inst[i].amount
  BY <1>1
<1>3. [i \in Installments |-> CASE inst[i].status = "skipped" -> 0
                               [] inst[i].status = "paid" -> Deducted(i)
                               [] OTHER -> inst[i].amount]
      = [i \in Installments |-> IF inst[i].status = "skipped" THEN 0 ELSE inst[i].amount]
  BY <1>2
<1> QED BY <1>3 DEF Repaid, AddsUp

\* Until a draft is locked that names an installment a later locked run has added
\* to, the rows of a loan add up to the loan, whatever was deferred, merged,
\* collected, given back and carried again; and until a draft is locked that was
\* built before an amount it lists changed, so does the money that was deducted
\* and is still to be deducted.
THEOREM Conserved == Spec => []LoanConserved
<1>1. Init => HInv
  BY AInvInit, InitConserved DEF HInv, Recorded, Init, AsListed, Locked
<1>2. HInv => LoanConserved
  BY RowsAreMoney DEF HInv, CInv, LoanConserved
<1> QED BY <1>1, <1>2, HistoryStep, PTL DEF Spec

\* The rows of a loan add up to it whenever the months are locked in their order.
THEOREM ConservedInOrder ==
    Init /\ [][Next /\ \A m \in Months : Lock(m) => ~LaterLocked(m)]_vars => []AddsUp
<1> DEFINE InOrder == Next /\ \A m \in Months : Lock(m) => ~LaterLocked(m)
<1>1. Init => HInv /\ ~overtaken
  BY AInvInit, InitConserved DEF HInv, Recorded, Init, AsListed, Locked
<1>2. HInv /\ ~overtaken /\ [InOrder]_vars => (HInv /\ ~overtaken)'
  <2> SUFFICES ASSUME HInv, ~overtaken, [InOrder]_vars PROVE HInv' /\ ~overtaken'
    OBVIOUS
  <2>1. HInv'
    BY HistoryStep
  <2>2. ASSUME NEW m \in Months, Lock(m) PROVE ~overtaken'
    <3>1. \/ overtaken' = overtaken
          \/ overtaken' = (overtaken \/ Overtaken(m)) /\ ~LaterLocked(m)
      <4>1. CASE UNCHANGED vars
        BY <4>1 DEF vars, history
      <4>2. CASE InOrder
        <5>1. ~LaterLocked(m)
          BY <2>2, <4>2
        <5>2. overtaken' = (overtaken \/ Overtaken(m))
          BY <2>2 DEF Lock
        <5> QED BY <5>1, <5>2
      <4> QED BY <4>1, <4>2
    <3>2. ~LaterLocked(m) => ~Overtaken(m)
      BY Zenon DEF Overtaken, LaterLocked, Locked
    <3> QED BY <3>1, <3>2
  <2>3. ASSUME ~(\E m \in Months : Lock(m)) PROVE overtaken' = overtaken
    BY <2>3 DEF Next, vars, history, Issue, DeleteLoan, Build, Delete, Unlock
  <2> QED BY <2>1, <2>2, <2>3
<1>3. HInv /\ ~overtaken => AddsUp
  BY DEF HInv, CInv
<1> QED BY <1>1, <1>2, <1>3, PTL

=============================================================================
