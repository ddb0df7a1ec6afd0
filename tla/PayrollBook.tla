---------------------------- MODULE PayrollBook ----------------------------
(***************************************************************************)
(* What the payroll promises: a book in which a run is open or closed.     *)
(* Closing a run pays a set of employees, each at most once a month, and   *)
(* collects a set of deduction items, each at most once ever.  A closed    *)
(* run stays as it is until it is reopened, which gives its items back and *)
(* is refused while a later month of one of its employees is closed.       *)
(***************************************************************************)
EXTENDS Naturals

CONSTANTS Employees, Items, Runs, RunMonth, ItemEmployee, NoRun

VARIABLES
    closed,   \* the closed runs
    paid,     \* paid[r]: the employees a closed run pays, {} for an open one
    owner     \* owner[i]: the closed run that collected item i

vars == <<closed, paid, owner>>

Init ==
    /\ closed = {}
    /\ paid = [r \in Runs |-> {}]
    /\ owner = [i \in Items |-> NoRun]

Close(r, E, I) ==
    /\ r \notin closed
    /\ \A s \in closed : RunMonth[s] = RunMonth[r] => paid[s] \cap E = {}
    /\ \A i \in I : owner[i] = NoRun /\ ItemEmployee[i] \in E
    /\ closed' = closed \cup {r}
    /\ paid' = [paid EXCEPT ![r] = E]
    /\ owner' = [i \in Items |-> IF i \in I THEN r ELSE owner[i]]

Reopen(r) ==
    /\ r \in closed
    /\ \A s \in closed : RunMonth[s] > RunMonth[r] => paid[s] \cap paid[r] = {}
    /\ closed' = closed \ {r}
    /\ paid' = [paid EXCEPT ![r] = {}]
    /\ owner' = [i \in Items |-> IF owner[i] = r THEN NoRun ELSE owner[i]]

Next ==
    \E r \in Runs :
        \/ \E E \in SUBSET Employees, I \in SUBSET Items : Close(r, E, I)
        \/ Reopen(r)

Spec == Init /\ [][Next]_vars

=============================================================================
