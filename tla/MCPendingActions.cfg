SPECIFICATION Spec
CONSTANTS
    ali = ali mona = mona clerk = clerk manager = manager hr = hr officer = officer
    NoUser = NoUser NoEmployee = NoEmployee NoRequest = NoRequest
    Requests = {r1, r2}
    Employees = {ali}
    Sponsored = {ali}
    Users = {clerk, manager, hr, officer}
    Submitters = {clerk, officer}
    FirstApprovers = {manager}
    Managers = {hr}
    Officers = {officer}
    Accountants = {manager}
    Superusers = {hr}
    Admins = {hr}
    Returners = {manager, officer}
    Kinds = {"settlement", "reactivate", "cash_shortage", "loan_request"}
    Workers = {w1}
    MaxResubmits = 1
    MaxEdits = 1
INVARIANTS ExecutedOnce ApprovedInThisRound StatusMatchesExecution SignedAfterLastEdit
PROPERTIES SettlesInService ExecutedFrozen
SYMMETRY Symmetry
