SPECIFICATION Spec
CONSTANTS
    ali = ali mona = mona a = a b = b
    A1 = A1 B1 = B1 C1 = C1 A2 = A2
    absence = absence loan = loan
    NoRun = NoRun Nobody = Nobody
    Employees = {ali}
    Branches = {a, b}
    Months = {1, 2}
    Items = {}
    Workers = {w1, w2}
    Runs = {A1, B1}
    RunMonth <- MCRunMonth
    RunBranches <- MCRunBranches
    Consolidated <- MCConsolidated
    ItemEmployee <- MCItemEmployee
    ItemMonth <- MCItemMonth
    Installments <- MCInstallments
    HomeBranch <- MCHomeBranch
    MaxStaffChanges = 1
INVARIANT NoDoublePay
