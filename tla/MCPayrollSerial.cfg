SPECIFICATION Spec
CONSTANTS
    ali = ali mona = mona a = a b = b
    A1 = A1 B1 = B1 C1 = C1 A2 = A2
    absence = absence loan = loan
    NoRun = NoRun Nobody = Nobody
    Employees = {ali, mona}
    Branches = {a, b}
    Months = {1, 2}
    Items = {absence}
    Workers = {w1}
    Runs = {A1, B1, C1, A2}
    RunMonth <- MCRunMonth
    RunBranches <- MCRunBranches
    Consolidated <- MCConsolidated
    ItemEmployee <- MCItemEmployee
    ItemMonth <- MCItemMonth
    Installments <- MCInstallments
    HomeBranch <- MCHomeBranch
    MaxStaffChanges = 1
INVARIANTS NoDoublePay ChargedOnce LedgerMatchesLines
PROPERTIES LockedFrozen ImplementsBook
