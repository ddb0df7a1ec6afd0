SPECIFICATION Spec
CONSTANTS
    i1 = i1 i2 = i2 j1 = j1
    LastMonth = 3
    LastLoan = 2
    Installments = {i1, i2, j1}
    LoanOf <- MCLoanOf
    DueMonth <- MCDueMonth
    DueAmount <- MCDueAmount
    Salaries = {0, 1, 2, 4}
INVARIANTS TypeOK LoanConserved PaidOnce LoanPaidWhenCollected
CHECK_DEADLOCK FALSE
