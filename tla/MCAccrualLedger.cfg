SPECIFICATION Spec
CONSTANTS
  LastMonth = 2
  DaysInMonth = 2
  Accrual = 2
  Openings = {5}
  Cutovers = {3}
  Rates = {0, 1}
  EndDates = {2}
  Workers = {w1, w2}
  MaxRows = 3
SYMMETRY Symmetry
INVARIANTS TypeOK MonthsAccrued BalanceIsSum AgreesWithRecalculation
