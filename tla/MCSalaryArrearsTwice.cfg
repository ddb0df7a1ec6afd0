SPECIFICATION Spec
CONSTANTS
    LastMonth = 3
    Salaries = {1, 2, 3}
    FirstSalary = 2
    MaxChanges = 3
INVARIANT ArrearsOnce
