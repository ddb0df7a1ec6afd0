SPECIFICATION Spec
CONSTANTS
    Officers = {o1}
    Manager = Manager
    Nobody = Nobody
    Data = {draft, d1, d2}
    Complete = {d1, d2}
    EmptyForm = draft
    NoEmployee = NoEmployee
    Workers = {w1, w2}
    MaxRounds = 1
SYMMETRY Symmetry
INVARIANTS TypeOK NeverUnapproved EmployeeMatchesRequest ApprovedThisRound
PROPERTIES HiredOnce RejectionKept
CHECK_DEADLOCK FALSE
