SPECIFICATION FairReportSpec
CONSTANTS
    LastDay = 1
    DayLength = 4
    SendTimes = {1, 2}
    CatchUp = 2
    r1 = r1 r2 = r2
    Roles = {r1, r2}
    Full = Full
    a = a b = b
    Jobs = {a, b}
    MaxFaults = 1
    MaxSaves = 1
INVARIANTS MarkedIsSent OncePerDay
PROPERTIES Arrives
