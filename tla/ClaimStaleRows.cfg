SPECIFICATION Spec
CHECK_DEADLOCK FALSE
CONSTANTS
    DM = 45
    FD = 2000
    FDD = 4
    TXS = 121
    CTXS = 121801
    MSTR = 2
    MMSTR = 4
    WWIM = 2
    QQ_SIZE = 14
    MinMinutiae = 4
    MaxRows = 60
    MaxGroups = 9
    MaxMinutiae = 9
    TanHalf <- MCTanHalf
    Jobs <- MCJobs
INVARIANT RowsOfThisTable
