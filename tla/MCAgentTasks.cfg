CONSTANTS
    t1 = t1
    r1 = r1
    r2 = r2
    b1 = b1
    b2 = b2
    NoRun = NoRun
    NoBox = NoBox
    NoTask = NoTask
    Task = {t1}
    Run = {r1, r2}
    TaskOf <- MCTaskOf
    Box = {b1, b2}
    Places = 1
    MaxPending = 1
    MaxJobs = 1
CHECK_DEADLOCK FALSE
SPECIFICATION FairSpec
INVARIANTS
    LiveBoxIsNamed
    ReclaimSparesRuns
    NoMessageForgotten
PROPERTIES
    StopEnds
    BoxesGo
