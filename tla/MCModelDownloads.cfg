CONSTANTS
    m1 = m1
    Job = {j1}
    Model = {m1}
    ModelOf <- MCModelOf
    Run = {r1, r2}
    Proc = {p1, p2}
    Request = {d1}
    Limit = 1
    Installed = {}
    NoRun = NoRun
    NoJob = NoJob
    NoProc = NoProc
    NoModel = NoModel
    Free = Free
SPECIFICATION FairSpec
CHECK_DEADLOCK FALSE
INVARIANTS
    KeptIsServed
    MarkedIsUnwanted
PROPERTIES
    PullsEnd
    DeletionsEnd
