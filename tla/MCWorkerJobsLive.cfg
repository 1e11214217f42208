CONSTANTS
    w1 = w1
    w2 = w2
    u = u
    Job = {j1}
    Worker = {w1}
    Account = {u}
    UserOf <- MCUserOf
    Pieces <- MCPieces
    Cap = 1
    MaxRequeues = 1
    MaxPolls = 1
    MaxNet = 1
    Governed = {w1}
    NoWorker = NoWorker
    NoJob = NoJob
SPECIFICATION FairSpec
CHECK_DEADLOCK FALSE
INVARIANTS
    DisabledHoldsNothing
PROPERTIES
    StreamEnds
    JobEnds
    HeartbeatStops
