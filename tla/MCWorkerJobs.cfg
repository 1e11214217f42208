CONSTANTS
    w1 = w1
    w2 = w2
    u = u
    Job = {j1}
    Worker = {w1, w2}
    Account = {u}
    UserOf <- MCUserOf
    Pieces <- MCPieces
    Cap = 1
    MaxRequeues = 1
    MaxPolls = 1
    MaxNet = 1
    Governed = {}
    NoWorker = NoWorker
    NoJob = NoJob
SPECIFICATION Spec
CHECK_DEADLOCK FALSE
INVARIANTS
    KeepsOrder
PROPERTIES
    PausedForItsJob
    CompletedIsDelivered
    ImplementsAnswerStream
