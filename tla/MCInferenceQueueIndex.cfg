CONSTANTS
    r1 = r1
    r2 = r2
    vip = vip
    p1 = p1
    p2 = p2
    u = u
    v = v
    Req = {r1, r2}
    Proc = {p1, p2}
    Pid = {7}
    NoOwner = NoOwner
    ProcOf <- MCProcOf
    PidOf <- MCPidOf
    OwnerOf <- MCOwnerOf
    Lanes <- MCHosted
    PriorityOf <- MCPriorityOf
    MaxConcurrent <- MCMaxConcurrent
    MaxDepth = 2
    MaxPerOwner = 2
    Lease = 2
    Grace = 1
    RenewEvery = 1
    MaxDelay = 1
    MemoryChecked = FALSE
    Timely = {p1, p2}
SPECIFICATION Spec
INVARIANTS NoStorageFailure
