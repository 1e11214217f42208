CONSTANTS
    p1 = p1
    s1 = s1
    u = u
    NoRun = NoRun
    SessionOf <- MCSessionOf
    UserOf <- MCUserOf
    Lease = 1
    RenewEvery = 1
    Run = {r1, r2}
    Proc = {p1}
    Session = {s1}
    ProcOf <- MCOneProc
    Timely = {p1}
    Admin = {}
    MaxUsage = 1
SPECIFICATION Spec
PROPERTIES
    GivenUpStaysStale
