CONSTANTS
    a1 = a1
    i1 = i1
    p1 = p1
    u = u
    Account = {u}
    UserOf <- MCUserOf
    Lease = 1
    RenewEvery = 1
    HoldTtl = 3
    Answer = {a1}
    Proc = {p1}
    ProcOf <- MCOneProc
    Barrable = {u}
    Unmetered = {}
    Budget = 3
    Want = 2
    Price = 2
    BeatEvery = 1
    Image = {i1}
    DrawnOn <- MCDrawnOn
    DrawnFor <- MCDrawnFor
    Loads <- MCBoth
    Timely = {p1}
SPECIFICATION FairSpec
INVARIANTS
    TokensSpentOnce
    SuccessIsCharged
    LeaseKept
PROPERTIES
    ImplementsAnswerBilling
    BarredIsStopped
    LeftoversRecovered
    HoldsEnd
