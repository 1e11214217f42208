CONSTANTS
    r1 = r1
    r2 = r2
    a1 = a1
    a2 = a2
    u = u
    Request = {r1, r2}
    Account = {a1, a2}
    Person = {u}
    NoRequest = NoRequest
    NoAccount = NoAccount
    PersonOf <- MCPersonOf
    Allowed <- MCAllowed
    Pieces = 2
    Lease = 1
    RenewEvery = 1
    Cooldown = 1
    Timely = {r1}
    Governed = {a1}
SPECIFICATION Spec
INVARIANTS
    ExclusiveUse
    UsageIsRecorded
    StrayIsQuarantined
    OneRestPerPerson
PROPERTIES
    ImplementsAnswerStream
