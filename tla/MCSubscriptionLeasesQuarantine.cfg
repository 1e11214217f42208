CONSTANTS
    r1 = r1
    r2 = r2
    a1 = a1
    a2 = a2
    u = u
    Request = {r1}
    Account = {a1}
    Person = {u}
    NoRequest = NoRequest
    NoAccount = NoAccount
    PersonOf <- MCPersonOf
    Allowed <- MCAllowed
    Pieces = 2
    Lease = 1
    RenewEvery = 1
    Cooldown = 1
    Timely = {r1}
    Governed = {}
SPECIFICATION Spec
INVARIANTS UncertainIsDisabled
