\* Goroutines run on; nobody promises a restart. A race and a build fit into the limit.
SPECIFICATION FairSpec
CONSTANTS
    Accounts = {a1}
    Scopes = {s1}
    Runs = {u1, u2}
    Plans = {p1}
    None = None
    Limit = 12
INVARIANTS
    ToldIsStored
    SucceededDelivered
PROPERTIES
    RunsEnd
