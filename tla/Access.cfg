SPECIFICATION Spec
CONSTANTS
    Addresses = {a1, a2}
    Clients = {a1, a2}
    People = {p1, p2}
    Tokens = {t1, t2}
    Requests = {q1, q2}
    Apps = {app}
    None = None
    Base = 3
    Places = 2
SYMMETRY Alike
INVARIANTS
    OwnerRemains
    ActsForItself
    LoggedOutStaysOut
