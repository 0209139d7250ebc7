\* A plan and two builds, or a plan and a race, fit into the limit and no more: two builds
\* may want the one approval, by two accounts and for two scopes.
SPECIFICATION Spec
CONSTANTS
    Accounts = {a1, a2}
    Scopes = {s1, s2}
    Runs = {u1, u2, u3}
    Plans = {p1}
    None = None
    Limit = 9
SYMMETRY Interchangeable
CONSTRAINT TwoUnderWay
INVARIANTS
    WithinLimit
    OneBuildPerApproval
    AuditTellsAll
    NoRowForgotten
