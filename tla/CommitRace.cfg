\* Two members race; a build may outlast its lease.
SPECIFICATION Spec
CONSTANTS
    Accounts = {a1, a2}
    Candidates = {c1, c2}
    Requests = {r1, r2}
    s1 = s1
    s2 = s2
    Snapshots = {s1, s2}
    None = None
    MaxPolicy = 1
    Accepted <- MCAcceptAll
    CompileTimeout = 1
    LeaseMargin = 1
    ClaimDelay = 3
SYMMETRY Interchangeable
INVARIANTS
    VersionsBacked
    AnswersHold
    NoLeakedLease
    OneCurrentBuild
PROPERTIES
    EvidenceKept
    EvidenceFenced
    KeepsPromise
