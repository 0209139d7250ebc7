\* Handlers run to their end and time passes. No step between reading the clock and
\* claiming lasts as long as the lease margin, and a restart may change the policy.
SPECIFICATION FairSpec
CONSTANTS
    Accounts = {a1}
    Candidates = {c1}
    Requests = {r1, r2}
    s1 = s1
    s2 = s2
    Snapshots = {s1, s2}
    None = None
    MaxPolicy = 2
    Accepted <- MCAccepted
    CompileTimeout = 1
    LeaseMargin = 2
    ClaimDelay = 1
INVARIANTS
    OneBuildPerCandidate
PROPERTIES
    SafeAtCommit
    RequestsEnd
    LeaseFreed
