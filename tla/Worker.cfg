\* Three requests for two build slots and one artifact.
SPECIFICATION FairSpec
CONSTANTS
    Requests = {r1, r2, r3}
    Artifacts = {x}
    MaxConcurrentBuilds = 2
INVARIANTS
    BuildsSupervised
    AnnouncedStays
    ServedGenuine
PROPERTIES
    RequestsEnd
