\* Two clients save over each other while two versions are published. Their
\* documents differ in the versions they hold and in the active one; three
\* revisions leave room for a save, one that overtakes it and one on top of both.
SPECIFICATION Spec
CONSTANTS
    Clients = {c, d}
    Notes = {n}
    MaxVersions = 2
    MaxRevision = 3
SYMMETRY Interchangeable
INVARIANTS
    NewestActive
    Trusted
PROPERTIES
    DocumentForward
    NoBlindOverwrite
