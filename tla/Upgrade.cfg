\* Every database that can be told apart here, with rows from before and after the
\* upgrade; two crashes let a start fail on what a failed start left.
SPECIFICATION Spec
CONSTANTS
    Rows = {r1, r2}
    MaxCrashes = 2
INVARIANTS
    ServesWhole
PROPERTIES
    NothingDropped
    ComesUp
