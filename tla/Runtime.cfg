\* Two requests at once, of builders or of two users, on a collection that has room
\* for one record.
SPECIFICATION Spec
CONSTANTS
    Requests = {r1, r2}
    Users = {u1, u2}
    RecordIds = {i1, i2}
    tasks = tasks
    title = title
    note = note
    short = short
    long = long
    many = many
    Fields = {title, note}
    Values = {short, many}
    TypeOf <- MCTypeOf
    Backends <- MCBackends
    Nobody = Nobody
    RecordLimit = 1
    MaxVersion = 3
SYMMETRY Interchangeable
INVARIANTS
    RecordsConform
    VersionsReliable
PROPERTIES
    OwnersAlone
