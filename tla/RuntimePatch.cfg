\* Two requests change different fields of one record.
SPECIFICATION Spec
CONSTANTS
    Requests = {r1, r2}
    Users = {u1}
    RecordIds = {i1}
    tasks = tasks
    title = title
    note = note
    short = short
    long = long
    many = many
    Fields = {title, note}
    Values = {short, long}
    TypeOf <- MCTypeOf
    Backends <- MCTwoFields
    Nobody = Nobody
    RecordLimit = 1
    MaxVersion = 1
PROPERTIES
    PatchKeepsRest
