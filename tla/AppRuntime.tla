------------------------------ MODULE AppRuntime ------------------------------
(***************************************************************************)
(* The backend of one generated application: its builder provisions a      *)
(* schema and later extends it, while the application's users create,      *)
(* change and delete records under the schema they found.  A request is a  *)
(* few statements, each a transaction of its own; other requests run       *)
(* between them.                                                           *)
(***************************************************************************)
EXTENDS Naturals, FiniteSets, Functions

CONSTANTS Requests,      \* the requests that can be under way at once
          Users,         \* accounts of the application
          RecordIds,     \* identifiers of records, never given twice
          Fields,        \* names a collection's fields and a record's data can have
          Values,        \* what a field can hold
          TypeOf,        \* the type of a value, by value
          Backends,      \* the schemas the builder may ask for
          Nobody,        \* no account: what a public record has for an owner
          RecordLimit,   \* how many records a collection may have
          MaxVersion     \* bound on the versions of the schema

ASSUME RuntimeAssumption == /\ Nobody \notin Users
                            /\ RecordLimit \in Nat /\ MaxVersion \in Nat \ {0}

\* The specs that pass validateProvision: records with owners need accounts.
Field == [type: {TypeOf[v] : v \in Values}, required: BOOLEAN]
Collection == [access: {"public", "owner"}, fields: UNION {[F -> Field] : F \in SUBSET Fields}]
Provisionable(b) ==
    /\ b.auth \in {"none", "email_password"}
    /\ \A c \in DOMAIN b.collections :
        /\ b.collections[c] \in Collection
        /\ b.collections[c].access = "owner" => b.auth = "email_password"

ASSUME BackendsAssumption == Backends # {} /\ \A b \in Backends : Provisionable(b)

VARIABLES
    project,             \* the row of the application; version 0 when there is none
    records,             \* the stored records, by identifier
    spent,               \* the identifiers given so far
    request,             \* what each request is doing, and what it has read
    told                 \* the versions answered to provisioning, with what they were asked for

vars == <<project, records, spent, request, told>>

Names == UNION {DOMAIN b.collections : b \in Backends}
Data  == UNION {[F -> Values] : F \in SUBSET Fields}
Record == [collection: Names, owner: Users \cup {Nobody}, data: Data]

AnyBackend == CHOOSE b \in Backends : TRUE
AnyName    == CHOOSE n \in Names : TRUE
AnyId      == CHOOSE i \in RecordIds : TRUE
NoData     == [f \in {} |-> CHOOSE v \in Values : TRUE]

Project == [version: 0..MaxVersion, backend: Backends]
Request == [at: {"idle", "find", "provision", "context", "insert", "get", "update", "delete"},
            attempt: 1..2, asked: Backends, found: Project,
            op: {"create", "update", "delete"}, user: Users \cup {Nobody},
            collection: Names \cup {AnyName}, id: RecordIds \cup {AnyId},
            patch: Data, data: Data]

NoRequest == [at |-> "idle", attempt |-> 1, asked |-> AnyBackend,
              found |-> [version |-> 0, backend |-> AnyBackend],
              op |-> "create", user |-> Nobody, collection |-> AnyName, id |-> AnyId,
              patch |-> NoData, data |-> NoData]

Init ==
    /\ project = [version |-> 0, backend |-> AnyBackend]
    /\ records = [i \in {} |-> NoData]
    /\ spent = {}
    /\ request = [r \in Requests |-> NoRequest]
    /\ told = {}

\* Every row and request has its shape, and only known identifiers have a record.
TypeOK ==
    /\ project \in Project
    /\ spent \subseteq RecordIds /\ IsFiniteSet(spent)
    /\ DOMAIN records \subseteq spent
    /\ \A i \in DOMAIN records : records[i] \in Record
    /\ request \in [Requests -> Request]
    /\ told \subseteq Project
    /\ \A r \in Requests :
        /\ request[r].found.version <= project.version
        /\ request[r].at \in {"insert", "get", "update", "delete"} => request[r].found.version > 0

Becomes(r, next) == request' = [request EXCEPT ![r] = next]
Ends(r) == Becomes(r, NoRequest)

-----------------------------------------------------------------------------
(* Provisioning.                                                           *)

AskProvision(r, b) ==
    /\ request[r].at = "idle"
    /\ Becomes(r, [NoRequest EXCEPT !.at = "find", !.asked = b])
    /\ UNCHANGED <<project, records, spent, told>>

Kept(old, new) == DOMAIN old \subseteq DOMAIN new /\ \A f \in DOMAIN old : new[f] = old[f]

\* Fields stay as they are, and a new one has to be optional.
FieldsKept(old, new) == Kept(old, new)
FieldsCompatible(old, new) ==
    /\ Kept(old, new)
    /\ \A f \in DOMAIN new \ DOMAIN old : ~new[f].required

ensureCompatible(old, new) ==
    /\ old.auth = "email_password" => new.auth = "email_password"
    /\ \A c \in DOMAIN old.collections :
        /\ c \in DOMAIN new.collections
        /\ old.collections[c].access = new.collections[c].access
        /\ FieldsCompatible(old.collections[c].fields, new.collections[c].fields)

\* What was asked for is there already, cannot be had, or is to be written.
Find(r) ==
    LET q == request[r]
        unchanged == project.version > 0 /\ project.backend = q.asked
    IN  /\ q.at = "find"
        /\ IF \/ unchanged
              \/ project.version > 0 /\ ~ensureCompatible(project.backend, q.asked)
           THEN Ends(r)
           ELSE Becomes(r, [q EXCEPT !.at = "provision", !.found = project])
        /\ told' = IF unchanged THEN told \cup {project} ELSE told
        /\ UNCHANGED <<project, records, spent>>

\* Whoever finds another version written looks once more, and then gives up.
Again(r, attempts) ==
    IF request[r].attempt < attempts
    THEN Becomes(r, [NoRequest EXCEPT !.at = "find", !.asked = request[r].asked,
                                      !.attempt = request[r].attempt + 1])
    ELSE Ends(r)
Retry(r) == Again(r, 2)

\* The row is created, or replaced if it still has the version that was found.
CreateProject(r) == request[r].found.version = 0 /\ project.version = 0
UpdateAny(r) == request[r].found.version > 0
UpdateBackend(r) == request[r].found.version > 0 /\ project.version = request[r].found.version

Provision(r) ==
    LET q    == request[r]
        next == [version |-> q.found.version + 1, backend |-> q.asked]
    IN  /\ q.at = "provision"
        /\ q.found.version < MaxVersion
        /\ IF CreateProject(r) \/ UpdateBackend(r)
           THEN /\ project' = [next EXCEPT !.version = project.version + 1]
                /\ told' = told \cup {next}
                /\ Ends(r)
           ELSE /\ Retry(r)
                /\ UNCHANGED <<project, told>>
        /\ UNCHANGED <<records, spent>>

-----------------------------------------------------------------------------
(* Records.                                                                *)

AskRecord(r, op, user, collection, id, data) ==
    /\ request[r].at = "idle"
    /\ IF op = "create" THEN id = AnyId ELSE id \in spent
    /\ op = "delete" => data = NoData
    /\ Becomes(r, [NoRequest EXCEPT !.at = "context", !.op = op, !.user = user,
                                    !.collection = collection, !.id = id, !.patch = data])
    /\ UNCHANGED <<project, records, spent, told>>

\* Every field is known and holds its type; a whole record has the required ones.
Fits(fields, data) == \A f \in DOMAIN data : f \in DOMAIN fields /\ TypeOf[data[f]] = fields[f].type
Whole(fields, data) == \A f \in DOMAIN fields : fields[f].required => f \in DOMAIN data

validateRecord(fields, data, create) ==
    /\ create \/ data # NoData
    /\ Fits(fields, data)
    /\ create => Whole(fields, data)

\* The collection as the request found it, and the owner its records have for it.
FieldsOf(q)  == q.found.backend.collections[q.collection].fields
Owner(q) == IF q.found.backend.collections[q.collection].access = "public"
            THEN Nobody ELSE q.user

\* There is an application, it has the collection, and its owner is known.
Admitted(q) ==
    /\ q.found.version > 0
    /\ q.collection \in DOMAIN q.found.backend.collections
    /\ q.found.backend.collections[q.collection].access = "owner" => q.user # Nobody

Context(r) ==
    LET q == [request[r] EXCEPT !.found = project]
    IN  /\ q.at = "context"
        /\ IF ~Admitted(q) THEN Ends(r)
           ELSE \/ /\ q.op = "create"
                   /\ IF validateRecord(FieldsOf(q), q.patch, TRUE)
                      THEN Becomes(r, [q EXCEPT !.at = "insert"]) ELSE Ends(r)
                \/ /\ q.op = "update"
                   /\ IF validateRecord(FieldsOf(q), q.patch, FALSE)
                      THEN Becomes(r, [q EXCEPT !.at = "get"]) ELSE Ends(r)
                \/ /\ q.op = "delete"
                   /\ Becomes(r, [q EXCEPT !.at = "delete"])
        /\ UNCHANGED <<project, records, spent, told>>

In(collection) == {i \in DOMAIN records : records[i].collection = collection}
WithinLimit(collection) == Cardinality(In(collection)) < RecordLimit

\* The count and the insertion are one statement.
Insert(r, id) ==
    LET q == request[r]
    IN  /\ q.at = "insert"
        /\ id \notin spent
        /\ IF WithinLimit(q.collection)
           THEN /\ records' = [i \in DOMAIN records \cup {id} |->
                                 IF i = id THEN [collection |-> q.collection, owner |-> Owner(q),
                                                 data |-> q.patch]
                                 ELSE records[i]]
                /\ spent' = spent \cup {id}
           ELSE UNCHANGED <<records, spent>>
        /\ Ends(r)
        /\ UNCHANGED <<project, told>>

\* A statement reaches the record it names, in its collection and of its owner.
ReachesAny(q) == q.id \in In(q.collection)
Reaches(q) ==
    /\ q.id \in In(q.collection)
    /\ Owner(q) # Nobody => records[q.id].owner = Owner(q)

Merged(data, patch) == [f \in DOMAIN data \cup DOMAIN patch |->
                          IF f \in DOMAIN patch THEN patch[f] ELSE data[f]]

MergesWell(q, data) == validateRecord(FieldsOf(q), data, TRUE)

Get(r) ==
    LET q == request[r]
    IN  /\ q.at = "get"
        /\ IF Reaches(q) /\ MergesWell(q, Merged(records[q.id].data, q.patch))
           THEN Becomes(r, [q EXCEPT !.at = "update",
                                     !.data = Merged(records[q.id].data, q.patch)])
           ELSE Ends(r)
        /\ UNCHANGED <<project, records, spent, told>>

\* The two statements that change a record, or find none to change.
Written(q) == IF Reaches(q) THEN [records EXCEPT ![q.id].data = q.data] ELSE records
Erased(q)  == IF Reaches(q) THEN Restrict(records, DOMAIN records \ {q.id}) ELSE records

\* The whole data is written, whatever became of it since it was read.
Update(r) ==
    LET q == request[r]
    IN  /\ q.at = "update"
        /\ records' = Written(q)
        /\ Ends(r)
        /\ UNCHANGED <<project, spent, told>>

Delete(r) ==
    LET q == request[r]
    IN  /\ q.at = "delete"
        /\ records' = Erased(q)
        /\ Ends(r)
        /\ UNCHANGED <<project, spent, told>>

\* The client leaves, the process stops, or a statement fails.
Lost(r) ==
    /\ request[r].at # "idle"
    /\ Ends(r)
    /\ UNCHANGED <<project, records, spent, told>>

-----------------------------------------------------------------------------

Provisioning == \E r \in Requests :
    \/ \E b \in Backends : AskProvision(r, b)
    \/ Find(r)
    \/ Provision(r)

Serving == \E r \in Requests :
    \/ \E op \in {"create", "update", "delete"}, user \in Users \cup {Nobody},
          collection \in Names, id \in RecordIds, data \in Data :
            AskRecord(r, op, user, collection, id, data)
    \/ Context(r)
    \/ \E id \in RecordIds : Insert(r, id)
    \/ Get(r)
    \/ Update(r)
    \/ Delete(r)
    \/ Lost(r)

Next == Provisioning \/ Serving

Spec == Init /\ [][Next]_vars

-----------------------------------------------------------------------------
(* Properties.                                                             *)

\* Every stored record is one the current schema admits, in its fields and in its
\* owner, although it was checked against a schema that may have been extended
\* before it was written (recordContext, ensureCompatible); and no collection has more
\* than its limit, however many are created at once (InsertRecordWithinLimit).
Admits(backend, rec) ==
    /\ rec.collection \in DOMAIN backend.collections
    /\ LET c == backend.collections[rec.collection]
       IN  /\ validateRecord(c.fields, rec.data, TRUE)
           /\ c.access = "public" <=> rec.owner = Nobody
Conforms(rec) == project.version > 0 /\ Admits(project.backend, rec)
RecordsConform ==
    /\ \A i \in DOMAIN records : Conforms(records[i])
    /\ \A c \in Names : Cardinality(In(c)) <= RecordLimit

\* Only its owner's requests change or remove a record that has an owner, whatever the
\* builder does to the collection meanwhile (addOwnerScope, ensureCompatible).
Touched(i) == i \in DOMAIN records' => records'[i] # records[i]
OwnersAlone ==
    [][\A i \in DOMAIN records :
          records[i].owner # Nobody /\ Touched(i)
             => \E r \in Requests : /\ request[r].user = records[i].owner
                                    /\ request[r].at \in {"update", "delete"}
                                    /\ request'[r].at = "idle"]_records

\* A builder that was told a version can rely on it: no other schema has had that
\* version, and what replaced it since still admits all it admitted (Provision).
VersionsReliable ==
    \A t \in told :
        /\ t.version \in 1..project.version
        /\ t.version = project.version => t.backend = project.backend
        /\ ensureCompatible(t.backend, project.backend)
        /\ \A u \in told : u.version = t.version => u.backend = t.backend

\* A change of a record sets the fields its patch names and leaves the others as
\* they are (UpdateRecord), which the repository's test shows for one client alone.
Differs(old, new, f) == \/ (f \in DOMAIN old) # (f \in DOMAIN new)
                        \/ f \in DOMAIN old \cap DOMAIN new /\ old[f] # new[f]
PatchesOnly(r) ==
    /\ request[r].at = "update" /\ request'[r].at = "idle"
    /\ \A i \in DOMAIN records \cap DOMAIN records', f \in Fields :
          Differs(records[i].data, records'[i].data, f) => f \in DOMAIN request[r].patch
PatchKeepsRest ==
    [][(\E i \in DOMAIN records \cap DOMAIN records' : records[i] # records'[i])
         => \E r \in Requests : PatchesOnly(r)]_records
=============================================================================
