--------------------------- MODULE AppRuntimeProofs ---------------------------
(* Proofs about AppRuntime, for any schemas, users, records and requests.  *)
EXTENDS AppRuntime, FiniteSetTheorems, TLAPS

-----------------------------------------------------------------------------
(* The inductive invariant.                                                *)

\* The record a request is about to insert.
Inserted(q) == [collection |-> q.collection, owner |-> Owner(q), data |-> q.patch]

\* What request q found may be old by now: p is the application as it is, and still
\* admits what the request was checked for.
Sound(q, p) ==
    /\ q.found.version > 0 => ensureCompatible(q.found.backend, p.backend)
    /\ q.found.version > 0 /\ q.found.version = p.version => q.found.backend = p.backend
    /\ q.at = "provision" /\ q.found.version > 0 => ensureCompatible(q.found.backend, q.asked)
    /\ q.at \in {"insert", "get", "update", "delete"} => Admitted(q)
    /\ q.at = "insert" => Admits(q.found.backend, Inserted(q))
    /\ q.at = "update" => validateRecord(FieldsOf(q), q.data, TRUE)

IInv ==
    /\ TypeOK
    /\ \A r \in Requests : Sound(request[r], project)
    /\ RecordsConform
    /\ VersionsReliable

-----------------------------------------------------------------------------
(* Compatibility is a preorder, under which what was admitted stays so.    *)

\* Asking for the schema there is changes nothing.
LEMMA CompatibleWithItself == ASSUME NEW b PROVE ensureCompatible(b, b)
BY SMT DEF ensureCompatible, FieldsCompatible, Kept

\* Fields added in two steps are fields added.
LEMMA FieldsOnwards ==
    ASSUME NEW f, NEW g, NEW h, FieldsCompatible(f, g), FieldsCompatible(g, h)
    PROVE  FieldsCompatible(f, h)
BY SMT DEF FieldsCompatible, Kept

LEMMA CompatibleOnwards ==
    ASSUME NEW a, NEW b, NEW c, ensureCompatible(a, b), ensureCompatible(b, c)
    PROVE  ensureCompatible(a, c)
<1>1. a.auth = "email_password" => c.auth = "email_password"
    BY SMT DEF ensureCompatible
<1>2. ASSUME NEW n \in DOMAIN a.collections
      PROVE  /\ n \in DOMAIN c.collections
             /\ a.collections[n].access = c.collections[n].access
             /\ FieldsCompatible(a.collections[n].fields, c.collections[n].fields)
    <2>1. /\ n \in DOMAIN b.collections
          /\ a.collections[n].access = b.collections[n].access
          /\ FieldsCompatible(a.collections[n].fields, b.collections[n].fields)
        BY <1>2 DEF ensureCompatible
    <2>2. /\ n \in DOMAIN c.collections
          /\ b.collections[n].access = c.collections[n].access
          /\ FieldsCompatible(b.collections[n].fields, c.collections[n].fields)
        BY <2>1 DEF ensureCompatible
    <2> QED
        BY <2>1, <2>2, FieldsOnwards
<1> QED
    BY <1>1, <1>2 DEF ensureCompatible

\* A whole record stays valid: what it has is kept, and what is new is optional.
LEMMA ValidOnwards ==
    ASSUME NEW old, NEW new, FieldsCompatible(old, new), NEW data,
           validateRecord(old, data, TRUE)
    PROVE  validateRecord(new, data, TRUE)
<1>1. Fits(new, data)
    BY SMT DEF FieldsCompatible, Kept, validateRecord, Fits
<1>2. Whole(new, data)
    BY SMT DEF FieldsCompatible, Kept, validateRecord, Whole
<1> QED
    BY <1>1, <1>2 DEF validateRecord

LEMMA AdmittedOnwards ==
    ASSUME NEW old, NEW new, ensureCompatible(old, new), NEW rec, Admits(old, rec)
    PROVE  Admits(new, rec)
<1> DEFINE c == rec.collection
<1>1. /\ c \in DOMAIN new.collections
      /\ old.collections[c].access = new.collections[c].access
      /\ FieldsCompatible(old.collections[c].fields, new.collections[c].fields)
    BY DEF Admits, ensureCompatible
<1>2. /\ validateRecord(old.collections[c].fields, rec.data, TRUE)
      /\ old.collections[c].access = "public" <=> rec.owner = Nobody
    BY DEF Admits
<1>3. validateRecord(new.collections[c].fields, rec.data, TRUE)
    BY <1>1, <1>2, ValidOnwards
<1> QED
    BY <1>1, <1>2, <1>3 DEF Admits

-----------------------------------------------------------------------------
(* Requests.                                                               *)

\* A request that found the application, or an older one, is as sound in a later one.
LEMMA SoundOnwards ==
    ASSUME NEW q, NEW p, NEW n, Sound(q, p),
           q.found.version \in Nat, p.version \in Nat, n.version \in Nat,
           q.found.version <= p.version, p.version < n.version,
           q.found.version > 0 => ensureCompatible(p.backend, n.backend)
    PROVE  Sound(q, n)
<1>1. q.found.version > 0 => ensureCompatible(q.found.backend, n.backend)
    BY CompatibleOnwards DEF Sound
<1>2. q.found.version # n.version
    OBVIOUS
<1> QED
    BY <1>1, <1>2 DEF Sound

LEMMA DataType ==
    /\ NoData \in Data
    /\ \A d \in Data : DOMAIN d \subseteq Fields /\ \A f \in DOMAIN d : d[f] \in Values
    /\ \A F \in SUBSET Fields : [F -> Values] \subseteq Data
<1>1. NoData \in [{} -> Values]
    BY DEF NoData
<1> QED
    BY <1>1 DEF Data

LEMMA MergedType == ASSUME NEW d \in Data, NEW e \in Data PROVE Merged(d, e) \in Data
<1>1. Merged(d, e) \in [DOMAIN d \cup DOMAIN e -> Values]
    BY DataType DEF Merged
<1>2. DOMAIN d \cup DOMAIN e \subseteq Fields
    BY DataType
<1> QED
    BY <1>1, <1>2, DataType

LEMMA AnyBackendType == AnyBackend \in Backends
BY BackendsAssumption DEF AnyBackend

LEMMA NoRequestType == NoRequest \in Request
<1>1. [version |-> 0, backend |-> AnyBackend] \in Project
    BY AnyBackendType, RuntimeAssumption DEF Project
<1> QED
    BY <1>1, AnyBackendType, DataType DEF NoRequest, Request

LEMMA VersionType ==
    ASSUME NEW p \in Project
    PROVE  /\ p.version \in Nat /\ p.version <= MaxVersion /\ 0 <= p.version
           /\ p.backend \in Backends
BY RuntimeAssumption, SMT DEF Project

\* What a request has to be, whatever the application is by now.
Well(q, p) ==
    /\ q \in Request
    /\ q.found.version <= p.version
    /\ q.at \in {"insert", "get", "update", "delete"} => q.found.version > 0
    /\ Sound(q, p)

\* A request that knows nothing is sound.
LEMMA AsksWell ==
    ASSUME NEW q \in Request, NEW p \in Project,
           q.found.version = 0, q.at \in {"idle", "find", "context"}
    PROVE  Well(q, p)
<1>1. ~ (q.found.version > 0)
    BY SMT
<1>2. q.at \notin {"provision", "insert", "get", "update", "delete"}
    OBVIOUS
<1>3. Sound(q, p)
    BY <1>1, <1>2 DEF Sound
<1>4. q.found.version <= p.version
    BY VersionType
<1> QED
    BY <1>2, <1>3, <1>4 DEF Well

\* The requests are sound if the one that moved is, and the others still are.
LEMMA OneMoves ==
    ASSUME request \in [Requests -> Request], NEW r \in Requests, NEW next, Becomes(r, next),
           Well(next, project'), \A s \in Requests : Well(request[s], project')
    PROVE  /\ request' \in [Requests -> Request]
           /\ \A s \in Requests : Well(request[s], project)'
BY SMT DEF Becomes, Well

\* A request that has ended is as good as any.
LEMMA NoneIsWell == ASSUME NEW p \in Project PROVE Well(NoRequest, p)
<1>1. NoRequest.found.version = 0 /\ NoRequest.at = "idle"
    BY DEF NoRequest
<1> QED
    BY <1>1, AsksWell, NoRequestType

-----------------------------------------------------------------------------
(* The records.                                                            *)

\* Where the requests stand, taken from the invariant and back.
LEMMA AllWell == IInv => \A r \in Requests : Well(request[r], project)
BY DEF IInv, TypeOK, Well

\* With the records and the application as they were, only the requests matter.
LEMMA OnlyRequests ==
    ASSUME IInv, UNCHANGED <<project, records, spent>>, told' \subseteq Project, VersionsReliable',
           request' \in [Requests -> Request], \A s \in Requests : Well(request[s], project)'
    PROVE  IInv'
<1>1. TypeOK'
    BY SMT DEF IInv, TypeOK, Well
<1>2. \A r \in Requests : Sound(request[r], project)'
    BY DEF Well
<1>3. RecordsConform'
    BY SMT DEF IInv, RecordsConform, Conforms, In
<1> QED
    BY <1>1, <1>2, <1>3 DEF IInv

\* The step of a request that reads, or only ends.
LEMMA OneRequest ==
    ASSUME IInv, UNCHANGED <<project, records, spent, told>>,
           NEW r \in Requests, NEW next, Becomes(r, next), Well(next, project)
    PROVE  IInv'
<1>1. /\ request' \in [Requests -> Request]
      /\ \A s \in Requests : Well(request[s], project)'
    BY AllWell, OneMoves DEF IInv, TypeOK
<1>2. told' \subseteq Project /\ VersionsReliable'
    BY SMT DEF IInv, TypeOK, VersionsReliable
<1> QED
    BY <1>1, <1>2, OnlyRequests

\* The step of a request that writes the records, and ends.
LEMMA OneWriter ==
    ASSUME IInv, UNCHANGED <<project, told>>, NEW r \in Requests, Ends(r),
           spent' \subseteq RecordIds, IsFiniteSet(spent'), DOMAIN records' \subseteq spent',
           \A i \in DOMAIN records' : records'[i] \in Record /\ Conforms(records'[i]),
           \A c \in Names : Cardinality(In(c)') <= RecordLimit
    PROVE  IInv'
<1>1. /\ request' \in [Requests -> Request]
      /\ \A s \in Requests : Well(request[s], project)'
    <2>1. Well(NoRequest, project)
        BY NoneIsWell DEF IInv, TypeOK
    <2> QED
        BY <2>1, AllWell, OneMoves DEF IInv, TypeOK, Ends
<1>2. TypeOK'
    BY <1>1 DEF IInv, TypeOK, Well
<1>3. \A s \in Requests : Sound(request[s], project)'
    BY <1>1 DEF Well
<1>4. RecordsConform'
    BY SMT DEF RecordsConform, Conforms
<1>5. VersionsReliable'
    BY SMT DEF IInv, VersionsReliable
<1> QED
    BY <1>2, <1>3, <1>4, <1>5 DEF IInv

-----------------------------------------------------------------------------
(* One step after the other.                                               *)

LEMMA Initially == Init => IInv
<1> SUFFICES ASSUME Init
             PROVE  IInv
    OBVIOUS
<1>1. project \in Project
    BY AnyBackendType, RuntimeAssumption DEF Init, Project
<1>2. DOMAIN records = {}
    BY DEF Init
<1>3. \A r \in Requests : Well(request[r], project)
    BY <1>1, NoneIsWell DEF Init
<1>4. TypeOK
    <2>1. request \in [Requests -> Request]
        BY NoRequestType DEF Init
    <2> QED
        BY <1>1, <1>2, <1>3, <2>1, FS_EmptySet DEF Init, TypeOK, Well
<1>5. RecordsConform
    <2>1. \A c \in Names : In(c) = {}
        BY <1>2 DEF In
    <2>2. Cardinality({}) = 0
        BY FS_EmptySet
    <2> QED
        BY <1>2, <2>1, <2>2, RuntimeAssumption, SMT DEF RecordsConform
<1>6. VersionsReliable
    BY DEF Init, VersionsReliable
<1> QED
    BY <1>3, <1>4, <1>5, <1>6 DEF IInv, Well

LEMMA AskProvisionStep ==
    ASSUME IInv, NEW r \in Requests, NEW b \in Backends, AskProvision(r, b)
    PROVE  IInv'
<1> DEFINE next == [NoRequest EXCEPT !.at = "find", !.asked = b]
<1>1. next \in Request /\ next.found.version = 0 /\ next.at = "find"
    BY NoRequestType DEF NoRequest, Request
<1>2. Well(next, project)
    BY <1>1, AsksWell DEF IInv, TypeOK
<1> QED
    BY <1>2, OneRequest DEF AskProvision

LEMMA FindStep == ASSUME IInv, NEW r \in Requests, Find(r) PROVE IInv'
<1> DEFINE q == request[r]
           found == [q EXCEPT !.at = "provision", !.found = project]
<1>1. q \in Request /\ project \in Project /\ Well(q, project)
    BY AllWell DEF IInv, TypeOK
<1>2. CASE project.version > 0 /\ project.backend = q.asked
    <2>1. Ends(r) /\ told' = told \cup {project} /\ UNCHANGED <<project, records, spent>>
        BY <1>2 DEF Find
    <2>2. /\ request' \in [Requests -> Request]
          /\ \A s \in Requests : Well(request[s], project)'
        BY <1>1, <2>1, AllWell, NoneIsWell, OneMoves DEF IInv, TypeOK, Ends
    <2>3. told' \subseteq Project
        BY <1>1, <2>1 DEF IInv, TypeOK
    <2>4. VersionsReliable'
        <3>1. project.version \in 1..project.version
            BY <1>1, <1>2, SMT DEF Project
        <3>2. ensureCompatible(project.backend, project.backend)
            BY CompatibleWithItself
        <3> QED
            BY <2>1, <3>1, <3>2 DEF IInv, VersionsReliable
    <2> QED
        BY <2>1, <2>2, <2>3, <2>4, OnlyRequests
<1>3. CASE ~ (project.version > 0 /\ project.backend = q.asked)
    <2>1. UNCHANGED <<project, records, spent, told>>
        BY <1>3 DEF Find
    <2>2. CASE project.version > 0 /\ ~ensureCompatible(project.backend, q.asked)
        BY <1>1, <1>3, <2>1, <2>2, NoneIsWell, OneRequest DEF Find, Ends
    <2>3. CASE ~ (project.version > 0 /\ ~ensureCompatible(project.backend, q.asked))
        <3>1. Becomes(r, found)
            BY <1>3, <2>3 DEF Find
        <3>2. found \in Request /\ found.at = "provision" /\ found.found = project
                /\ found.asked = q.asked
            BY <1>1 DEF Request
        <3>3. Sound(found, project)
            BY <2>3, <3>2, CompatibleWithItself DEF Sound
        <3>4. Well(found, project)
            BY <1>1, <3>2, <3>3, SMT DEF Well, Project
        <3> QED
            BY <2>1, <3>1, <3>4, OneRequest
    <2> QED
        BY <2>2, <2>3
<1> QED
    BY <1>2, <1>3
\* What is written is told, and extends what every request and builder knows of.
LEMMA ProvisionStep == ASSUME IInv, NEW r \in Requests, Provision(r) PROVE IInv'
<1> DEFINE q == request[r]
           next == [version |-> q.found.version + 1, backend |-> q.asked]
           again == [NoRequest EXCEPT !.at = "find", !.asked = q.asked, !.attempt = q.attempt + 1]
<1>1. q \in Request /\ project \in Project /\ Well(q, project)
    BY AllWell DEF IInv, TypeOK
<1>2. CASE CreateProject(r) \/ UpdateBackend(r)
    <2>1. /\ project.version = q.found.version
          /\ project' = next
          /\ told' = told \cup {next}
          /\ Ends(r)
          /\ UNCHANGED <<records, spent>>
        BY <1>1, <1>2, SMT DEF Provision, CreateProject, UpdateBackend
    <2>2. project' \in Project /\ project.version \in Nat /\ project.version < project'.version
            /\ project'.version = project.version + 1
        <3>1. project.version < MaxVersion
            BY <1>1, <2>1 DEF Provision
        <3>2. project.version + 1 \in 0..MaxVersion /\ q.asked \in Backends
            BY <1>1, <3>1, VersionType, RuntimeAssumption, SMT DEF Request
        <3>3. project'.version = project.version + 1
            BY <2>1
        <3> QED
            BY <1>1, <2>1, <3>2, <3>3, VersionType DEF Project
    <2>3. project.version > 0 => ensureCompatible(project.backend, project'.backend)
        BY <1>1, <2>1 DEF Well, Sound, Provision
    <2>4. \A s \in Requests : Well(request[s], project')
        <3>1. ASSUME NEW s \in Requests
              PROVE  Well(request[s], project')
            <4>1. /\ Well(request[s], project)
                  /\ request[s].found.version \in Nat
                  /\ request[s].found.version <= project.version
                BY <3>1, AllWell DEF Well, Request, Project
            <4>2. request[s].found.version > 0 => project.version > 0
                BY <2>2, <4>1, SMT
            <4>3. Sound(request[s], project')
                BY <2>2, <2>3, <4>1, <4>2, SoundOnwards DEF Well, Project
            <4>4. request[s].found.version <= project'.version
                BY <2>2, <4>1, SMT
            <4> QED
                BY <4>1, <4>3, <4>4 DEF Well
        <3> QED
            BY <3>1
    <2>5. /\ request' \in [Requests -> Request]
          /\ \A s \in Requests : Well(request[s], project)'
        BY <2>1, <2>2, <2>4, NoneIsWell, OneMoves DEF IInv, TypeOK, Ends
    <2>6. TypeOK'
        BY <2>1, <2>2, <2>5 DEF IInv, TypeOK, Well
    <2>7. VersionsReliable'
        <3>1. ASSUME NEW t \in told
              PROVE  /\ t.version \in 1..project.version
                     /\ ensureCompatible(t.backend, project'.backend)
            <4>1. t.version \in 1..project.version /\ ensureCompatible(t.backend, project.backend)
                BY DEF IInv, VersionsReliable
            <4>2. project.version > 0
                BY <2>2, <4>1, SMT
            <4> QED
                BY <2>3, <4>1, <4>2, CompatibleOnwards
        <3>2. ensureCompatible(project'.backend, project'.backend)
            BY CompatibleWithItself
        <3>3. \A t \in told : t.version \in 1..project'.version /\ t.version # project'.version
            BY <2>2, <3>1, SMT
        <3>4. project'.version \in 1..project'.version
            BY <2>2, SMT
        <3>5. \A t, u \in told : u.version = t.version => u.backend = t.backend
            BY DEF IInv, VersionsReliable
        <3> QED
            BY <2>1, <3>1, <3>2, <3>3, <3>4, <3>5 DEF VersionsReliable
    <2>8. RecordsConform'
        <3>1. ASSUME NEW i \in DOMAIN records
              PROVE  Conforms(records[i])'
            <4>1. project.version > 0 /\ Admits(project.backend, records[i])
                BY <3>1 DEF IInv, RecordsConform, Conforms
            <4>2. Admits(project'.backend, records[i])
                BY <2>3, <4>1, AdmittedOnwards
            <4>3. project'.version > 0
                BY <2>2, SMT
            <4> QED
                BY <2>1, <4>2, <4>3 DEF Conforms
        <3>2. \A c \in Names : In(c)' = In(c)
            BY <2>1 DEF In
        <3> QED
            BY <2>1, <3>1, <3>2 DEF IInv, RecordsConform
    <2> QED
        BY <2>5, <2>6, <2>7, <2>8 DEF IInv, Well
<1>3. CASE ~ (CreateProject(r) \/ UpdateBackend(r))
    <2>1. UNCHANGED <<project, records, spent, told>> /\ Retry(r)
        BY <1>3 DEF Provision
    <2>2. CASE q.attempt < 2
        <3>1. Becomes(r, again)
            BY <2>1, <2>2 DEF Retry, Again
        <3>2. again \in Request /\ again.found.version = 0 /\ again.at = "find"
            <4>1. q.attempt + 1 \in 1..2 /\ q.asked \in Backends
                BY <1>1, <2>2, SMT DEF Request
            <4> QED
                BY <4>1, NoRequestType DEF NoRequest, Request
        <3>3. Well(again, project)
            BY <1>1, <3>2, AsksWell
        <3> QED
            BY <2>1, <3>1, <3>3, OneRequest
    <2>3. CASE ~ (q.attempt < 2)
        BY <1>1, <2>1, <2>3, NoneIsWell, OneRequest DEF Retry, Again, Ends
    <2> QED
        BY <2>2, <2>3
<1> QED
    BY <1>2, <1>3
\* A collection of a schema has a name, and its records have owners or none.
LEMMA CollectionType ==
    ASSUME NEW b \in Backends, NEW c \in DOMAIN b.collections
    PROVE  c \in Names /\ b.collections[c].access \in {"public", "owner"}
<1>1. b.collections[c] \in Collection
    BY BackendsAssumption DEF Provisionable
<1> QED
    BY <1>1 DEF Names, Collection

LEMMA AskRecordStep ==
    ASSUME IInv, NEW r \in Requests, NEW op \in {"create", "update", "delete"},
           NEW user \in Users \cup {Nobody}, NEW collection \in Names, NEW id \in RecordIds,
           NEW data \in Data, AskRecord(r, op, user, collection, id, data)
    PROVE  IInv'
<1> DEFINE next == [NoRequest EXCEPT !.at = "context", !.op = op, !.user = user,
                                     !.collection = collection, !.id = id, !.patch = data]
<1>1. next \in Request /\ next.found.version = 0 /\ next.at = "context"
    BY NoRequestType DEF NoRequest, Request
<1>2. Well(next, project)
    BY <1>1, AsksWell DEF IInv, TypeOK
<1> QED
    BY <1>2, OneRequest DEF AskRecord

\* A request that goes on with what it found just now.
LEMMA FoundWell ==
    ASSUME NEW p \in Project, NEW q \in Request, q.found = p, Admitted(q),
           NEW at \in {"insert", "get", "delete"},
           at = "insert" => validateRecord(FieldsOf(q), q.patch, TRUE)
    PROVE  Well([q EXCEPT !.at = at], p)
<1> DEFINE next == [q EXCEPT !.at = at]
<1>1. /\ next \in Request /\ next.found = p /\ next.at = at
      /\ next.collection = q.collection /\ next.user = q.user /\ next.patch = q.patch
    BY DEF Request
<1> HIDE DEF next
<1>2. Admitted(next) /\ p.version > 0 /\ FieldsOf(next) = FieldsOf(q)
    BY <1>1 DEF Admitted, FieldsOf
<1>3. ASSUME at = "insert"
      PROVE  Admits(p.backend, Inserted(next))
    <2>1. p.backend.collections[next.collection].access \in {"public", "owner"}
        BY <1>1, <1>2, VersionType, CollectionType DEF Admitted
    <2>2. p.backend.collections[next.collection].access = "public" <=> Owner(next) = Nobody
        BY <1>1, <1>2, <2>1 DEF Admitted, Owner
    <2> QED
        BY <1>1, <1>2, <1>3, <2>2 DEF Admits, Inserted, FieldsOf, Admitted
<1>4. Sound(next, p)
    BY <1>1, <1>2, <1>3, CompatibleWithItself DEF Sound
<1>5. Well(next, p)
    BY <1>1, <1>2, <1>4, VersionType, SMT DEF Well
<1> QED
    BY <1>5 DEF next

LEMMA ContextStep == ASSUME IInv, NEW r \in Requests, Context(r) PROVE IInv'
<1> DEFINE q == [request[r] EXCEPT !.found = project]
<1>1. request[r] \in Request /\ project \in Project
    BY DEF IInv, TypeOK
<1>2. q \in Request /\ q.found = project
    BY <1>1 DEF Request
<1>3. UNCHANGED <<project, records, spent, told>>
    BY DEF Context
<1>4. CASE Ends(r)
    BY <1>1, <1>3, <1>4, NoneIsWell, OneRequest DEF Ends
<1>5. CASE ~Ends(r)
    <2>1. PICK at \in {"insert", "get", "delete"} :
              /\ Admitted(q)
              /\ at = "insert" => validateRecord(FieldsOf(q), q.patch, TRUE)
              /\ Becomes(r, [q EXCEPT !.at = at])
        BY <1>5 DEF Context
    <2> QED
        BY <1>1, <1>2, <1>3, <2>1, FoundWell, OneRequest
<1> QED
    BY <1>4, <1>5

\* The collection that a request was admitted to is there, with the access it found.
LEMMA StillThere ==
    ASSUME NEW p \in Project, NEW q, Well(q, p), q.at \in {"insert", "get", "update", "delete"}
    PROVE  /\ p.version > 0 /\ q.collection \in Names
           /\ q.collection \in DOMAIN p.backend.collections
           /\ p.backend.collections[q.collection].access =
                  q.found.backend.collections[q.collection].access
           /\ FieldsCompatible(FieldsOf(q), p.backend.collections[q.collection].fields)
           /\ Owner(q) = Nobody <=> p.backend.collections[q.collection].access = "public"
<1>1. /\ q.found.version > 0 /\ q.found.version <= p.version /\ q.found \in Project
      /\ ensureCompatible(q.found.backend, p.backend) /\ Admitted(q)
    BY DEF Well, Sound, Request
<1>2. p.version > 0
    BY <1>1, VersionType, SMT
<1>3. /\ q.collection \in DOMAIN q.found.backend.collections /\ q.collection \in Names
      /\ q.found.backend.collections[q.collection].access \in {"public", "owner"}
    BY <1>1, VersionType, CollectionType DEF Admitted
<1>4. Owner(q) = Nobody <=> q.found.backend.collections[q.collection].access = "public"
    BY <1>1, <1>3 DEF Owner, Admitted
<1> QED
    BY <1>1, <1>2, <1>3, <1>4 DEF ensureCompatible, FieldsOf
\* In a collection that is not full there is room for the record that is inserted.
LEMMA InsertStep == ASSUME IInv, NEW r \in Requests, NEW id \in RecordIds, Insert(r, id) PROVE IInv'
<1> DEFINE q == request[r]
           rec == Inserted(q)
<1>1. q \in Request /\ project \in Project /\ Well(q, project) /\ q.at = "insert"
        /\ id \notin spent
    BY AllWell DEF IInv, TypeOK, Insert
<1>2. Ends(r) /\ UNCHANGED <<project, told>>
    BY DEF Insert
<1>3. CASE ~WithinLimit(q.collection)
    BY <1>1, <1>2, <1>3, NoneIsWell, OneRequest DEF Insert, Ends
<1>4. CASE WithinLimit(q.collection)
    <2>1. /\ DOMAIN records' = DOMAIN records \cup {id}
          /\ records'[id] = rec
          /\ \A i \in DOMAIN records : records'[i] = records[i]
          /\ spent' = spent \cup {id}
          /\ id \notin DOMAIN records
        BY <1>1, <1>4 DEF Insert, Inserted, IInv, TypeOK
    <2>2. spent' \subseteq RecordIds /\ IsFiniteSet(spent') /\ DOMAIN records' \subseteq spent'
        BY <2>1, FS_AddElement DEF IInv, TypeOK
    <2>3. rec \in Record
        BY <1>1, StillThere DEF Inserted, Record, Request, Owner
    <2>4. Conforms(rec)
        BY <1>1, StillThere, AdmittedOnwards DEF Conforms, Well, Sound
    <2>5. \A i \in DOMAIN records' : records'[i] \in Record /\ Conforms(records'[i])
        BY <2>1, <2>3, <2>4 DEF IInv, TypeOK, RecordsConform
    <2>6. ASSUME NEW c \in Names
          PROVE  Cardinality(In(c)') <= RecordLimit
        <3>1. IsFiniteSet(In(c))
            BY FS_Subset DEF In, IInv, TypeOK
        <3>2. CASE c = q.collection
            <4>1. In(c)' = In(c) \cup {id} /\ id \notin In(c)
                BY <2>1, <3>2 DEF In, Inserted
            <4>2. Cardinality(In(c)') = Cardinality(In(c)) + 1
                BY <3>1, <4>1, FS_AddElement
            <4>3. Cardinality(In(c)) \in Nat /\ Cardinality(In(c)) < RecordLimit
                BY <1>4, <3>1, <3>2, FS_CardinalityType DEF WithinLimit
            <4> QED
                BY <4>2, <4>3, RuntimeAssumption, SMT
        <3>3. CASE c # q.collection
            <4>1. In(c)' = In(c)
                BY <2>1, <3>3 DEF In, Inserted
            <4> QED
                BY <4>1 DEF IInv, RecordsConform
        <3> QED
            BY <3>2, <3>3
    <2> QED
        BY <1>2, <2>2, <2>5, <2>6, OneWriter
<1> QED
    BY <1>3, <1>4

LEMMA GetStep == ASSUME IInv, NEW r \in Requests, Get(r) PROVE IInv'
<1> DEFINE q == request[r]
           merged == Merged(records[q.id].data, q.patch)
           next == [q EXCEPT !.at = "update", !.data = merged]
<1>1. q \in Request /\ project \in Project /\ Well(q, project) /\ q.at = "get"
    BY AllWell DEF IInv, TypeOK, Get
<1>2. UNCHANGED <<project, records, spent, told>>
    BY DEF Get
<1>3. CASE Reaches(q) /\ MergesWell(q, merged)
    <2>1. merged \in Data
        BY <1>1, <1>3, MergedType DEF Reaches, In, IInv, TypeOK, Record, Request
    <2>2. /\ next \in Request /\ next.at = "update" /\ next.data = merged
          /\ next.found = q.found /\ next.collection = q.collection /\ next.user = q.user
        BY <1>1, <2>1 DEF Request
    <2> HIDE DEF next
    <2>3. Admitted(next) /\ FieldsOf(next) = FieldsOf(q)
        BY <1>1, <2>2 DEF Well, Sound, Admitted, FieldsOf
    <2>4. Sound(next, project)
        BY <1>1, <1>3, <2>2, <2>3 DEF Well, Sound, MergesWell
    <2>5. Well(next, project)
        BY <1>1, <2>2, <2>4 DEF Well
    <2>6. Becomes(r, next)
        BY <1>3 DEF Get, next
    <2> QED
        BY <1>2, <2>5, <2>6, OneRequest
<1>4. CASE ~ (Reaches(q) /\ MergesWell(q, merged))
    BY <1>1, <1>2, <1>4, NoneIsWell, OneRequest DEF Get, Ends
<1> QED
    BY <1>3, <1>4

LEMMA WrittenData ==
    ASSUME NEW f, NEW i \in DOMAIN f, NEW data
    PROVE  LET g == [f EXCEPT ![i].data = data]
           IN  /\ DOMAIN g = DOMAIN f
               /\ \A j \in DOMAIN f : j # i => g[j] = f[j]
               /\ g[i] = [f[i] EXCEPT !.data = data]
OBVIOUS

\* The data that is written was valid where it was read, so it is now.
LEMMA UpdateStep == ASSUME IInv, NEW r \in Requests, Update(r) PROVE IInv'
<1> DEFINE q == request[r]
<1>1. q \in Request /\ project \in Project /\ Well(q, project) /\ q.at = "update"
    BY AllWell DEF IInv, TypeOK, Update
<1>2. Ends(r) /\ UNCHANGED <<project, spent, told>> /\ records' = Written(q)
    BY DEF Update
<1>3. CASE ~Reaches(q)
    BY <1>1, <1>2, <1>3, NoneIsWell, OneRequest DEF Written, Ends
<1>4. CASE Reaches(q)
    <2>1. q.id \in DOMAIN records /\ records[q.id].collection = q.collection
        BY <1>4 DEF Reaches, In
    <2>2. /\ DOMAIN records' = DOMAIN records
          /\ \A i \in DOMAIN records : i # q.id => records'[i] = records[i]
          /\ records'[q.id] = [records[q.id] EXCEPT !.data = q.data]
        BY <1>2, <1>4, <2>1, WrittenData DEF Written
    <2>3. \A i \in DOMAIN records : records[i] \in Record /\ Conforms(records[i])
        BY DEF IInv, TypeOK, RecordsConform
    <2>4. /\ records'[q.id] \in Record
          /\ records'[q.id].collection = records[q.id].collection
          /\ records'[q.id].owner = records[q.id].owner
          /\ records'[q.id].data = q.data
        BY <1>1, <2>1, <2>2, <2>3 DEF Record, Request
    <2>5. validateRecord(project.backend.collections[q.collection].fields, q.data, TRUE)
        BY <1>1, StillThere, ValidOnwards DEF Well, Sound
    <2>6. Conforms(records'[q.id])
        BY <2>1, <2>3, <2>4, <2>5 DEF Conforms, Admits
    <2>7. \A i \in DOMAIN records' : records'[i] \in Record /\ Conforms(records'[i])
        BY <2>2, <2>3, <2>4, <2>6
    <2>8. \A c \in Names : In(c)' = In(c)
        BY <2>2, <2>4 DEF In
    <2>9. \A c \in Names : Cardinality(In(c)') <= RecordLimit
        BY <2>8 DEF IInv, RecordsConform
    <2>10. spent' \subseteq RecordIds /\ IsFiniteSet(spent') /\ DOMAIN records' \subseteq spent'
        BY <1>2, <2>2 DEF IInv, TypeOK
    <2> QED
        BY <1>2, <2>7, <2>9, <2>10, OneWriter
<1> QED
    BY <1>3, <1>4

LEMMA DeleteStep == ASSUME IInv, NEW r \in Requests, Delete(r) PROVE IInv'
<1> DEFINE q == request[r]
<1>1. q \in Request /\ project \in Project /\ Well(q, project)
    BY AllWell DEF IInv, TypeOK
<1>2. Ends(r) /\ UNCHANGED <<project, spent, told>> /\ records' = Erased(q)
    BY DEF Delete
<1>3. CASE ~Reaches(q)
    BY <1>1, <1>2, <1>3, NoneIsWell, OneRequest DEF Erased, Ends
<1>4. CASE Reaches(q)
    <2>1. DOMAIN records' = DOMAIN records \ {q.id} /\ \A i \in DOMAIN records' : records'[i] = records[i]
        BY <1>2, <1>4 DEF Erased, Restrict
    <2>2. \A i \in DOMAIN records' : records'[i] \in Record /\ Conforms(records'[i])
        BY <2>1 DEF IInv, TypeOK, RecordsConform
    <2>3. ASSUME NEW c \in Names
          PROVE  Cardinality(In(c)') <= RecordLimit
        <3>1. IsFiniteSet(In(c)) /\ In(c)' \subseteq In(c)
            BY <2>1, FS_Subset DEF In, IInv, TypeOK
        <3>2. /\ Cardinality(In(c)') \in Nat /\ Cardinality(In(c)) \in Nat
              /\ Cardinality(In(c)') <= Cardinality(In(c))
            BY <3>1, FS_Subset, FS_CardinalityType
        <3>3. Cardinality(In(c)) <= RecordLimit
            BY DEF IInv, RecordsConform
        <3> QED
            BY <3>2, <3>3, RuntimeAssumption, SMT
    <2>4. spent' \subseteq RecordIds /\ IsFiniteSet(spent') /\ DOMAIN records' \subseteq spent'
        BY <1>2, <2>1 DEF IInv, TypeOK
    <2> QED
        BY <1>2, <2>2, <2>3, <2>4, OneWriter
<1> QED
    BY <1>3, <1>4

LEMMA LostStep == ASSUME IInv, NEW r \in Requests, Lost(r) PROVE IInv'
BY NoneIsWell, OneRequest DEF Lost, Ends, IInv, TypeOK

LEMMA NothingStep == ASSUME IInv, UNCHANGED vars PROVE IInv'
<1>1. UNCHANGED <<project, records, spent, request, told>>
    BY DEF vars
<1>2. TypeOK'
    BY <1>1 DEF IInv, TypeOK
<1>3. \A r \in Requests : Sound(request[r], project)'
    BY <1>1 DEF IInv
<1>4. RecordsConform'
    BY <1>1 DEF IInv, RecordsConform, Conforms, In
<1>5. VersionsReliable'
    BY <1>1 DEF IInv, VersionsReliable
<1> QED
    BY <1>2, <1>3, <1>4, <1>5 DEF IInv

LEMMA Step == IInv /\ [Next]_vars => IInv'
BY AskProvisionStep, FindStep, ProvisionStep, AskRecordStep, ContextStep, InsertStep, GetStep,
   UpdateStep, DeleteStep, LostStep, NothingStep DEF Next, Provisioning, Serving

-----------------------------------------------------------------------------
(* The theorems.                                                           *)

\* Every row, record and request has its shape, and no request knows of a version that
\* is still to come.
THEOREM RuntimeTypeCorrect == Spec => []TypeOK
<1>1. IInv => TypeOK
    BY DEF IInv
<1> QED
    BY Initially, Step, <1>1, PTL DEF Spec

\* Whatever schemas the builder goes through, every stored record is one that the current
\* schema admits, and no collection outgrows its limit, however many requests are under
\* way (recordContext, ensureCompatible, InsertRecordWithinLimit).
THEOREM RecordsAlwaysConform == Spec => []RecordsConform
<1>1. IInv => RecordsConform
    BY DEF IInv
<1> QED
    BY Initially, Step, <1>1, PTL DEF Spec

\* A version that was told to a builder is one schema, and what replaced it admits all
\* that it admitted (Provision).
THEOREM VersionsStayReliable == Spec => []VersionsReliable
<1>1. IInv => VersionsReliable
    BY DEF IInv
<1> QED
    BY Initially, Step, <1>1, PTL DEF Spec

\* A statement that reaches a record with an owner is its owner's: the collection has had
\* owners ever since the request found it.
LEMMA ReachedByOwner ==
    ASSUME IInv, NEW r \in Requests, request[r].at \in {"update", "delete"},
           Reaches(request[r]), records[request[r].id].owner # Nobody
    PROVE  request[r].user = records[request[r].id].owner
<1> DEFINE q == request[r]
<1>1. project \in Project /\ Well(q, project)
    BY AllWell DEF IInv, TypeOK
<1>2. q.id \in DOMAIN records /\ records[q.id].collection = q.collection
    BY DEF Reaches, In
<1>3. Conforms(records[q.id])
    BY <1>2 DEF IInv, RecordsConform
<1>4. Owner(q) # Nobody
    BY <1>1, <1>2, <1>3, StillThere DEF Conforms, Admits
<1>5. records[q.id].owner = Owner(q)
    BY <1>4 DEF Reaches
<1> QED
    BY <1>4, <1>5 DEF Owner

\* The step in which a record is touched is the statement of a request of its owner.
LEMMA OwnerStep ==
    ASSUME IInv, [Next]_vars, NEW i \in DOMAIN records, records[i].owner # Nobody, Touched(i)
    PROVE  \E r \in Requests : /\ request[r].user = records[i].owner
                               /\ request[r].at \in {"update", "delete"}
                               /\ request'[r].at = "idle"
<1>1. PICK r \in Requests : Update(r) \/ Delete(r)
    <2>1. UNCHANGED records => FALSE
        BY DEF Touched
    <2>2. \A r \in Requests, id \in RecordIds : Insert(r, id) => FALSE
        BY DEF Touched, Insert, IInv, TypeOK
    <2> QED
        BY <2>1, <2>2 DEF vars, Next, Provisioning, Serving, AskProvision, Find, Provision,
           AskRecord, Context, Get, Lost
<1>2. request[r].at \in {"update", "delete"} /\ Ends(r)
    BY <1>1 DEF Update, Delete
<1>3. Reaches(request[r]) /\ request[r].id = i
    BY <1>1 DEF Update, Delete, Written, Erased, Restrict, Touched
<1>4. request[r].user = records[i].owner
    BY <1>2, <1>3, ReachedByOwner
<1>5. request'[r].at = "idle"
    BY <1>2 DEF Ends, Becomes, NoRequest, IInv, TypeOK
<1> QED
    BY <1>2, <1>4, <1>5

\* Only the owner of a record changes or removes it, whatever the builder does to its
\* collection between the reading of the schema and the statement (addOwnerScope).
THEOREM OwnersStayAlone == Spec => OwnersAlone
<1>1. IInv /\ [Next]_vars =>
        [\A i \in DOMAIN records :
          records[i].owner # Nobody /\ Touched(i)
             => \E r \in Requests : /\ request[r].user = records[i].owner
                                    /\ request[r].at \in {"update", "delete"}
                                    /\ request'[r].at = "idle"]_records
    BY OwnerStep
<1> QED
    BY Initially, Step, <1>1, PTL DEF Spec, OwnersAlone
=============================================================================
