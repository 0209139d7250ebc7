--------------------------- MODULE ProjectDocument ---------------------------
(***************************************************************************)
(* The shared document of one project: its clients save it on top of a     *)
(* revision they name, while commits publish versions, metadata is         *)
(* synchronised, and memberships end.  A save is a read of the document, a *)
(* check of the versions it adds against the published ones, and a         *)
(* transaction; other requests run in between.                             *)
(*                                                                         *)
(* The versions of a document are a sequence: version i is the i-th one    *)
(* published, each the parent of the next, so a document whose versions    *)
(* have their parents in it holds a prefix of the published ones.  A       *)
(* client's copy of a version may differ from what was published.          *)
(***************************************************************************)
EXTENDS Naturals, Sequences, SequencesExt

CONSTANTS Clients,       \* accounts of the workspace, each with one open page
          Notes,         \* what a document holds besides its versions
          MaxVersions,   \* bound on the versions published
          MaxRevision    \* bound on the revisions saved

ASSUME DocumentAssumption == /\ Notes # {}
                             /\ MaxVersions \in Nat \ {0}
                             /\ MaxRevision \in Nat \ {0}

VARIABLES
    members,             \* the clients that belong to the workspace
    project,             \* the project's row: does it exist, its active version
    published,           \* the number of immutable versions
    document,            \* the document's row; revision 0 when there is none
    seen,                \* the revision each client last got
    request              \* the save each client has under way

vars == <<members, project, published, document, seen, request>>

Copies == {"published", "altered"}       \* a version as it was published, or not

Contents == [note: Notes, versions: UNION {[1..n -> Copies] : n \in 0..MaxVersions},
             active: 0..MaxVersions]

Blank    == [note |-> CHOOSE n \in Notes : TRUE, versions |-> <<>>, active |-> 0]
Document == [revision: 0..MaxRevision, content: Contents]
\* What the revision a client names was when it sent its save; the code never knows.
Bases    == {"seen", "unseen", "future"}
Request  == [at: {"idle", "read", "trust", "save"}, expected: 0..MaxRevision,
             base: Bases, content: Contents, had: 0..MaxVersions]

NoRequest == [at |-> "idle", expected |-> 0, base |-> "seen", content |-> Blank, had |-> 0]
NoDocument == [revision |-> 0, content |-> Blank]

TypeOK ==
    /\ members \subseteq Clients
    /\ project \in [created: BOOLEAN, active: 0..MaxVersions]
    /\ published \in 0..MaxVersions
    /\ document \in Document
    /\ seen \in [Clients -> 0..MaxRevision]
    /\ request \in [Clients -> Request]
    /\ \A c \in Clients : request[c].had <= Len(request[c].content.versions)

Init ==
    /\ members = Clients
    /\ project = [created |-> FALSE, active |-> 0]
    /\ published = 0
    /\ document = NoDocument
    /\ seen = [c \in Clients |-> 0]
    /\ request = [c \in Clients |-> NoRequest]

Allowed(c) == c \in members /\ project.created

\* An active version that is sent must be the row's own; a new row has none.
AnyPublished(active) == IF project.created THEN active <= published ELSE active = 0
ActiveUnchanged(active) == IF project.created THEN active = project.active ELSE active = 0

-----------------------------------------------------------------------------
(* Requests of one transaction, and what happens around the document.      *)

\* Metadata is created or updated; the active version is not its to change.
UpsertForMember(c, active) ==
    /\ c \in members
    /\ ActiveUnchanged(active)
    /\ project' = [created |-> TRUE, active |-> active]

Sync(c, active) ==
    /\ UpsertForMember(c, active)
    /\ UNCHANGED <<members, published, document, seen, request>>

\* A candidate is committed: a new version, active at once.
Publish ==
    /\ project.created
    /\ published < MaxVersions
    /\ published' = published + 1
    /\ project' = [project EXCEPT !.active = published + 1]
    /\ UNCHANGED <<members, document, seen, request>>

Leave(c) ==
    /\ c \in members
    /\ members' = members \ {c}
    /\ UNCHANGED <<project, published, document, seen, request>>

Join(c) ==
    /\ c \notin members
    /\ members' = members \cup {c}
    /\ UNCHANGED <<project, published, document, seen, request>>

Get(c) ==
    /\ Allowed(c) /\ document.revision > 0
    /\ seen' = [seen EXCEPT ![c] = document.revision]
    /\ UNCHANGED <<members, project, published, document, request>>

-----------------------------------------------------------------------------
(* Saving.                                                                 *)

\* The document names its active version among its own.
Valid(content) == content.active <= Len(content.versions)

BaseOf(c, expected) == IF expected <= seen[c] THEN "seen"
                       ELSE IF expected <= document.revision THEN "unseen" ELSE "future"

\* A client saves any content on top of any revision, its own or another's, or one that
\* nobody has saved yet; it may be a repetition.
Send(c, expected, content) ==
    /\ request[c].at = "idle"
    /\ Valid(content)
    /\ request' = [request EXCEPT ![c] =
           [at |-> "read", expected |-> expected,
            base |-> BaseOf(c, expected),
            content |-> content, had |-> 0]]
    /\ UNCHANGED <<members, project, published, document, seen>>

\* The request moves on with what it carries; it knows how many versions were compared.
Staged(r, at, had) == [at |-> at, expected |-> r.expected, base |-> r.base,
                       content |-> r.content, had |-> had]

Ends(c) == request' = [request EXCEPT ![c] = NoRequest]

\* The connection breaks, the process stops, or a statement fails: all it had is lost.
Lost(c) ==
    /\ request[c].at # "idle"
    /\ Ends(c)
    /\ UNCHANGED <<members, project, published, document, seen>>

Repeats(content) == document.revision > 0 /\ document.content = content
AnyLength(old, new) == Len(old) <= Len(new)
versionsAreAppendOnly(old, new) == IsPrefix(old, new)

\* Nothing to check in a repetition; anything else has to extend what it replaces.
Read(c) ==
    LET r == request[c]
    IN  /\ r.at = "read"
        /\ request' = [request EXCEPT ![c] =
               IF ~Allowed(c) THEN NoRequest
               ELSE IF Repeats(r.content) THEN Staged(r, "save", 0)
               ELSE IF \/ document.revision > 0 /\ document.revision # r.expected
                       \/ ~versionsAreAppendOnly(document.content.versions, r.content.versions)
                    THEN NoRequest
               ELSE Staged(r, "trust", Len(document.content.versions))]
        /\ UNCHANGED <<members, project, published, document, seen>>

Genuine(content, i) == i <= published /\ content.versions[i] = "published"
NewestGenuine(content, had) == content.versions = <<>> \/ Genuine(content, Len(content.versions))
VersionsMatch(content, had) == \A i \in had + 1..Len(content.versions) : Genuine(content, i)
ActiveMatches(content) == content.active = project.active

Trust(c) ==
    LET r == request[c]
    IN  /\ r.at = "trust"
        /\ request' = [request EXCEPT ![c] =
               IF Allowed(c) /\ ActiveMatches(r.content) /\ VersionsMatch(r.content, r.had)
               THEN Staged(r, "save", 0)
               ELSE NoRequest]
        /\ UNCHANGED <<members, project, published, document, seen>>

AnyRevision(c) == document.revision < MaxRevision
SameRevision(c) == document.revision = request[c].expected /\ document.revision < MaxRevision

\* The transaction asks again for the membership, the content and the revision.
SaveDocumentForMember(c) ==
    document' = IF Allowed(c) /\ ~Repeats(request[c].content) /\ SameRevision(c)
                THEN [revision |-> document.revision + 1, content |-> request[c].content]
                ELSE document

\* A client that is answered has the revision that holds what it sent.
Save(c) ==
    LET r == request[c]
    IN  /\ r.at = "save"
        /\ SaveDocumentForMember(c)
        /\ Ends(c)
        /\ seen' \in {seen, [seen EXCEPT ![c] = IF Allowed(c) /\ document'.content = r.content
                                                THEN document'.revision ELSE seen[c]]}
        /\ UNCHANGED <<members, project, published>>

-----------------------------------------------------------------------------

\* Bounds: once the last revision is saved, no save is sent any more, nor one on top of it.
SendBounded(c) ==
    /\ document.revision < MaxRevision
    /\ \E expected \in 0..MaxRevision - 1, content \in Contents : Send(c, expected, content)

Next ==
    \/ Publish
    \/ \E c \in Clients :
        \/ \E active \in 0..MaxVersions : Sync(c, active)
        \/ Leave(c)
        \/ Join(c)
        \/ Get(c)
        \/ SendBounded(c)
        \/ Lost(c)
        \/ Read(c)
        \/ Trust(c)
        \/ Save(c)

Spec == Init /\ [][Next]_vars

-----------------------------------------------------------------------------
(* Properties.                                                             *)

\* The active version of the project is the newest one published: metadata that a
\* client sends late never turns it back, whatever it holds (UpsertForMember).
NewestActive == project.active = published

\* A saved document holds only versions that were published, as they were published.
\* Its check was made before the transaction, against what the document held then,
\* and is left out when the content seemed to be saved already (SaveDocument).
Trusted ==
    /\ \A i \in DOMAIN document.content.versions : Genuine(document.content, i)
    /\ document.content.active <= project.active

\* From one revision to the next a document loses no version and its active version
\* never goes back.
Grows ==
    /\ document'.revision = document.revision + 1
    /\ IsPrefix(document.content.versions, document'.content.versions)
    /\ document.content.active <= document'.content.active

Saves(c) == request[c].at = "save" /\ request'[c].at = "idle"

\* A save loses nothing if the revision it names had been reached when it was sent,
\* although its versions were compared before the transaction, with a document and a
\* project that other clients and commits changed since.  One that names a later
\* revision may: a repetition, or the first document, is compared with no revision when
\* it is read (SaveDocument), and the one it names may be another's when it is written.
DocumentForward ==
    [][\E c \in Clients : Saves(c) /\ (request[c].base # "future" => Grows)]_document

\* What one client saved is only replaced by one that has seen it, of the clients that
\* name revisions they have seen: of two that edit the same revision, one is turned
\* down (SaveDocumentForMember).
NoBlindOverwrite ==
    [][\E c \in Clients : Saves(c) /\ (request[c].base = "seen" =>
                                          seen[c] >= document.revision)]_document
=============================================================================
