------------------------- MODULE ProjectDocumentProofs -------------------------
(* Saves stay sound although they are checked before their transaction. *)
EXTENDS ProjectDocument, TLAPS

Versions == UNION {[1..n -> Copies] : n \in 0..MaxVersions}

\* What was found sound stays sound: versions are not taken back, and the active one grows.
Sound(content) ==
    /\ \A i \in DOMAIN content.versions : Genuine(content, i)
    /\ content.active <= project.active

\* The document is as far as the request names, and the request named no later one.
Current(c) == request[c].base # "future" /\ document.revision = request[c].expected

\* What a request may rely on between its check and its transaction: what it found to be
\* published, and, as long as the revision it names is the current one, what it compared.
Checked(c) ==
    LET r == request[c]
    IN  r.at = "trust" =>
            /\ \A i \in 1..r.had : Genuine(r.content, i)
            /\ Current(c) => /\ r.had = Len(document.content.versions)
                             /\ IsPrefix(document.content.versions, r.content.versions)

Extends(c) ==
    /\ IsPrefix(document.content.versions, request[c].content.versions)
    /\ document.content.active <= request[c].content.active

Ready(c) ==
    request[c].at = "save" =>
        /\ Sound(request[c].content)
        /\ Current(c) => Repeats(request[c].content) \/ Extends(c)

Known(c) ==
    /\ seen[c] <= document.revision
    /\ request[c].base = "seen" => request[c].expected <= seen[c]
    /\ request[c].base # "future" => request[c].expected <= document.revision

Unsaved == document.revision = 0 => document.content = Blank
Unpublished == ~project.created => published = 0

IInv ==
    /\ TypeOK
    /\ NewestActive /\ Unpublished
    /\ Trusted /\ Unsaved
    /\ \A c \in Clients : Known(c) /\ Checked(c) /\ Ready(c)

LEMMA ConstantsFit == Blank \in Contents /\ MaxVersions \in Nat /\ MaxRevision \in Nat
<1>1. MaxVersions \in Nat /\ MaxRevision \in Nat /\ (CHOOSE n \in Notes : TRUE) \in Notes
    BY DocumentAssumption
<1>2. <<>> \in [1..0 -> Copies]
    BY SMT
<1> QED
    BY <1>1, <1>2, SMT DEF Blank, Contents

LEMMA VersionsAreSequences ==
    ASSUME NEW v \in Versions
    PROVE  v \in Seq(Copies) /\ Len(v) \in 0..MaxVersions /\ DOMAIN v = 1..Len(v)
<1>1. PICK n \in 0..MaxVersions : v \in [1..n -> Copies]
    BY DEF Versions
<1> QED
    BY <1>1, ConstantsFit, SMT

LEMMA PrefixMeans ==
    ASSUME NEW s \in Versions, NEW t \in Versions
    PROVE  IsPrefix(s, t) <=> Len(s) <= Len(t) /\ \A i \in 1..Len(s) : s[i] = t[i]
<1>1. /\ s \in Seq(Copies) /\ Len(s) \in Nat
      /\ t \in Seq(Copies) /\ Len(t) \in Nat
    BY VersionsAreSequences, ConstantsFit, SMT
<1>2. CASE Len(s) <= Len(t)
    <2>1. SubSeq(s, 1, Len(s)) = [i \in 1..Len(s) |-> s[i]]
        BY <1>1, SMT
    <2>2. SubSeq(t, 1, Len(s)) = [i \in 1..Len(s) |-> t[i]]
        BY <1>1, <1>2, SMT
    <2> QED
        BY <2>1, <2>2, <1>2, SMT DEF IsPrefix
<1>3. CASE ~(Len(s) <= Len(t))
    BY <1>3 DEF IsPrefix
<1> QED
    BY <1>2, <1>3

LEMMA ContentFits ==
    ASSUME NEW k \in Contents
    PROVE  /\ k.versions \in Versions /\ k.active \in 0..MaxVersions
           /\ Len(k.versions) \in 0..MaxVersions
           /\ DOMAIN k.versions = 1..Len(k.versions)
<1>1. k.versions \in Versions /\ k.active \in 0..MaxVersions
    BY SMT DEF Contents, Versions
<1> QED
    BY <1>1, VersionsAreSequences

LEMMA BlankFits ==
    /\ Blank.versions = <<>> /\ Len(Blank.versions) = 0 /\ DOMAIN Blank.versions = {}
    /\ Blank.active = 0
<1>1. Blank.versions = <<>> /\ Blank.active = 0
    BY DEF Blank
<1>2. Len(<<>>) = 0 /\ DOMAIN <<>> = {}
    BY SMT
<1> QED
    BY <1>1, <1>2

LEMMA NothingFits ==
    /\ NoDocument \in Document /\ NoDocument.revision = 0 /\ NoDocument.content = Blank
    /\ NoRequest \in Request /\ NoRequest.at = "idle" /\ NoRequest.expected = 0
    /\ NoRequest.base = "seen" /\ NoRequest.had = 0 /\ NoRequest.content = Blank
<1>1. NoDocument \in Document /\ NoDocument.revision = 0 /\ NoDocument.content = Blank
    BY ConstantsFit, SMT DEF NoDocument, Document
<1>2. /\ NoRequest \in Request /\ NoRequest.at = "idle" /\ NoRequest.expected = 0
      /\ NoRequest.base = "seen" /\ NoRequest.had = 0 /\ NoRequest.content = Blank
    BY ConstantsFit, SMT DEF NoRequest, Request, Bases
<1> QED
    BY <1>1, <1>2

LEMMA Initially == Init => IInv
<1> SUFFICES ASSUME Init
             PROVE  IInv
    OBVIOUS
<1>1. TypeOK
    BY ConstantsFit, NothingFits, BlankFits, SMT DEF Init, TypeOK
<1>2. Trusted
    BY NothingFits, BlankFits, SMT DEF Init, Trusted
<1>3. NewestActive /\ Unpublished /\ Unsaved
    BY NothingFits, SMT DEF Init, NewestActive, Unpublished, Unsaved
<1>4. \A c \in Clients : Known(c) /\ Checked(c) /\ Ready(c)
    BY NothingFits, SMT DEF Init, Known, Checked, Ready
<1> QED
    BY <1>1, <1>2, <1>3, <1>4 DEF IInv

-----------------------------------------------------------------------------
(* What a step may change for the invariant to survive it.                 *)

\* Around the document: versions are added, revisions are seen.
LEMMA Outside ==
    ASSUME IInv, UNCHANGED <<document, request>>,
           members' \subseteq Clients, project' \in [created: BOOLEAN, active: 0..MaxVersions],
           published' \in 0..MaxVersions, published <= published',
           project'.active = published', project'.created \/ published' = 0,
           seen' \in [Clients -> 0..MaxRevision],
           \A c \in Clients : seen[c] <= seen'[c] /\ seen'[c] <= document.revision
    PROVE  IInv'
<1> USE ConstantsFit
<1>1. TypeOK'
    BY SMT DEF IInv, TypeOK
<1>2. NewestActive' /\ Unpublished' /\ Unsaved'
    BY SMT DEF IInv, NewestActive, Unpublished, Unsaved
<1>3. /\ published \in Nat /\ published' \in Nat
      /\ document.content \in Contents
      /\ project.active \in Nat /\ project.active = published
      /\ \A c \in Clients : request[c] \in Request /\ request[c].content \in Contents
    BY SMT DEF IInv, TypeOK, Document, Request, NewestActive
<1>4. ASSUME NEW k \in Contents, NEW i \in DOMAIN k.versions, Genuine(k, i)
      PROVE  Genuine(k, i)'
    BY <1>3, <1>4, ContentFits, SMT DEF Genuine
<1>5. Trusted'
    <2>1. \A i \in DOMAIN document.content.versions : Genuine(document.content, i)'
        BY <1>3, <1>4 DEF IInv, Trusted
    <2>2. document.content.active <= project'.active
        BY <1>3, ContentFits, SMT DEF IInv, Trusted
    <2> QED
        BY <2>1, <2>2 DEF Trusted, Genuine
<1>6. ASSUME NEW c \in Clients
      PROVE  (Known(c) /\ Checked(c) /\ Ready(c))'
    <2>1. Known(c)'
        BY SMT DEF IInv, TypeOK, Known, Request, Document
    <2>2. \A i \in 1..request[c].had : i \in DOMAIN request[c].content.versions
        BY <1>3, ContentFits, SMT DEF IInv, TypeOK, Request
    <2>3. Checked(c)'
        <3>1. ASSUME request[c].at = "trust", NEW i \in 1..request[c].had
              PROVE  Genuine(request[c].content, i)'
            <4>1. Genuine(request[c].content, i)
                BY <3>1 DEF IInv, Checked
            <4>2. \A k \in Contents : k = request[c].content => Genuine(k, i)'
                BY <1>4, <2>2, <4>1
            <4> QED
                BY <1>3, <4>2 DEF Genuine
        <3> QED
            BY <3>1 DEF IInv, Checked, Current
    <2>4. Ready(c)'
        <3>1. ASSUME Sound(request[c].content)
              PROVE  Sound(request[c].content)'
            <4>1. \A i \in DOMAIN request[c].content.versions : Genuine(request[c].content, i)'
                BY <1>3, <1>4, <3>1 DEF Sound
            <4>2. request[c].content.active <= project'.active
                BY <1>3, <3>1, ContentFits, SMT DEF Sound
            <4> QED
                BY <4>1, <4>2 DEF Sound, Genuine
        <3> QED
            BY <3>1 DEF IInv, Ready, Repeats, Current, Extends
    <2> QED
        BY <2>1, <2>3, <2>4
<1> QED
    BY <1>1, <1>2, <1>5, <1>6 DEF IInv

\* One client's request moves on.
LEMMA OneRequest ==
    ASSUME IInv, UNCHANGED <<members, project, published, document, seen>>,
           NEW c \in Clients, NEW r \in Request,
           request' = [request EXCEPT ![c] = r],
           r.had <= Len(r.content.versions), Known(c)', Checked(c)', Ready(c)'
    PROVE  IInv'
<1>1. /\ request \in [Clients -> Request] /\ request' \in [Clients -> Request]
      /\ request'[c] = r /\ \A d \in Clients \ {c} : request'[d] = request[d]
    BY SMT DEF IInv, TypeOK
<1>2. TypeOK'
    BY <1>1, SMT DEF IInv, TypeOK
<1>3. (NewestActive /\ Unpublished /\ Unsaved)'
    BY DEF IInv, NewestActive, Unpublished, Unsaved
<1>4. Trusted'
    BY DEF IInv, Trusted, Genuine
<1>5. ASSUME NEW d \in Clients
      PROVE  (Known(d) /\ Checked(d) /\ Ready(d))'
    <2>1. CASE d = c
        BY <2>1
    <2>2. CASE d # c
        BY <1>1, <2>2
        DEF IInv, Known, Checked, Ready, Repeats, Current, Extends, Sound, Genuine
    <2> QED
        BY <2>1, <2>2
<1> QED
    BY <1>2, <1>3, <1>4, <1>5 DEF IInv

-----------------------------------------------------------------------------
(* The actions preserve the invariant.                                     *)

LEMMA Fits ==
    ASSUME IInv, NEW c \in Clients
    PROVE  /\ request[c] \in Request /\ request[c].content \in Contents
           /\ request[c].expected \in Nat /\ request[c].base \in Bases
           /\ request[c].had \in 0..MaxVersions
           /\ document \in Document /\ document.content \in Contents
           /\ document.revision \in Nat /\ seen[c] \in Nat
           /\ project.active \in Nat /\ project.active = published
BY ConstantsFit, SMT DEF IInv, TypeOK, NewestActive, Request, Document

\* A request that moves to another stage keeps what it holds.
LEMMA StageKeeps ==
    ASSUME NEW r \in Request, NEW a \in {"read", "trust", "save"}, NEW h \in 0..MaxVersions
    PROVE  LET t == Staged(r, a, h)
           IN  /\ t \in Request /\ t.at = a /\ t.expected = r.expected
               /\ t.base = r.base /\ t.content = r.content /\ t.had = h
<1>1. r.expected \in 0..MaxRevision /\ r.base \in Bases /\ r.content \in Contents
    BY SMT DEF Request
<1> QED
    BY <1>1, SMT DEF Request, Staged

LEMMA SyncKeeps == ASSUME IInv, NEW c \in Clients, NEW a \in 0..MaxVersions, Sync(c, a) PROVE IInv'
<1>1. project' = [created |-> TRUE, active |-> a] /\ a = published
    BY ConstantsFit, SMT DEF IInv, TypeOK, NewestActive, Unpublished, Sync, UpsertForMember,
        ActiveUnchanged
<1>2. UNCHANGED <<members, published, document, seen, request>>
    BY DEF Sync
<1>3. \A d \in Clients : seen[d] <= seen'[d] /\ seen'[d] <= document.revision
    BY <1>2, ConstantsFit, SMT DEF IInv, TypeOK, Known
<1> QED
    BY <1>1, <1>2, <1>3, Outside, ConstantsFit, SMT DEF IInv, TypeOK

LEMMA PublishKeeps == ASSUME IInv, Publish PROVE IInv'
<1>1. \A d \in Clients : seen[d] <= seen'[d] /\ seen'[d] <= document.revision
    BY ConstantsFit, SMT DEF IInv, TypeOK, Known, Publish
<1>2. /\ published' \in 0..MaxVersions /\ published <= published'
      /\ project' \in [created: BOOLEAN, active: 0..MaxVersions]
      /\ project'.active = published' /\ project'.created
    BY ConstantsFit, SMT DEF IInv, TypeOK, Publish
<1> QED
    BY <1>1, <1>2, Outside DEF IInv, TypeOK, Publish

LEMMA MembershipKeeps == ASSUME IInv, NEW c \in Clients, Leave(c) \/ Join(c) PROVE IInv'
<1>1. members' \subseteq Clients /\ UNCHANGED <<project, published, document, seen, request>>
    BY DEF IInv, TypeOK, Leave, Join
<1>2. \A d \in Clients : seen[d] <= seen'[d] /\ seen'[d] <= document.revision
    BY <1>1, ConstantsFit, SMT DEF IInv, TypeOK, Known
<1>3. project.active = published /\ (project.created \/ published = 0)
    BY DEF IInv, NewestActive, Unpublished
<1> QED
    BY <1>1, <1>2, <1>3, Outside, ConstantsFit, SMT DEF IInv, TypeOK

LEMMA GetKeeps == ASSUME IInv, NEW c \in Clients, Get(c) PROVE IInv'
<1>1. /\ UNCHANGED <<members, project, published, document, request>>
      /\ seen' = [seen EXCEPT ![c] = document.revision]
    BY DEF Get
<1>2. seen' \in [Clients -> 0..MaxRevision]
    BY <1>1, SMT DEF IInv, TypeOK, Document
<1>3. \A d \in Clients : seen[d] <= seen'[d] /\ seen'[d] <= document.revision
    BY <1>1, Fits, SMT DEF IInv, TypeOK, Known
<1>4. project.active = published /\ (project.created \/ published = 0)
    BY DEF IInv, NewestActive, Unpublished
<1> QED
    BY <1>1, <1>2, <1>3, <1>4, Outside, ConstantsFit, SMT DEF IInv, TypeOK

LEMMA SendKeeps ==
    ASSUME IInv, NEW c \in Clients, NEW e \in 0..MaxRevision - 1, NEW k \in Contents, Send(c, e, k)
    PROVE  IInv'
<1> DEFINE b == BaseOf(c, e)
           r == [at |-> "read", expected |-> e, base |-> b, content |-> k, had |-> 0]
<1>1. /\ b \in Bases
      /\ b = "seen" => e <= seen[c]
      /\ b # "future" => e <= seen[c] \/ e <= document.revision
    BY SMT DEF BaseOf, Bases
<1>2. request' = [request EXCEPT ![c] = r]
    BY DEF Send
<1> HIDE DEF b
<1>3. r \in Request /\ r.had <= Len(r.content.versions)
    BY <1>1, ContentFits, ConstantsFit, SMT DEF Request
<1>4. /\ request'[c].at = "read" /\ request'[c].expected = e /\ request'[c].base = b
      /\ UNCHANGED <<seen, document>>
    BY <1>2, SMT DEF Send, IInv, TypeOK
<1>5. Checked(c)' /\ Ready(c)'
    BY <1>4, SMT DEF Checked, Ready
<1>6. Known(c)'
    <2>1. e \in Nat /\ seen[c] \in Nat /\ document.revision \in Nat /\ seen[c] <= document.revision
        BY Fits, ConstantsFit, SMT DEF IInv, Known
    <2>2. e <= seen[c] => e <= document.revision
        BY <2>1, SMT
    <2> QED
        BY <1>1, <1>4, <2>1, <2>2 DEF Known
<1> QED
    BY <1>2, <1>3, <1>5, <1>6, OneRequest DEF Send

\* A request that ends leaves nothing to keep.
LEMMA EndKeeps ==
    ASSUME IInv, NEW c \in Clients, Ends(c),
           UNCHANGED <<members, project, published, document, seen>>
    PROVE  IInv'
<1>1. NoRequest.had <= Len(NoRequest.content.versions)
    BY NothingFits, BlankFits, SMT
<1>2. /\ request' = [request EXCEPT ![c] = NoRequest]
      /\ request'[c].at = "idle" /\ request'[c].expected = 0
    BY NothingFits, SMT DEF Ends, IInv, TypeOK
<1>3. Checked(c)' /\ Ready(c)'
    BY <1>2, SMT DEF Checked, Ready
<1>4. Known(c)'
    BY <1>2, Fits, SMT DEF IInv, Known
<1> QED
    BY <1>1, <1>2, <1>3, <1>4, NothingFits, OneRequest

LEMMA ReadKeeps == ASSUME IInv, NEW c \in Clients, Read(c) PROVE IInv'
<1> DEFINE r == request[c]
           s == Staged(r, "save", 0)
           t == Staged(r, "trust", Len(document.content.versions))
<1>1. UNCHANGED <<members, project, published, document, seen>> /\ r.at = "read"
    BY DEF Read
<1>2. /\ s \in Request /\ s.at = "save" /\ s.expected = r.expected
      /\ s.base = r.base /\ s.content = r.content /\ s.had = 0
      /\ t \in Request /\ t.at = "trust" /\ t.expected = r.expected
      /\ t.base = r.base /\ t.content = r.content /\ t.had = Len(document.content.versions)
    <2>1. r \in Request /\ 0 \in 0..MaxVersions
        BY Fits, ConstantsFit, SMT
    <2>2. PICK h \in 0..MaxVersions : h = Len(document.content.versions)
        BY Fits, ContentFits
    <2> HIDE DEF r
    <2>3. s \in Request /\ s.at = "save" /\ s.expected = r.expected
          /\ s.base = r.base /\ s.content = r.content /\ s.had = 0
        BY <2>1, StageKeeps
    <2>4. LET u == Staged(r, "trust", h)
          IN  u \in Request /\ u.at = "trust" /\ u.expected = r.expected
              /\ u.base = r.base /\ u.content = r.content /\ u.had = h
        BY <2>1, StageKeeps
    <2> QED
        BY <2>2, <2>3, <2>4
<1>3. s.had <= Len(s.content.versions)
    BY <1>2, Fits, ContentFits, SMT
<1>4. \/ Ends(c)
      \/ request' = [request EXCEPT ![c] = s] /\ Repeats(r.content)
      \/ /\ request' = [request EXCEPT ![c] = t]
         /\ IsPrefix(document.content.versions, r.content.versions)
    BY Zenon DEF Read, Ends, versionsAreAppendOnly
<1> HIDE DEF s, t
<1>5. CASE Ends(c)
    BY <1>1, <1>5, EndKeeps
<1>6. CASE request' = [request EXCEPT ![c] = s] /\ Repeats(r.content)
    <2>1. request'[c] = s
        BY <1>6, SMT DEF IInv, TypeOK
    <2>2. Known(c)' /\ Checked(c)'
        BY <1>1, <1>2, <2>1, SMT DEF IInv, Known, Checked
    <2>3. Sound(r.content)
        BY <1>6 DEF IInv, Trusted, Repeats, Sound
    <2>4. Ready(c)'
        BY <1>1, <1>2, <1>6, <2>1, <2>3 DEF Ready, Repeats, Sound, Genuine
    <2> QED
        BY <1>1, <1>2, <1>3, <1>6, <2>2, <2>4, OneRequest
<1>7. CASE /\ request' = [request EXCEPT ![c] = t]
           /\ IsPrefix(document.content.versions, r.content.versions)
    <2>1. request'[c] = t
        BY <1>7, SMT DEF IInv, TypeOK
    <2>2. Known(c)' /\ Ready(c)'
        BY <1>1, <1>2, <2>1, SMT DEF IInv, Known, Ready
    <2>3. t.had <= Len(t.content.versions)
        BY <1>2, <1>7, Fits, ContentFits, PrefixMeans, SMT
    <2>4. ASSUME NEW i \in 1..Len(document.content.versions)
          PROVE  Genuine(r.content, i)
        <3>1. r.content.versions[i] = document.content.versions[i]
            BY <1>7, Fits, ContentFits, PrefixMeans
        <3>2. Genuine(document.content, i)
            BY Fits, ContentFits DEF IInv, Trusted
        <3> QED
            BY <3>1, <3>2 DEF Genuine
    <2>5. Checked(c)'
        BY <1>1, <1>2, <1>7, <2>1, <2>4 DEF Checked, Genuine
    <2> QED
        BY <1>1, <1>2, <1>7, <2>2, <2>3, <2>5, OneRequest
<1> QED
    BY <1>4, <1>5, <1>6, <1>7

LEMMA TrustKeeps == ASSUME IInv, NEW c \in Clients, Trust(c) PROVE IInv'
<1> DEFINE r == request[c]
           s == Staged(r, "save", 0)
<1>1. UNCHANGED <<members, project, published, document, seen>> /\ r.at = "trust"
    BY DEF Trust
<1>2. /\ s \in Request /\ s.at = "save" /\ s.expected = r.expected
      /\ s.base = r.base /\ s.content = r.content /\ s.had = 0
    <2>1. r \in Request /\ 0 \in 0..MaxVersions
        BY Fits, ConstantsFit, SMT
    <2> QED
        BY <2>1, StageKeeps
<1>3. s.had <= Len(s.content.versions)
    BY <1>2, Fits, ContentFits, SMT
<1>4. Ends(c) \/ /\ request' = [request EXCEPT ![c] = s]
                 /\ ActiveMatches(r.content) /\ VersionsMatch(r.content, r.had)
    BY Zenon DEF Trust, Ends
<1> HIDE DEF s
<1>5. CASE Ends(c)
    BY <1>1, <1>5, EndKeeps
<1>6. CASE /\ request' = [request EXCEPT ![c] = s]
           /\ ActiveMatches(r.content) /\ VersionsMatch(r.content, r.had)
    <2>1. request'[c] = s
        BY <1>6, SMT DEF IInv, TypeOK
    <2>2. ASSUME NEW i \in DOMAIN r.content.versions
          PROVE  Genuine(r.content, i)
        <3>1. i \in 1..Len(r.content.versions)
            BY Fits, ContentFits
        <3>2. CASE i > r.had
            BY <1>6, <3>1, <3>2, Fits, SMT DEF VersionsMatch
        <3>3. CASE ~(i > r.had)
            <4>1. i \in 1..r.had
                BY <3>1, <3>3, Fits, ContentFits, SMT
            <4> QED
                BY <1>1, <4>1 DEF IInv, Checked
        <3> QED
            BY <3>2, <3>3
    <2>3. r.content.active = project.active /\ document.content.active <= r.content.active
        BY <1>6 DEF IInv, Trusted, ActiveMatches
    <2>4. Sound(r.content)
        BY <2>2, <2>3, Fits, SMT DEF Sound
    <2>5. Current(c) => Extends(c)
        BY <1>1, <2>3 DEF IInv, Checked, Extends
    <2>6. Known(c)' /\ Checked(c)'
        BY <1>1, <1>2, <2>1, SMT DEF IInv, Known, Checked
    <2>7. Ready(c)'
        BY <1>1, <1>2, <2>1, <2>4, <2>5 DEF Ready, Sound, Genuine, Current, Extends
    <2> QED
        BY <1>1, <1>2, <1>3, <1>6, <2>6, <2>7, OneRequest
<1> QED
    BY <1>4, <1>5, <1>6

\* A save that does not write changes nothing but what its client has seen.
LEMMA AnswerKeeps ==
    ASSUME IInv, NEW c \in Clients, Save(c), document' = document
    PROVE  IInv'
<1> DEFINE n == NoRequest
<1>1. UNCHANGED <<members, project, published>> /\ request' = [request EXCEPT ![c] = n]
    BY DEF Save, Ends
<1>2. \/ seen' = seen
      \/ seen' = [seen EXCEPT ![c] = document.revision]
    BY SMT DEF Save, IInv, TypeOK
<1>3. seen' \in [Clients -> 0..MaxRevision]
    BY <1>2, SMT DEF IInv, TypeOK, Document
<1>4. \A d \in Clients : seen[d] <= seen'[d] /\ seen'[d] <= document.revision
    BY <1>2, ConstantsFit, SMT DEF IInv, TypeOK, Known, Document
<1>5. /\ request' \in [Clients -> Request]
      /\ request'[c] = n /\ \A d \in Clients \ {c} : request'[d] = request[d]
    BY <1>1, NothingFits, SMT DEF IInv, TypeOK
<1>6. TypeOK'
    <2>1. \A d \in Clients : request'[d].had <= Len(request'[d].content.versions)
        BY <1>5, NothingFits, BlankFits, SMT DEF IInv, TypeOK
    <2> QED
        BY <1>1, <1>3, <1>5, <2>1 DEF IInv, TypeOK
<1>7. (NewestActive /\ Unpublished /\ Unsaved /\ Trusted)'
    BY <1>1 DEF IInv, NewestActive, Unpublished, Unsaved, Trusted, Genuine
<1>8. ASSUME NEW d \in Clients
      PROVE  (Known(d) /\ Checked(d) /\ Ready(d))'
    <2>1. CASE d = c
        <3>1. Known(d)'
            <4>1. /\ request'[d].expected = 0 /\ request'[d].base = "seen"
                  /\ seen'[d] <= document'.revision
                BY <1>4, <1>5, <2>1, NothingFits
            <4>2. 0 <= seen'[d] /\ 0 <= document'.revision
                BY <1>3, Fits, ConstantsFit, SMT
            <4> QED
                BY <4>1, <4>2 DEF Known
        <3> QED
            BY <1>5, <2>1, <3>1, NothingFits, SMT DEF Checked, Ready
    <2>2. CASE d # c
        <3>1. request'[d] = request[d]
            BY <1>5, <2>2
        <3>2. Known(d)'
            BY <1>3, <1>4, <3>1, Fits, ConstantsFit, SMT DEF IInv, Known
        <3> QED
            BY <1>1, <3>1, <3>2
            DEF IInv, Checked, Ready, Repeats, Current, Extends, Sound, Genuine
    <2> QED
        BY <2>1, <2>2
<1> QED
    BY <1>6, <1>7, <1>8 DEF IInv

\* What a save that writes may rely on, at the moment it writes.
LEMMA WrittenFits ==
    ASSUME IInv, NEW c \in Clients, Save(c), document' # document
    PROVE  /\ document' = [revision |-> document.revision + 1, content |-> request[c].content]
           /\ document'.revision = document.revision + 1
           /\ document'.content = request[c].content
           /\ document.revision = request[c].expected /\ document.revision < MaxRevision
           /\ Sound(request[c].content)
           /\ request[c].base # "future" => Extends(c)
<1>1. /\ document' = [revision |-> document.revision + 1, content |-> request[c].content]
      /\ document.revision = request[c].expected /\ document.revision < MaxRevision
      /\ ~Repeats(request[c].content)
    BY Zenon DEF Save, SaveDocumentForMember, SameRevision
<1>2. Sound(request[c].content) /\ (request[c].base # "future" => Extends(c))
    BY <1>1 DEF IInv, Ready, Save, Current
<1> QED
    BY <1>1, <1>2

LEMMA WriteKeeps ==
    ASSUME IInv, NEW c \in Clients, Save(c), document' # document
    PROVE  IInv'
<1> DEFINE r == request[c]
           n == NoRequest
<1>1. UNCHANGED <<members, project, published>> /\ request' = [request EXCEPT ![c] = n]
    BY DEF Save, Ends
<1>2. /\ document' = [revision |-> document.revision + 1, content |-> r.content]
      /\ document'.revision = document.revision + 1 /\ document'.content = r.content
      /\ document.revision < MaxRevision /\ Sound(r.content)
    BY WrittenFits
<1>3. \/ seen' = seen
      \/ seen' = [seen EXCEPT ![c] = document.revision + 1]
    BY <1>2, SMT DEF Save, IInv, TypeOK
<1>4. document.revision + 1 \in 0..MaxRevision
    BY <1>2, Fits, ConstantsFit, SMT
<1>5. seen' \in [Clients -> 0..MaxRevision]
    BY <1>3, <1>4, SMT DEF IInv, TypeOK
<1>6. \A d \in Clients : seen[d] <= seen'[d] /\ seen'[d] <= document.revision + 1
    BY <1>3, ConstantsFit, SMT DEF IInv, TypeOK, Known, Document
<1>7. /\ request' \in [Clients -> Request]
      /\ request'[c] = n /\ \A d \in Clients \ {c} : request'[d] = request[d]
    BY <1>1, NothingFits, SMT DEF IInv, TypeOK
<1>8. TypeOK'
    <2>1. \A d \in Clients : request'[d].had <= Len(request'[d].content.versions)
        BY <1>7, NothingFits, BlankFits, SMT DEF IInv, TypeOK
    <2>2. document' \in Document
        BY <1>2, <1>4, Fits, SMT DEF Document
    <2> QED
        BY <1>1, <1>5, <1>7, <2>1, <2>2 DEF IInv, TypeOK
<1>9. (NewestActive /\ Unpublished)'
    BY <1>1 DEF IInv, NewestActive, Unpublished
<1>10. Unsaved'
    BY <1>2, Fits, SMT DEF Unsaved
<1>11. Trusted'
    BY <1>1, <1>2 DEF Sound, Trusted, Genuine
<1>12. ASSUME NEW d \in Clients
       PROVE  (Known(d) /\ Checked(d) /\ Ready(d))'
    <2>1. CASE d = c
        <3>1. Known(d)'
            <4>1. /\ request'[d].expected = 0 /\ request'[d].base = "seen"
                  /\ seen'[d] <= document'.revision
                BY <1>2, <1>6, <1>7, <2>1, NothingFits
            <4>2. 0 <= seen'[d] /\ 0 <= document'.revision
                BY <1>2, <1>5, Fits, ConstantsFit, SMT
            <4> QED
                BY <4>1, <4>2 DEF Known
        <3> QED
            BY <1>7, <2>1, <3>1, NothingFits, SMT DEF Checked, Ready
    <2>2. CASE d # c
        <3>1. request'[d] = request[d]
            BY <1>7, <2>2
        <3>2. Known(d)'
            BY <1>2, <1>5, <1>6, <3>1, Fits, ConstantsFit, SMT DEF IInv, Known
        <3>3. ~Current(d)'
            BY <1>2, <3>1, Fits, SMT DEF IInv, Known, Current
        <3> QED
            BY <1>1, <3>1, <3>2, <3>3 DEF IInv, Checked, Ready, Sound, Genuine
    <2> QED
        BY <2>1, <2>2
<1> QED
    BY <1>8, <1>9, <1>10, <1>11, <1>12 DEF IInv

LEMMA Stutters == ASSUME IInv, UNCHANGED vars PROVE IInv'
BY DEF vars, IInv, TypeOK, NewestActive, Unpublished, Trusted, Unsaved, Known, Checked, Ready,
    Repeats, Current, Extends, Sound, Genuine

LEMMA LostKeeps == ASSUME IInv, NEW c \in Clients, Lost(c) PROVE IInv'
BY EndKeeps DEF Lost

LEMMA Preserved == IInv /\ [Next]_vars => IInv'
<1> SUFFICES ASSUME IInv, [Next]_vars
             PROVE  IInv'
    OBVIOUS
<1>1. CASE Publish
    BY <1>1, PublishKeeps
<1>2. ASSUME NEW c \in Clients, NEW a \in 0..MaxVersions, Sync(c, a)
      PROVE  IInv'
    BY <1>2, SyncKeeps
<1>3. ASSUME NEW c \in Clients, Leave(c) \/ Join(c)
      PROVE  IInv'
    BY <1>3, MembershipKeeps
<1>4. ASSUME NEW c \in Clients, Get(c)
      PROVE  IInv'
    BY <1>4, GetKeeps
<1>5. ASSUME NEW c \in Clients, NEW e \in 0..MaxRevision - 1, NEW k \in Contents, Send(c, e, k)
      PROVE  IInv'
    BY <1>5, SendKeeps
<1>6. ASSUME NEW c \in Clients, Lost(c)
      PROVE  IInv'
    BY <1>6, LostKeeps
<1>7. ASSUME NEW c \in Clients, Read(c)
      PROVE  IInv'
    BY <1>7, ReadKeeps
<1>8. ASSUME NEW c \in Clients, Trust(c)
      PROVE  IInv'
    BY <1>8, TrustKeeps
<1>9. ASSUME NEW c \in Clients, Save(c)
      PROVE  IInv'
    BY <1>9, AnswerKeeps, WriteKeeps
<1>10. CASE UNCHANGED vars
    BY <1>10, Stutters
<1> QED
    BY <1>1, <1>2, <1>3, <1>4, <1>5, <1>6, <1>7, <1>8, <1>9, <1>10 DEF Next, SendBounded

-----------------------------------------------------------------------------
(* The theorems.                                                           *)

\* The invariant holds always: the basis of what follows.
LEMMA Invariant == Spec => []IInv
<1> QED
    BY Initially, Preserved, PTL DEF Spec

\* The rows and requests keep their shape; a request knows of no more versions than it has.
THEOREM DocumentTypeCorrect == Spec => []TypeOK
<1>1. IInv => TypeOK
    BY DEF IInv
<1> QED
    BY <1>1, Invariant, PTL

\* No metadata a client synchronises, however late, turns the active version back.
THEOREM ActiveIsNewest == Spec => []NewestActive
<1>1. IInv => NewestActive
    BY DEF IInv
<1> QED
    BY <1>1, Invariant, PTL

\* A saved document holds published versions only, though they were checked earlier.
THEOREM DocumentsTrusted == Spec => []Trusted
<1>1. IInv => Trusted
    BY DEF IInv
<1> QED
    BY <1>1, Invariant, PTL

\* Only a save changes the document.
LEMMA OnlySavesWrite ==
    ASSUME [Next]_vars, document' # document
    PROVE  \E c \in Clients : Save(c)
BY DEF Next, vars, Publish, Sync, Leave, Join, Get, SendBounded, Send, Lost, Read, Trust

LEMMA SavesEnd == ASSUME IInv, NEW c \in Clients, Save(c) PROVE Saves(c)
BY NothingFits, SMT DEF Save, Saves, Ends, IInv, TypeOK

\* No save loses a version or takes the active version of the document back, unless it
\* named a revision that had not been saved yet when it was sent.
THEOREM DocumentsGrow == Spec => DocumentForward
<1>1. IInv /\ [Next]_vars =>
        [\E c \in Clients : Saves(c) /\ (request[c].base # "future" => Grows)]_document
    <2> SUFFICES ASSUME IInv, [Next]_vars, document' # document
                 PROVE  \E c \in Clients : Saves(c) /\ (request[c].base # "future" => Grows)
        OBVIOUS
    <2>1. PICK c \in Clients : Save(c)
        BY OnlySavesWrite
    <2>2. request[c].base # "future" => Grows
        BY <2>1, WrittenFits DEF Extends, Grows
    <2> QED
        BY <2>1, <2>2, SavesEnd
<1> QED
    BY <1>1, Invariant, PTL DEF Spec, DocumentForward

\* Whoever replaces a document has seen the revision that is replaced, if it names only
\* revisions that it has seen.
THEOREM OverwritesAreSeen == Spec => NoBlindOverwrite
<1>1. IInv /\ [Next]_vars =>
        [\E c \in Clients : Saves(c) /\ (request[c].base = "seen" =>
                                            seen[c] >= document.revision)]_document
    <2> SUFFICES ASSUME IInv, [Next]_vars, document' # document
                 PROVE  \E c \in Clients : Saves(c) /\ (request[c].base = "seen" =>
                                                            seen[c] >= document.revision)
        OBVIOUS
    <2>1. PICK c \in Clients : Save(c)
        BY OnlySavesWrite
    <2>2. document.revision = request[c].expected
        BY <2>1, WrittenFits
    <2>3. request[c].base = "seen" => seen[c] >= document.revision
        BY <2>2, Fits, SMT DEF IInv, Known
    <2> QED
        BY <2>1, <2>3, SavesEnd
<1> QED
    BY <1>1, Invariant, PTL DEF Spec, NoBlindOverwrite
=============================================================================
