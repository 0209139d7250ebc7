--------------------------- MODULE BuildWorkerProofs ---------------------------
(* Proofs about BuildWorker, for any requests, artifacts and number of slots. *)
EXTENDS BuildWorker, FiniteSetTheorems, TLAPS

-----------------------------------------------------------------------------
(* The inductive invariant.                                                *)

Building == {"write", "vite", "inspect", "persist", "existing", "clean"}

\* What a request is by its stage, with the store as it is: only a build has a workspace
\* and a child, a manifest that is read from is genuine, and what was stored is there.
Shape(q, st) ==
    /\ q.at \in Building => q.kind = "compile" /\ q.workspace
    /\ q.at = "verify" => q.kind = "verify"
    /\ q.at \in {"stat", "manifest", "read"} => q.kind = "preview"
    /\ q.child # "none" => q.at = "vite"
    /\ q.child = "running" => ~q.aborted
    /\ q.stored => st[q.artifact] # "absent"
    /\ q.at = "read" => q.manifest = "genuine"
    /\ q.at # "done" => q.answer = "none"
    /\ q.answer = "ok" => st[q.artifact] # "absent"
    /\ q.answer = "ok" /\ q.kind = "preview" => q.content = "genuine"

IInv ==
    /\ TypeOK
    /\ \A r \in Requests : Shape(request[r], store)
    /\ IsFiniteSet(Compiling)
    /\ activeBuilds = Cardinality(Compiling)

-----------------------------------------------------------------------------
(* Requests and the store.                                                 *)

LEMMA NoRequestType == NoRequest \in Request
BY WorkerAssumption DEF NoRequest, Request, AnyArtifact, Kinds, Stages, Answers, Found

LEMMA EndedType ==
    ASSUME NEW q \in Request, NEW answer \in Answers
    PROVE  LET e == Ended(q, answer)
           IN  /\ e \in Request
               /\ e.kind = q.kind /\ e.artifact = q.artifact /\ e.at = "done"
               /\ e.answer = answer /\ e.content = q.content
               /\ e.child = "none" /\ e.stored = FALSE
BY NoRequestType DEF Ended, Request, Stages, NoRequest

\* An end is in shape unless it tells of what is not there, or is not genuine.
LEMMA EndedShape ==
    ASSUME NEW q \in Request, NEW answer \in Answers, NEW st,
           answer = "ok" => /\ st[q.artifact] # "absent"
                            /\ q.kind = "preview" => q.content = "genuine"
    PROVE  Shape(Ended(q, answer), st)
BY EndedType DEF Shape, Building

\* Nothing that is in the store comes to have never been there.
Keeps(st, next) ==
    /\ next \in [Artifacts -> {"absent", "sound", "damaged", "removed"}]
    /\ \A a \in Artifacts : st[a] # "absent" => next[a] # "absent"

LEMMA ShapeStays ==
    ASSUME NEW q \in Request, NEW st, NEW next, Keeps(st, next), Shape(q, st)
    PROVE  Shape(q, next)
BY DEF Shape, Keeps, Request

\* One request changes, and the others stay in shape.
LEMMA OneChanges ==
    ASSUME IInv, NEW r \in Requests, NEW next \in Request, Becomes(r, next),
           Keeps(store, store'), Shape(next, store')
    PROVE  /\ request' \in [Requests -> Request]
           /\ \A s \in Requests : Shape(request[s], store)'
           /\ request'[r] = next
           /\ \A s \in Requests : s # r => request'[s] = request[s]
<1>1. /\ request' \in [Requests -> Request]
      /\ request'[r] = next
      /\ \A s \in Requests : s # r => request'[s] = request[s]
    BY DEF IInv, TypeOK, Becomes
<1>2. \A s \in Requests : Shape(request[s], store')
    BY ShapeStays DEF IInv, TypeOK
<1> QED
    BY <1>1, <1>2

\* A request that is under way goes on.
LEMMA GoesOn ==
    ASSUME IInv, NEW r \in Requests, NEW next \in Request, Becomes(r, next),
           Keeps(store, store'), Shape(next, store'),
           artifactManifestCache' \subseteq Artifacts, UNCHANGED activeBuilds,
           next.kind = request[r].kind,
           next.at \notin {"idle", "done"}, request[r].at \notin {"idle", "done"}
    PROVE  IInv'
<1>1. Compiling' = Compiling
    BY OneChanges DEF Compiling
<1>2. TypeOK'
    BY OneChanges DEF IInv, TypeOK, Keeps
<1> QED
    BY <1>1, <1>2, OneChanges DEF IInv

\* A request that is under way comes to its end, and a build gives its slot back.
LEMMA ComesToItsEnd ==
    ASSUME IInv, NEW r \in Requests, NEW q \in Request, NEW answer \in Answers,
           Becomes(r, Ended(q, answer)), SlotBack(q), q.kind = request[r].kind,
           answer = "ok" => /\ store[q.artifact] # "absent"
                            /\ q.kind = "preview" => q.content = "genuine",
           UNCHANGED store, artifactManifestCache' \subseteq Artifacts,
           request[r].at \notin {"idle", "done"}
    PROVE  IInv'
<1> DEFINE next == Ended(q, answer)
<1>1. next \in Request /\ next.kind = q.kind /\ next.at = "done" /\ Shape(next, store')
    <2>1. next \in Request /\ next.kind = q.kind /\ next.at = "done"
        BY EndedType
    <2>2. Shape(next, store)
        BY EndedShape
    <2> QED
        BY <2>1, <2>2
<1> HIDE DEF next
<1>2. Keeps(store, store')
    BY DEF Keeps, IInv, TypeOK
<1>3. /\ request' \in [Requests -> Request]
      /\ \A s \in Requests : Shape(request[s], store)'
      /\ request'[r] = next
      /\ \A s \in Requests : s # r => request'[s] = request[s]
    BY <1>1, <1>2, OneChanges DEF next
<1>4. CASE q.kind = "compile"
    <2>1. Compiling' = Compiling \ {r} /\ r \in Compiling
        BY <1>1, <1>3, <1>4 DEF Compiling
    <2>2. IsFiniteSet(Compiling') /\ Cardinality(Compiling') = Cardinality(Compiling) - 1
        BY <2>1, FS_RemoveElement DEF IInv
    <2>3. Cardinality(Compiling') \in Nat
        BY <2>2, FS_CardinalityType
    <2>4. activeBuilds' = Cardinality(Compiling') /\ activeBuilds' \in 0..MaxConcurrentBuilds
        BY <1>4, <2>2, <2>3, WorkerAssumption, SMT DEF SlotBack, IInv, TypeOK
    <2> QED
        BY <1>3, <2>2, <2>4 DEF IInv, TypeOK
<1>5. CASE q.kind # "compile"
    <2>1. Compiling' = Compiling
        BY <1>1, <1>3, <1>5 DEF Compiling
    <2>2. activeBuilds' = activeBuilds
        BY <1>5 DEF SlotBack
    <2> QED
        BY <1>3, <2>1, <2>2 DEF IInv, TypeOK
<1> QED
    BY <1>4, <1>5

-----------------------------------------------------------------------------
(* One step after the other.                                               *)

LEMMA Initially == Init => IInv
<1> SUFFICES ASSUME Init
             PROVE  IInv
    OBVIOUS
<1>1. Compiling = {}
    BY DEF Init, Compiling, NoRequest
<1>2. IsFiniteSet(Compiling) /\ activeBuilds = Cardinality(Compiling)
    BY <1>1, FS_EmptySet DEF Init
<1>3. TypeOK
    BY NoRequestType, WorkerAssumption, SMT DEF Init, TypeOK
<1>4. \A r \in Requests : Shape(request[r], store)
    BY DEF Init, Shape, NoRequest, Building
<1> QED
    BY <1>2, <1>3, <1>4 DEF IInv

LEMMA StoreKept == ASSUME IInv, UNCHANGED store PROVE Keeps(store, store')
BY DEF IInv, TypeOK, Keeps

\* A build that comes in takes a slot, if there is one.
LEMMA ArriveStep ==
    ASSUME IInv, NEW r \in Requests, NEW kind \in Kinds, NEW a \in Artifacts, Arrive(r, kind, a)
    PROVE  IInv'
<1> DEFINE new  == [NoRequest EXCEPT !.kind = kind, !.artifact = a]
           next == [new EXCEPT !.at = IF kind = "preview" THEN "stat" ELSE "body"]
<1>1. new \in Request /\ new.kind = kind
    BY NoRequestType DEF Request
<1>2. UNCHANGED <<store, artifactManifestCache>> /\ request[r].at = "idle"
    BY DEF Arrive
<1>3. CASE kind = "compile" /\ NoSlot
    <2>1. Becomes(r, Ended(new, "busy")) /\ UNCHANGED activeBuilds
        BY <1>3 DEF Arrive
    <2>2. /\ Ended(new, "busy") \in Request /\ Ended(new, "busy").at = "done"
          /\ Shape(Ended(new, "busy"), store)
        BY <1>1, EndedType, EndedShape DEF Answers
    <2>3. /\ request' \in [Requests -> Request]
          /\ \A s \in Requests : Shape(request[s], store)'
          /\ request'[r].at = "done"
          /\ \A s \in Requests : s # r => request'[s] = request[s]
        BY <1>2, <2>1, <2>2, StoreKept, OneChanges
    <2>4. Compiling' = Compiling
        BY <1>2, <2>3 DEF Compiling
    <2> QED
        BY <1>2, <2>1, <2>3, <2>4 DEF IInv, TypeOK
<1>4. CASE ~ (kind = "compile" /\ NoSlot)
    <2>1. /\ Becomes(r, next)
          /\ activeBuilds' = IF kind = "compile" THEN activeBuilds + 1 ELSE activeBuilds
        BY <1>4 DEF Arrive
    <2>2. next \in Request /\ next.kind = kind /\ next.at \in {"stat", "body"}
            /\ (next.at = "stat" => kind = "preview")
        BY <1>1 DEF Request, Stages
    <2>3. next.child = "none" /\ next.stored = FALSE /\ next.answer = "none"
        BY DEF NoRequest
    <2> HIDE DEF next
    <2>4. Shape(next, store)
        BY <2>2, <2>3 DEF Shape, Building
    <2>5. /\ request' \in [Requests -> Request]
          /\ \A s \in Requests : Shape(request[s], store)'
          /\ request'[r] = next
          /\ \A s \in Requests : s # r => request'[s] = request[s]
        BY <1>2, <2>1, <2>2, <2>4, StoreKept, OneChanges
    <2>6. CASE kind = "compile"
        <3>1. Compiling' = Compiling \cup {r} /\ r \notin Compiling
            BY <1>2, <2>2, <2>5, <2>6 DEF Compiling
        <3>2. IsFiniteSet(Compiling') /\ Cardinality(Compiling') = Cardinality(Compiling) + 1
            BY <3>1, FS_AddElement DEF IInv
        <3>3. ~ (activeBuilds >= MaxConcurrentBuilds)
            BY <1>4, <2>6 DEF NoSlot
        <3>4. activeBuilds' = Cardinality(Compiling') /\ activeBuilds' \in 0..MaxConcurrentBuilds
            BY <2>1, <2>6, <3>2, <3>3, WorkerAssumption, SMT DEF IInv, TypeOK
        <3> QED
            BY <1>2, <2>5, <3>2, <3>4 DEF IInv, TypeOK
    <2>7. CASE kind # "compile"
        <3>1. Compiling' = Compiling /\ activeBuilds' = activeBuilds
            BY <1>2, <2>1, <2>2, <2>5, <2>7 DEF Compiling
        <3> QED
            BY <1>2, <2>5, <3>1 DEF IInv, TypeOK
    <2> QED
        BY <2>6, <2>7
<1> QED
    BY <1>3, <1>4

LEMMA CancelStep == ASSUME IInv, NEW r \in Requests, cancelOnDisconnect(r) PROVE IInv'
<1> DEFINE q == request[r]
           next == [Kill(q) EXCEPT !.aborted = TRUE]
<1>1. q \in Request /\ Shape(q, store) /\ q.at \notin {"idle", "done"}
    BY DEF IInv, TypeOK, cancelOnDisconnect
<1>2. next \in Request /\ next.kind = q.kind /\ next.at = q.at
    BY <1>1 DEF Kill, Request
<1>3. Shape(next, store)
    BY <1>1 DEF Kill, Shape, Request
<1> QED
    BY <1>1, <1>2, <1>3, StoreKept, GoesOn DEF cancelOnDisconnect, IInv, TypeOK
\* A request that fails, at whatever stage.
LEMMA FailsStep ==
    ASSUME IInv, NEW r \in Requests, NEW q \in Request, Fails(r, q), q.kind = request[r].kind,
           UNCHANGED store, artifactManifestCache' \subseteq Artifacts,
           request[r].at \notin {"idle", "done"}
    PROVE  IInv'
<1>1. PICK answer \in {"cancelled", "failed"} : Becomes(r, Ended(q, answer)) /\ SlotBack(q)
    BY DEF Fails
<1>2. answer \in Answers /\ answer # "ok"
    BY DEF Answers
<1> QED
    BY <1>1, <1>2, ComesToItsEnd

\* A request goes to another stage, and nothing else happens.
LEMMA JustGoesOn ==
    ASSUME IInv, NEW r \in Requests, NEW next \in Request, Becomes(r, next), Shape(next, store),
           UNCHANGED <<activeBuilds, store, artifactManifestCache>>,
           next.kind = request[r].kind,
           next.at \notin {"idle", "done"}, request[r].at \notin {"idle", "done"}
    PROVE  IInv'
BY StoreKept, GoesOn DEF IInv, TypeOK

LEMMA InShape == ASSUME IInv, NEW r \in Requests PROVE request[r] \in Request /\ Shape(request[r], store)
BY DEF IInv, TypeOK

LEMMA BodyStep == ASSUME IInv, NEW r \in Requests, Body(r) PROVE IInv'
<1> DEFINE q == request[r]
<1>1. q \in Request /\ Shape(q, store) /\ q.at = "body"
    BY InShape DEF Body
<1>2. UNCHANGED <<store, artifactManifestCache>> /\ artifactManifestCache' \subseteq Artifacts
    BY DEF Body, IInv, TypeOK
<1>3. CASE Fails(r, q)
    BY <1>1, <1>2, <1>3, FailsStep
<1>4. CASE /\ q.kind = "compile" /\ UNCHANGED activeBuilds
           /\ Becomes(r, [q EXCEPT !.at = "write", !.workspace = TRUE])
    <2> DEFINE next == [q EXCEPT !.at = "write", !.workspace = TRUE]
    <2>1. next \in Request /\ next.kind = q.kind /\ next.at = "write"
        BY <1>1 DEF Request, Stages
    <2>2. Shape(next, store)
        BY <1>1, <1>4 DEF Shape, Request, Building
    <2> QED
        BY <1>1, <1>2, <1>4, <2>1, <2>2, JustGoesOn
<1>5. CASE /\ q.kind = "verify" /\ UNCHANGED activeBuilds
           /\ Becomes(r, [q EXCEPT !.at = "verify"])
    <2> DEFINE next == [q EXCEPT !.at = "verify"]
    <2>1. next \in Request /\ next.kind = q.kind /\ next.at = "verify"
        BY <1>1 DEF Request, Stages
    <2>2. Shape(next, store)
        BY <1>1, <1>5 DEF Shape, Request, Building
    <2> QED
        BY <1>1, <1>2, <1>5, <2>1, <2>2, JustGoesOn
<1> QED
    BY <1>3, <1>4, <1>5 DEF Body

\* A build leaves for its cleaning from wherever it has no child.
LEMMA LeavesShape ==
    ASSUME IInv, NEW r \in Requests, request[r].at \in Building, request[r].child = "none"
    PROVE  LET next == [request[r] EXCEPT !.at = "clean"]
           IN  /\ next \in Request /\ next.kind = request[r].kind /\ next.at = "clean"
               /\ Shape(next, store)
BY InShape DEF Request, Stages, Shape, Building

LEMMA runViteStep == ASSUME IInv, NEW r \in Requests, runVite(r) PROVE IInv'
<1> DEFINE q == request[r]
           next == [q EXCEPT !.at = "vite", !.child = "running"]
<1>1. /\ q \in Request /\ Shape(q, store) /\ q.at = "write" /\ q.child = "none"
      /\ UNCHANGED <<activeBuilds, store, artifactManifestCache>>
    BY InShape DEF runVite, Shape
<1>2. CASE Leaves(r)
    BY <1>1, <1>2, LeavesShape, JustGoesOn DEF Leaves, Building
<1>3. CASE ~q.aborted /\ Becomes(r, next)
    <2>1. next \in Request /\ next.kind = q.kind /\ next.at = "vite"
        BY <1>1 DEF Request, Stages
    <2>2. Shape(next, store)
        BY <1>1, <1>3 DEF Shape, Request, Building
    <2> QED
        BY <1>1, <1>3, <2>1, <2>2, JustGoesOn
<1> QED
    BY <1>2, <1>3 DEF runVite, Cancelled

LEMMA ChildEndsStep == ASSUME IInv, NEW r \in Requests, ChildEnds(r) PROVE IInv'
<1> DEFINE q == request[r]
<1>1. /\ q \in Request /\ Shape(q, store) /\ q.at = "vite"
      /\ UNCHANGED <<activeBuilds, store, artifactManifestCache>>
    BY InShape DEF ChildEnds, Shape
<1>2. PICK child \in {"passed", "broken"} : Becomes(r, [q EXCEPT !.child = child])
    BY DEF ChildEnds
<1> DEFINE next == [q EXCEPT !.child = child]
<1>3. next \in Request /\ next.kind = q.kind /\ next.at = "vite"
    BY <1>1 DEF Request
<1>4. Shape(next, store)
    BY <1>1 DEF Shape, Request, Building
<1> QED
    BY <1>1, <1>2, <1>3, <1>4, JustGoesOn

LEMMA TimeoutStep == ASSUME IInv, NEW r \in Requests, Timeout(r) PROVE IInv'
<1> DEFINE q == request[r]
           next == [q EXCEPT !.child = "killed"]
<1>1. /\ q \in Request /\ Shape(q, store) /\ q.at = "vite" /\ Becomes(r, next)
      /\ UNCHANGED <<activeBuilds, store, artifactManifestCache>>
    BY InShape DEF Timeout, Armed, Kill
<1>2. next \in Request /\ next.kind = q.kind /\ next.at = "vite"
    BY <1>1 DEF Request
<1>3. Shape(next, store)
    BY <1>1 DEF Shape, Request, Building
<1> QED
    BY <1>1, <1>2, <1>3, JustGoesOn

LEMMA ExitStep == ASSUME IInv, NEW r \in Requests, Exit(r) PROVE IInv'
<1> DEFINE q == request[r]
<1>1. /\ q \in Request /\ Shape(q, store) /\ q.at = "vite"
      /\ UNCHANGED <<activeBuilds, store, artifactManifestCache>>
    BY InShape DEF Exit
<1>2. PICK at \in {"inspect", "clean"} : Becomes(r, [q EXCEPT !.child = "none", !.at = at])
    BY DEF Exit
<1> DEFINE next == [q EXCEPT !.child = "none", !.at = at]
<1>3. next \in Request /\ next.kind = q.kind /\ next.at = at
    BY <1>1 DEF Request, Stages
<1>4. Shape(next, store)
    BY <1>1 DEF Shape, Request, Building
<1> QED
    BY <1>1, <1>2, <1>3, <1>4, JustGoesOn

LEMMA inspectArtifactStep == ASSUME IInv, NEW r \in Requests, inspectArtifact(r) PROVE IInv'
<1> DEFINE q == request[r]
           next == [q EXCEPT !.at = "persist"]
<1>1. /\ q \in Request /\ Shape(q, store) /\ q.at = "inspect" /\ q.child = "none"
      /\ UNCHANGED <<activeBuilds, store, artifactManifestCache>>
    BY InShape DEF inspectArtifact, Shape
<1>2. CASE Leaves(r)
    BY <1>1, <1>2, LeavesShape, JustGoesOn DEF Leaves, Building
<1>3. CASE Becomes(r, next)
    <2>1. next \in Request /\ next.kind = q.kind /\ next.at = "persist"
        BY <1>1 DEF Request, Stages
    <2>2. Shape(next, store)
        BY <1>1 DEF Shape, Request, Building
    <2> QED
        BY <1>1, <1>3, <2>1, <2>2, JustGoesOn
<1> QED
    BY <1>2, <1>3 DEF inspectArtifact
\* The one step that writes the store puts in what was not there.
LEMMA persistArtifactStep == ASSUME IInv, NEW r \in Requests, persistArtifact(r) PROVE IInv'
<1> DEFINE q == request[r]
<1>1. q \in Request /\ Shape(q, store) /\ q.at = "persist" /\ q.child = "none"
        /\ q.artifact \in Artifacts /\ UNCHANGED activeBuilds
    BY InShape DEF persistArtifact, Shape, Request
<1>2. CASE /\ store' = [store EXCEPT ![q.artifact] = "sound"]
           /\ rememberArtifact(q.artifact)
           /\ Becomes(r, [q EXCEPT !.at = "clean", !.stored = TRUE])
    <2> DEFINE next == [q EXCEPT !.at = "clean", !.stored = TRUE]
    <2>1. next \in Request /\ next.kind = q.kind /\ next.at = "clean"
        BY <1>1 DEF Request, Stages
    <2>2. Keeps(store, store') /\ store'[q.artifact] = "sound"
        BY <1>1, <1>2 DEF Keeps, IInv, TypeOK
    <2>3. Shape(next, store')
        BY <1>1, <2>2 DEF Shape, Request, Building, Keeps
    <2>4. artifactManifestCache' \subseteq Artifacts
        BY <1>1, <1>2 DEF rememberArtifact, IInv, TypeOK
    <2> QED
        BY <1>1, <1>2, <2>1, <2>2, <2>3, <2>4, GoesOn
<1>3. CASE Taken(r)
    <2> DEFINE next == [q EXCEPT !.at = "existing"]
    <2>1. next \in Request /\ next.kind = q.kind /\ next.at = "existing"
        BY <1>1 DEF Request, Stages
    <2>2. Shape(next, store)
        BY <1>1 DEF Shape, Request, Building
    <2> QED
        BY <1>1, <1>3, <2>1, <2>2, JustGoesOn DEF Taken
<1>4. CASE Leaves(r) /\ UNCHANGED <<store, artifactManifestCache>>
    BY <1>1, <1>4, LeavesShape, JustGoesOn DEF Leaves, Building
<1> QED
    BY <1>2, <1>3, <1>4 DEF persistArtifact

\* What was verified is in the store.
LEMMA VerifiedIsThere ==
    ASSUME NEW a, Verified(Inspected(a))
    PROVE  store[a] # "absent" /\ Inspected(a) = "genuine"
BY DEF Verified, Inspected

LEMMA ExistingStep == ASSUME IInv, NEW r \in Requests, Existing(r) PROVE IInv'
<1> DEFINE q == request[r]
<1>1. q \in Request /\ Shape(q, store) /\ q.at = "existing" /\ q.child = "none"
        /\ q.artifact \in Artifacts /\ UNCHANGED <<activeBuilds, store>>
    BY InShape DEF Existing, Shape, Request
<1>2. CASE Verified(Inspected(q.artifact))
    <2> DEFINE next == [q EXCEPT !.at = "clean", !.stored = TRUE]
    <2>1. next \in Request /\ next.kind = q.kind /\ next.at = "clean"
        BY <1>1 DEF Request, Stages
    <2>2. Shape(next, store')
        BY <1>1, <1>2, VerifiedIsThere DEF Shape, Request, Building
    <2>3. artifactManifestCache' \subseteq Artifacts /\ Becomes(r, next)
        BY <1>1, <1>2 DEF Existing, rememberArtifact, IInv, TypeOK
    <2> QED
        BY <1>1, <2>1, <2>2, <2>3, StoreKept, GoesOn
<1>3. CASE ~Verified(Inspected(q.artifact))
    BY <1>1, <1>3, LeavesShape, JustGoesOn DEF Existing, Leaves, Building
<1> QED
    BY <1>2, <1>3

LEMMA CleanStep == ASSUME IInv, NEW r \in Requests, Clean(r) PROVE IInv'
<1> DEFINE q == [request[r] EXCEPT !.workspace = FALSE]
<1>1. /\ request[r] \in Request /\ Shape(request[r], store) /\ request[r].at = "clean"
      /\ UNCHANGED store /\ artifactManifestCache' \subseteq Artifacts
    BY InShape DEF Clean, IInv, TypeOK
<1>2. /\ q \in Request /\ q.kind = request[r].kind /\ q.kind = "compile"
      /\ q.artifact = request[r].artifact /\ q.stored = request[r].stored
    BY <1>1 DEF Request, Shape, Building
<1>3. CASE q.stored /\ Succeeds(r, q)
    <2>1. store[q.artifact] # "absent"
        BY <1>1, <1>2, <1>3 DEF Shape
    <2> QED
        BY <1>1, <1>2, <1>3, <2>1, ComesToItsEnd DEF Succeeds, Answers
<1>4. CASE Fails(r, q)
    BY <1>1, <1>2, <1>4, FailsStep
<1> QED
    BY <1>3, <1>4 DEF Clean

LEMMA verifyArtifactStep == ASSUME IInv, NEW r \in Requests, verifyArtifact(r) PROVE IInv'
<1> DEFINE q == request[r]
<1>1. q \in Request /\ Shape(q, store) /\ q.at = "verify" /\ q.kind = "verify"
        /\ q.artifact \in Artifacts /\ UNCHANGED store
    BY InShape DEF verifyArtifact, Shape, Request
<1>2. artifactManifestCache' \subseteq Artifacts
    BY <1>1 DEF verifyArtifact, rememberArtifact, IInv, TypeOK
<1>3. CASE Verified(Inspected(q.artifact))
    BY <1>1, <1>2, <1>3, VerifiedIsThere, ComesToItsEnd DEF verifyArtifact, Succeeds, Answers
<1>4. CASE ~Verified(Inspected(q.artifact))
    BY <1>1, <1>2, <1>4, FailsStep DEF verifyArtifact
<1> QED
    BY <1>3, <1>4

LEMMA StatStep == ASSUME IInv, NEW r \in Requests, Stat(r) PROVE IInv'
<1> DEFINE q == request[r]
<1>1. q \in Request /\ Shape(q, store) /\ q.at = "stat" /\ q.kind = "preview"
        /\ q.artifact \in Artifacts /\ UNCHANGED <<activeBuilds, store>>
    BY InShape DEF Stat, Shape, Request
<1>2. artifactManifestCache' \subseteq Artifacts
    BY <1>1 DEF Stat, rememberArtifact, IInv, TypeOK
<1>3. CASE Becomes(r, Ended(q, "missing"))
    BY <1>1, <1>2, <1>3, ComesToItsEnd DEF SlotBack, Answers
<1>4. CASE Becomes(r, [q EXCEPT !.at = "read", !.manifest = "genuine"])
    <2> DEFINE next == [q EXCEPT !.at = "read", !.manifest = "genuine"]
    <2>1. next \in Request /\ next.kind = q.kind /\ next.at = "read"
        BY <1>1 DEF Request, Stages, Found
    <2>2. Shape(next, store')
        BY <1>1 DEF Shape, Request, Building
    <2> QED
        BY <1>1, <1>2, <1>4, <2>1, <2>2, StoreKept, GoesOn
<1>5. CASE Becomes(r, [q EXCEPT !.at = "manifest"])
    <2> DEFINE next == [q EXCEPT !.at = "manifest"]
    <2>1. next \in Request /\ next.kind = q.kind /\ next.at = "manifest"
        BY <1>1 DEF Request, Stages
    <2>2. Shape(next, store')
        BY <1>1 DEF Shape, Request, Building
    <2> QED
        BY <1>1, <1>2, <1>5, <2>1, <2>2, StoreKept, GoesOn
<1> QED
    BY <1>3, <1>4, <1>5 DEF Stat

\* A manifest is made from an artifact that was verified whole.
LEMMA artifactManifestStep == ASSUME IInv, NEW r \in Requests, artifactManifest(r) PROVE IInv'
<1> DEFINE q == request[r]
           next == [q EXCEPT !.at = "read", !.manifest = Inspected(q.artifact)]
<1>1. q \in Request /\ Shape(q, store) /\ q.at = "manifest" /\ q.kind = "preview"
        /\ q.artifact \in Artifacts /\ UNCHANGED store
    BY InShape DEF artifactManifest, Shape, Request
<1>2. artifactManifestCache' \subseteq Artifacts
    BY <1>1 DEF artifactManifest, rememberArtifact, IInv, TypeOK
<1>3. CASE Verified(Inspected(q.artifact))
    <2>1. next = [q EXCEPT !.at = "read", !.manifest = "genuine"]
        BY <1>3, VerifiedIsThere
    <2>2. next \in Request /\ next.kind = q.kind /\ next.at = "read"
        BY <1>1, <2>1 DEF Request, Stages, Found
    <2>3. Shape(next, store')
        BY <1>1, <2>1 DEF Shape, Request, Building
    <2>4. Becomes(r, next) /\ UNCHANGED activeBuilds
        BY <1>3 DEF artifactManifest
    <2> QED
        BY <1>1, <1>2, <2>2, <2>3, <2>4, StoreKept, GoesOn
<1>4. CASE ~Verified(Inspected(q.artifact))
    BY <1>1, <1>2, <1>4, FailsStep DEF artifactManifest
<1> QED
    BY <1>3, <1>4

\* What is read is compared with the manifest, which is genuine however old it is.
LEMMA serveArtifactStep == ASSUME IInv, NEW r \in Requests, serveArtifact(r) PROVE IInv'
<1> DEFINE q == request[r]
<1>1. /\ q \in Request /\ Shape(q, store) /\ q.at = "read" /\ q.manifest = "genuine"
      /\ UNCHANGED store /\ artifactManifestCache' \subseteq Artifacts
    BY InShape DEF serveArtifact, Shape, IInv, TypeOK
<1>2. CASE Fails(r, q)
    BY <1>1, <1>2, FailsStep
<1>3. CASE ~Fails(r, q)
    <2> DEFINE read == [q EXCEPT !.content = "genuine"]
    <2>1. store[q.artifact] # "absent" /\ Succeeds(r, read)
        BY <1>1, <1>3 DEF serveArtifact, Readable
    <2>2. read \in Request /\ read.kind = q.kind /\ read.artifact = q.artifact
            /\ read.content = "genuine"
        BY <1>1 DEF Request, Found
    <2> HIDE DEF read
    <2> QED
        BY <1>1, <2>1, <2>2, ComesToItsEnd DEF Succeeds, Answers
<1> QED
    BY <1>2, <1>3

-----------------------------------------------------------------------------
(* What happens to the worker.                                             *)

\* The store is harmed, or a manifest forgotten: no request takes notice.
LEMMA NoRequestMoves ==
    ASSUME IInv, UNCHANGED <<activeBuilds, request>>, Keeps(store, store'),
           artifactManifestCache' \subseteq Artifacts
    PROVE  IInv'
<1>1. TypeOK'
    BY DEF IInv, TypeOK, Keeps
<1>2. \A r \in Requests : Shape(request[r], store)'
    BY ShapeStays DEF IInv, TypeOK
<1>3. Compiling' = Compiling
    BY DEF Compiling
<1> QED
    BY <1>1, <1>2, <1>3 DEF IInv

LEMMA HarmStep == ASSUME IInv, NEW a \in Artifacts, Harm(a) PROVE IInv'
<1>1. Keeps(store, store')
    BY DEF Harm, Keeps, IInv, TypeOK
<1> QED
    BY <1>1, NoRequestMoves DEF Harm, IInv, TypeOK

LEMMA ForgetStep == ASSUME IInv, NEW a \in Artifacts, Forget(a) PROVE IInv'
<1>1. artifactManifestCache' \subseteq Artifacts
    BY DEF Forget, IInv, TypeOK
<1> QED
    BY <1>1, StoreKept, NoRequestMoves DEF Forget

\* After a restart no build is under way, and no slot is taken.
LEMMA RestartStep == ASSUME IInv, Restart PROVE IInv'
<1>1. ASSUME NEW r \in Requests
      PROVE  /\ request'[r] \in Request /\ request'[r].at \in {"idle", "done"}
             /\ Shape(request'[r], store)
    <2>1. Ended(request[r], "lost") \in Request /\ Ended(request[r], "lost").at = "done"
            /\ Shape(Ended(request[r], "lost"), store)
        BY InShape, EndedType, EndedShape DEF Answers
    <2> QED
        BY <2>1, InShape DEF Restart
<1>2. request' \in [Requests -> Request]
    BY <1>1 DEF Restart
<1>3. Compiling' = {}
    BY <1>1 DEF Compiling
<1>4. IsFiniteSet(Compiling') /\ activeBuilds' = Cardinality(Compiling')
    BY <1>3, FS_EmptySet DEF Restart
<1>5. TypeOK'
    BY <1>2, WorkerAssumption DEF Restart, IInv, TypeOK
<1> QED
    BY <1>1, <1>4, <1>5 DEF Restart, IInv

LEMMA NothingStep == ASSUME IInv, UNCHANGED vars PROVE IInv'
BY StoreKept, NoRequestMoves DEF vars, IInv, TypeOK

LEMMA Step == IInv /\ [Next]_vars => IInv'
BY ArriveStep, CancelStep, BodyStep, runViteStep, ChildEndsStep, TimeoutStep, ExitStep,
   inspectArtifactStep, persistArtifactStep, ExistingStep, CleanStep, verifyArtifactStep,
   StatStep, artifactManifestStep, serveArtifactStep, HarmStep, ForgetStep, RestartStep,
   NothingStep DEF Next, Handle

-----------------------------------------------------------------------------
(* The theorems.                                                           *)

\* Every request, artifact and counter has its shape; above all, the counter of slots
\* stays between none and all of them, over restarts and however a build ends.
THEOREM WorkerTypeCorrect == Spec => []TypeOK
<1>1. IInv => TypeOK
    BY DEF IInv
<1> QED
    BY Initially, Step, <1>1, PTL DEF Spec

\* However many clients come and leave: as many slots are taken as builds are under way,
\* and no child outlives its handler or runs for a client that has gone unkilled
\* (cancelOnDisconnect, runVite, and the handler's last clause).
THEOREM BuildsStaySupervised == Spec => []BuildsSupervised
<1>1. IInv => BuildsSupervised
    BY DEF IInv, BuildsSupervised, Shape, Building
<1> QED
    BY Initially, Step, <1>1, PTL DEF Spec

\* What a client was told is stored does not come to have never been there
\* (persistArtifact takes the place of an artifact, or verifies what has it).
THEOREM AnnouncedAlwaysStays == Spec => []AnnouncedStays
<1>1. IInv => AnnouncedStays
    BY DEF IInv, AnnouncedStays, Shape
<1> QED
    BY Initially, Step, <1>1, PTL DEF Spec

\* Whatever becomes of the store between the making of a manifest and the reading of a
\* file, only genuine content is served (artifactManifest, serveArtifact).
THEOREM ServedAlwaysGenuine == Spec => []ServedGenuine
<1>1. IInv => ServedGenuine
    BY DEF IInv, ServedGenuine, Shape
<1> QED
    BY Initially, Step, <1>1, PTL DEF Spec
=============================================================================
