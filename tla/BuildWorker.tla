----------------------------- MODULE BuildWorker -----------------------------
(***************************************************************************)
(* The build worker: one event loop that compiles snapshots in child       *)
(* processes, keeps what they build in a store of artifacts named by their *)
(* content, and verifies and serves these.  A step is what a handler does  *)
(* between two of its awaits; other handlers, children, timers and clients *)
(* that leave come in between, and so does damage to the store.            *)
(*                                                                         *)
(* An artifact is the content it is named for; a file of it is genuine or  *)
(* it is not.  A removed artifact is told from one that was never there.   *)
(***************************************************************************)
EXTENDS Naturals, FiniteSets

CONSTANTS Requests,
          Artifacts,             \* what snapshots compile to
          MaxConcurrentBuilds

ASSUME WorkerAssumption == MaxConcurrentBuilds \in 1..16 /\ Artifacts # {}

VARIABLES
    activeBuilds,                \* the counter of build slots in use
    store,                       \* the state of each artifact's directory
    artifactManifestCache,       \* the artifacts with a cached manifest
    request

vars == <<activeBuilds, store, artifactManifestCache, request>>

Kinds   == {"compile", "verify", "preview"}
Stages  == {"idle", "body", "write", "vite", "inspect", "persist", "existing", "clean",
            "verify", "stat", "manifest", "read", "done"}
Answers == {"none", "ok", "busy", "failed", "cancelled", "missing", "lost"}
Found   == {"none", "genuine", "other"}      \* the content an artifact is named for, or not
Request == [kind: Kinds, artifact: Artifacts, at: Stages, aborted: BOOLEAN,
            workspace: BOOLEAN, child: {"none", "running", "killed", "passed", "broken"},
            stored: BOOLEAN,     \* the artifact of this build is in the store
            answer: Answers, manifest: Found, content: Found]

AnyArtifact == CHOOSE a \in Artifacts : TRUE
NoRequest == [kind |-> "compile", artifact |-> AnyArtifact, at |-> "idle", aborted |-> FALSE,
              workspace |-> FALSE, child |-> "none", stored |-> FALSE, answer |-> "none",
              manifest |-> "none", content |-> "none"]

Init ==
    /\ activeBuilds = 0
    /\ store = [a \in Artifacts |-> "absent"]
    /\ artifactManifestCache = {}
    /\ request = [r \in Requests |-> NoRequest]

Becomes(r, next) == request' = [request EXCEPT ![r] = next]

Gone(a) == store[a] \in {"absent", "removed"}

\* The manifest is the newest of the cache; when it has to go depends on all others.
rememberArtifact(a) == artifactManifestCache' = artifactManifestCache \cup {a}

Forget(a) ==
    /\ artifactManifestCache' = artifactManifestCache \ {a}
    /\ UNCHANGED <<activeBuilds, store, request>>

\* Of a request that ended only its answer is kept.
Ended(q, answer) == [NoRequest EXCEPT !.kind = q.kind, !.artifact = q.artifact, !.at = "done",
                                      !.answer = answer, !.content = q.content]

-----------------------------------------------------------------------------
(* A request comes in, and may be left by its client.                      *)

NoSlot == activeBuilds >= MaxConcurrentBuilds

Arrive(r, kind, a) ==
    LET new == [NoRequest EXCEPT !.kind = kind, !.artifact = a]
    IN  /\ request[r].at = "idle"
        /\ IF kind = "compile" /\ NoSlot
           THEN /\ Becomes(r, Ended(new, "busy"))
                /\ UNCHANGED activeBuilds
           ELSE /\ Becomes(r, [new EXCEPT !.at = IF kind = "preview" THEN "stat" ELSE "body"])
                /\ activeBuilds' = IF kind = "compile" THEN activeBuilds + 1 ELSE activeBuilds
        /\ UNCHANGED <<store, artifactManifestCache>>

\* The kill reaches a child that still runs.
Kill(q) == IF q.child = "running" THEN [q EXCEPT !.child = "killed"] ELSE q

cancelOnDisconnect(r) ==
    /\ request[r].kind = "compile"
    /\ request[r].at \notin {"idle", "done"} /\ ~request[r].aborted
    /\ Becomes(r, [Kill(request[r]) EXCEPT !.aborted = TRUE])
    /\ UNCHANGED <<activeBuilds, store, artifactManifestCache>>

\* Every way out of the handler gives the slot of a build back.
SlotUnlessCancelled(q) ==
    activeBuilds' = IF q.kind = "compile" /\ ~q.aborted THEN activeBuilds - 1 ELSE activeBuilds
SlotBack(q) == activeBuilds' = IF q.kind = "compile" THEN activeBuilds - 1 ELSE activeBuilds

Fails(r, q) ==
    /\ Becomes(r, Ended(q, IF q.aborted THEN "cancelled" ELSE "failed"))
    /\ SlotBack(q)

Succeeds(r, q) == Becomes(r, Ended(q, "ok")) /\ SlotBack(q)

-----------------------------------------------------------------------------
(* Compiling.                                                              *)

\* The body is read, the snapshot and the toolchain are checked; a workspace is made.
Body(r) ==
    LET q == request[r]
    IN  /\ q.at = "body"
        /\ \/ Fails(r, q)
           \/ /\ q.kind = "compile" /\ ~q.aborted
              /\ Becomes(r, [q EXCEPT !.at = "write", !.workspace = TRUE])
              /\ UNCHANGED activeBuilds
           \/ /\ q.kind = "verify"
              /\ Becomes(r, [q EXCEPT !.at = "verify"])
              /\ UNCHANGED activeBuilds
        /\ UNCHANGED <<store, artifactManifestCache>>

Leaves(r) == Becomes(r, [request[r] EXCEPT !.at = "clean"])

Cancelled(q) == q.aborted

\* The files are written; a build whose client is gone by then is not started.
runVite(r) ==
    LET q == request[r]
    IN  /\ q.at = "write"
        /\ \/ Leaves(r)
           \/ /\ ~Cancelled(q)
              /\ Becomes(r, [q EXCEPT !.at = "vite", !.child = "running"])
        /\ UNCHANGED <<activeBuilds, store, artifactManifestCache>>

\* The child ends on its own, or because it was killed.
ChildEnds(r) ==
    LET q == request[r]
    IN  /\ q.child \in {"running", "killed"}
        /\ \E child \in IF q.child = "running" THEN {"passed", "broken"} ELSE {"broken"} :
               Becomes(r, [q EXCEPT !.child = child])
        /\ UNCHANGED <<activeBuilds, store, artifactManifestCache>>

ArmedByClient(q) == q.at = "vite" /\ q.child = "running" /\ q.aborted
Armed(q) == q.at = "vite" /\ q.child = "running"

Timeout(r) ==
    /\ Armed(request[r])
    /\ Becomes(r, Kill(request[r]))
    /\ UNCHANGED <<activeBuilds, store, artifactManifestCache>>

\* A build counts when its child ended well and its client is still there.
Exit(r) ==
    LET q == request[r]
    IN  /\ q.at = "vite" /\ q.child \in {"passed", "broken"}
        /\ Becomes(r, [q EXCEPT !.child = "none",
               !.at = IF q.child = "passed" /\ ~q.aborted THEN "inspect" ELSE "clean"])
        /\ UNCHANGED <<activeBuilds, store, artifactManifestCache>>

\* What was built is hashed, unless it is too large.
inspectArtifact(r) ==
    /\ request[r].at = "inspect"
    /\ \/ Leaves(r)
       \/ Becomes(r, [request[r] EXCEPT !.at = "persist"])
    /\ UNCHANGED <<activeBuilds, store, artifactManifestCache>>

\* The content takes its place in the store at once, or finds it taken.
TakenAndCleared(r) ==
    /\ store' = [store EXCEPT ![request[r].artifact] = "absent"]
    /\ UNCHANGED <<request, artifactManifestCache>>
Taken(r) ==
    /\ Becomes(r, [request[r] EXCEPT !.at = "existing"])
    /\ UNCHANGED <<store, artifactManifestCache>>

persistArtifact(r) ==
    LET q == request[r]
    IN  /\ q.at = "persist"
        /\ \/ /\ Gone(q.artifact)
              /\ store' = [store EXCEPT ![q.artifact] = "sound"]
              /\ rememberArtifact(q.artifact)
              /\ Becomes(r, [q EXCEPT !.at = "clean", !.stored = TRUE])
           \/ ~Gone(q.artifact) /\ Taken(r)
           \/ Leaves(r) /\ UNCHANGED <<store, artifactManifestCache>>
        /\ UNCHANGED activeBuilds

\* All of an artifact is read and hashed, and has to be what it is named for.
Inspected(a) == CASE store[a] = "sound"   -> "genuine"
                  [] store[a] = "damaged" -> "other"
                  [] OTHER                -> "none"
AnythingFound(found) == found # "none"
Verified(found) == found = "genuine"

Existing(r) ==
    LET q == request[r]
    IN  /\ q.at = "existing"
        /\ IF Verified(Inspected(q.artifact))
           THEN /\ rememberArtifact(q.artifact)
                /\ Becomes(r, [q EXCEPT !.at = "clean", !.stored = TRUE])
           ELSE Leaves(r) /\ UNCHANGED artifactManifestCache
        /\ UNCHANGED <<activeBuilds, store>>

\* The workspace goes on every path, and then the answer; removing it may fail too.
Clean(r) ==
    LET q == [request[r] EXCEPT !.workspace = FALSE]
    IN  /\ request[r].at = "clean"
        /\ \/ q.stored /\ Succeeds(r, q)
           \/ Fails(r, q)
        /\ UNCHANGED <<store, artifactManifestCache>>

-----------------------------------------------------------------------------
(* Verifying and serving.                                                  *)

verifyArtifact(r) ==
    LET q == request[r]
    IN  /\ q.at = "verify"
        /\ IF Verified(Inspected(q.artifact))
           THEN rememberArtifact(q.artifact) /\ Succeeds(r, q)
           ELSE Fails(r, q) /\ UNCHANGED artifactManifestCache
        /\ UNCHANGED store

\* The file is there; its manifest is cached, or else has to be made.
Stat(r) ==
    LET q == request[r]
        cached == q.artifact \in artifactManifestCache
    IN  /\ q.at = "stat"
        /\ \/ /\ store[q.artifact] # "sound"
              /\ Becomes(r, Ended(q, "missing"))
              /\ UNCHANGED artifactManifestCache
           \/ /\ ~Gone(q.artifact) /\ cached
              /\ rememberArtifact(q.artifact)
              /\ Becomes(r, [q EXCEPT !.at = "read", !.manifest = "genuine"])
           \/ /\ ~Gone(q.artifact) /\ ~cached
              /\ Becomes(r, [q EXCEPT !.at = "manifest"])
              /\ UNCHANGED artifactManifestCache
        /\ UNCHANGED <<activeBuilds, store>>

artifactManifest(r) ==
    LET q == request[r]
    IN  /\ q.at = "manifest"
        /\ IF Verified(Inspected(q.artifact))
           THEN /\ rememberArtifact(q.artifact)
                /\ Becomes(r, [q EXCEPT !.at = "read", !.manifest = Inspected(q.artifact)])
                /\ UNCHANGED activeBuilds
           ELSE Fails(r, q) /\ UNCHANGED artifactManifestCache
        /\ UNCHANGED store

\* A damaged artifact may still have this file as it was.
Readable(a) == CASE store[a] = "sound"   -> {"genuine"}
                 [] store[a] = "damaged" -> {"genuine", "other"}
                 [] OTHER                -> {}

serveArtifact(r) ==
    LET q == request[r]
    IN  /\ q.at = "read"
        /\ \/ \E content \in Readable(q.artifact) :
                  IF content = q.manifest THEN Succeeds(r, [q EXCEPT !.content = content])
                                          ELSE Fails(r, q)
           \/ Gone(q.artifact) /\ Fails(r, q)
        /\ UNCHANGED <<store, artifactManifestCache>>

-----------------------------------------------------------------------------
(* What happens to the worker.                                             *)

\* The disk, or whoever has access to it, damages or removes an artifact.
Harm(a) ==
    /\ ~Gone(a)
    /\ \E state \in {"damaged", "removed"} : store' = [store EXCEPT ![a] = state]
    /\ UNCHANGED <<activeBuilds, artifactManifestCache, request>>

\* The process starts again: its requests are lost, the store is not.  Whatever its
\* children still write goes to workspaces that nobody reads.
Restart ==
    /\ activeBuilds' = 0
    /\ artifactManifestCache' = {}
    /\ request' = [r \in Requests |->
           IF request[r].at \in {"idle", "done"} THEN request[r]
           ELSE Ended(request[r], "lost")]
    /\ UNCHANGED store

\* What the event loop, the timers and the system run on their own.
Handle(r) ==
    \/ Body(r) \/ runVite(r) \/ Exit(r) \/ inspectArtifact(r) \/ persistArtifact(r)
    \/ Existing(r) \/ Clean(r) \/ verifyArtifact(r)
    \/ Stat(r) \/ artifactManifest(r) \/ serveArtifact(r)

Next ==
    \/ Restart
    \/ \E a \in Artifacts : Harm(a) \/ Forget(a)
    \/ \E r \in Requests :
        \/ \E kind \in Kinds, a \in Artifacts : Arrive(r, kind, a)
        \/ cancelOnDisconnect(r)
        \/ Handle(r)
        \/ ChildEnds(r)
        \/ Timeout(r)

Spec == Init /\ [][Next]_vars

\* A handler runs on, a timer fires, and a killed process ends; one that was not killed
\* may run as long as it likes.
FairSpec ==
    /\ Spec
    /\ \A r \in Requests : /\ WF_vars(Handle(r))
                           /\ WF_vars(Timeout(r))
                           /\ WF_vars(request[r].child = "killed" /\ ChildEnds(r))

-----------------------------------------------------------------------------
(* Properties.                                                             *)

Compiling == {r \in Requests : /\ request[r].kind = "compile"
                               /\ request[r].at \notin {"idle", "done"}}

\* Every request, artifact and counter has its shape.
TypeOK ==
    /\ request \in [Requests -> Request]
    /\ store \in [Artifacts -> {"absent", "sound", "damaged", "removed"}]
    /\ artifactManifestCache \subseteq Artifacts
    /\ activeBuilds \in 0..MaxConcurrentBuilds

\* Just the builds under way have slots, whichever way others came to their ends.  A
\* child runs in a workspace that is there, for a handler that waits for it, and no
\* longer than the client does: whenever the client leaves, the child is killed or was
\* never started, and the workspace goes after it (cancelOnDisconnect, runVite).
BuildsSupervised ==
    /\ activeBuilds = Cardinality(Compiling)
    /\ \A r \in Requests : request[r].child \in {"running", "killed"} =>
          /\ request[r].at = "vite" /\ request[r].workspace
          /\ request[r].child = "running" => ~request[r].aborted

\* An artifact a client was told of stays in the store, over builds of the same content
\* and restarts; only harm from outside takes it away.
AnnouncedStays ==
    \A r \in Requests : request[r].answer = "ok" => store[request[r].artifact] # "absent"

\* What is served is what the artifact is named for, although its manifest may be old,
\* and the file may have changed since it was last verified.
ServedGenuine ==
    \A r \in Requests : request[r].answer = "ok" /\ request[r].kind = "preview" =>
                            request[r].content = "genuine"

\* Every request is answered, and every build gives its slot back, though a child may hang.
RequestsEnd == \A r \in Requests : request[r].at # "idle" ~> request[r].at = "done"
=============================================================================
