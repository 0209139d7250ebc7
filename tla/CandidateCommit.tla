--------------------------- MODULE CandidateCommit --------------------------
(***************************************************************************)
(* How a candidate snapshot becomes a version of one project: the usage    *)
(* service's CommitCandidate handler (load, find the verification, claim   *)
(* the compile lease, compile, record, commit), run by many concurrent     *)
(* requests over the tables of the usage repository, together with what    *)
(* may happen between two of its steps: an agent run stores a newer        *)
(* candidate, a version is restaged, a member leaves, a client goes away,  *)
(* a lease expires, the server restarts with another safety policy.        *)
(*                                                                         *)
(* SQLite has a single connection, so a transaction is one action.  Time   *)
(* is kept as what is left of each lease and how long each timed step of a *)
(* request has lasted, so it needs no bound.                               *)
(***************************************************************************)
EXTENDS Integers, Sequences, FiniteSets

CONSTANTS
    Accounts,        \* accounts that commit candidates; the workspace may have others
    Candidates,      \* identifiers of rows of build_candidates
    Requests,        \* commit requests; each is served once
    Snapshots,       \* snapshot contents, one per hash
    None,            \* absence of an account, snapshot or request
    MaxPolicy,       \* bound: number of safety policies ever deployed
    Accepted,        \* <<policy, snapshot>>: what each policy's guard accepts
    CompileTimeout,  \* time the compiler client waits
    LeaseMargin,     \* what a lease lasts beyond that (one minute)
    ClaimDelay       \* bound: longest wait between reading the clock and claiming

Policies == 1..MaxPolicy
BareLease == CompileTimeout
LeaseDuration == CompileTimeout + LeaseMargin

ASSUME NullAssumption == None \notin Accounts \cup Requests \cup Snapshots
ASSUME BoundAssumption ==
    /\ MaxPolicy \in Nat \ {0}
    /\ CompileTimeout \in Nat \ {0}
    /\ LeaseMargin \in Nat
    /\ ClaimDelay \in Nat
ASSUME GuardAssumption == Accepted \subseteq Policies \X Snapshots

VARIABLES
    cand,            \* build_candidates joined with safety_verifications
    lease,           \* candidate_compile_leases
    verification,    \* build_verifications: the request whose build is stored
    attempts,        \* build_attempts
    versions,        \* immutable_versions, in insertion order; its index is the id
    active,          \* workspace_projects.active_version_id; 0 is NULL
    registered,      \* the project has a row in workspace_projects
    members,         \* memberships of the workspace
    policy,          \* generation.PolicyVersion of the running server
    pc,              \* where each request is
    call,            \* its arguments
    timer,           \* how long its timed step has lasted
    answer,          \* its result code
    build            \* the verification it reports

storeVars   == <<cand, lease, verification, attempts, versions, active>>
projectVars == <<registered, members, policy>>
requestVars == <<pc, call, timer, answer, build>>
vars        == <<storeVars, projectVars, requestVars>>

Statuses == {"absent", "pending", "rejected", "committed"}
Steps    == {"load", "find", "verify", "claim", "compile", "pass", "fail", "commit"}
Failures == {"compile_failed", "compile_busy", "compiler_unavailable"}
Codes    == Failures \cup
            {"ok", "workspace_forbidden", "candidate_unsafe", "candidate_invalid",
             "compile_in_progress", "artifact_unavailable", "version_conflict", "lost"}

Row     == [status: Statuses, owner: Accounts \cup {None},
            kind: {"none", "build", "race", "restore"}, source: Nat,
            snapshot: Snapshots \cup {None}, policy: 0..MaxPolicy]
Lease   == [holder: Requests \cup {None}, left: -ClaimDelay..LeaseDuration]
Attempt == [request: Requests, candidate: Candidates, code: Failures \cup {"compile_passed"}]
Version == [candidate: Candidates, parent: Nat, snapshot: Snapshots]
Call    == [account: Accounts, candidate: Candidates, parent: Nat]

NoRow   == [status |-> "absent", owner |-> None, kind |-> "none", source |-> 0,
            snapshot |-> None, policy |-> 0]
NoLease == [holder |-> None, left |-> 0]
NoCall  == [account |-> None, candidate |-> None, parent |-> 0]

Init ==
    /\ cand = [c \in Candidates |-> NoRow]
    /\ lease = [c \in Candidates |-> NoLease]
    /\ verification = [c \in Candidates |-> None]
    /\ attempts = {}
    /\ versions = <<>>
    /\ active = 0
    /\ registered = FALSE
    /\ members = Accounts
    /\ policy = 1
    /\ pc = [r \in Requests |-> "idle"]
    /\ call = [r \in Requests |-> NoCall]
    /\ timer = [r \in Requests |-> 0]
    /\ answer = [r \in Requests |-> "none"]
    /\ build = [r \in Requests |-> None]

-----------------------------------------------------------------------------
(* Candidates: the end of an agent run, and restaging an old version.      *)

\* The guard of policy p lets the snapshot through.
Accepts(p, s) == <<p, s>> \in Accepted

Pending(c) == cand[c].status = "pending"

\* The pending candidates of the account, which a new one replaces.
OwnedBy(a) == {c \in Candidates : cand[c].owner = a}
PendingOf(a) == {c \in Candidates : Pending(c) /\ cand[c].owner = a}

\* An agent run of the account ends; only a race leaves older candidates alone.
SupersededNever(a, kind) == {}
Superseded(a, kind) == IF kind = "race" THEN {} ELSE PendingOf(a)

\* The candidates of gone are rejected, their leases dropped, c is inserted.
Insert(c, row, gone) ==
    /\ cand[c].status = "absent"
    /\ cand' = [d \in Candidates |->
                   IF d = c THEN row
                   ELSE IF d \in gone THEN [cand[d] EXCEPT !.status = "rejected"]
                   ELSE cand[d]]
    /\ lease' = [d \in Candidates |-> IF d \in gone THEN NoLease ELSE lease[d]]

StoreCandidate(a, c, kind, s) ==
    /\ Accepts(policy, s)
    /\ Insert(c, [status |-> "pending", owner |-> a, kind |-> kind, source |-> 0,
                  snapshot |-> s, policy |-> policy], Superseded(a, kind))
    /\ UNCHANGED <<verification, attempts, versions, active, projectVars, requestVars>>

\* A refused restage rolls back, so only the successful one is a step.
RestageVersion(a, v, c) ==
    /\ a \in members
    /\ v \in 1..Len(versions)
    /\ LET s == versions[v].snapshot
       IN  /\ verification[versions[v].candidate] # None
           /\ Accepts(policy, s)
           /\ Insert(c, [status |-> "pending", owner |-> a, kind |-> "restore",
                         source |-> v, snapshot |-> s, policy |-> policy], PendingOf(a))
    /\ UNCHANGED <<verification, attempts, versions, active, projectVars, requestVars>>

-----------------------------------------------------------------------------
(* The handler.  Reply ends it; Goto moves it to its next step.            *)

Goto(r, step) == pc' = [pc EXCEPT ![r] = step]

Reply(r, code) ==
    /\ pc' = [pc EXCEPT ![r] = "done"]
    /\ answer' = [answer EXCEPT ![r] = code]
    /\ timer' = [timer EXCEPT ![r] = 0]

MemberCalls(r) == call[r].account \in members

\* The stored safety verification is of the running policy, which still agrees.
SafeOnce(c) == cand[c].policy # 0
Safe(c) == cand[c].policy = policy /\ Accepts(policy, cand[c].snapshot)

Submit(r, a, c, p) ==
    /\ pc[r] = "idle"
    /\ cand[c].status # "absent"
    /\ p \in 0..Len(versions)
    /\ call' = [call EXCEPT ![r] = [account |-> a, candidate |-> c, parent |-> p]]
    /\ Goto(r, "load")
    /\ UNCHANGED <<storeVars, projectVars, timer, answer, build>>

\* The request names a candidate of its own that was not rejected.
Known(r) == /\ cand[call[r].candidate].owner = call[r].account
            /\ cand[call[r].candidate].status \in {"pending", "committed"}

LoadCandidate(r) ==
    LET c == call[r].candidate
    IN  /\ pc[r] = "load"
        /\ \/ ~MemberCalls(r) /\ Reply(r, "workspace_forbidden")
           \/ MemberCalls(r) /\ ~Known(r) /\ Reply(r, "candidate_invalid")
           \/ MemberCalls(r) /\ Known(r) /\ ~Safe(c) /\ Reply(r, "candidate_unsafe")
           \/ /\ MemberCalls(r) /\ Known(r) /\ Safe(c)
              /\ Goto(r, "find") /\ UNCHANGED <<timer, answer>>
        /\ UNCHANGED <<storeVars, projectVars, call, build>>

\* A verification counts only while its candidate is pending or committed; the
\* clock a claim will be measured by is read when there is none.
FindVerification(r) ==
    LET c     == call[r].candidate
        found == verification[c] # None /\ Known(r)
    IN  /\ pc[r] = "find"
        /\ \/ /\ ~MemberCalls(r)
              /\ Reply(r, "workspace_forbidden")
              /\ UNCHANGED build
           \/ /\ MemberCalls(r)
              /\ Goto(r, IF found THEN "verify" ELSE "claim")
              /\ build' = [build EXCEPT ![r] = IF found THEN verification[c] ELSE None]
              /\ UNCHANGED <<timer, answer>>
        /\ UNCHANGED <<storeVars, projectVars, call>>

\* expires_at <= claimed_at, for a clock that was read age ago.
ExpiredNever(c, age) == FALSE
Expired(c, age) == lease[c].left + age <= 0

Claimable(c, age) == lease[c].holder = None \/ Expired(c, age)

ClaimOrWait(r) ==
    LET c == call[r].candidate
    IN  /\ pc[r] = "claim"
        /\ Pending(c) /\ Claimable(c, timer[r])
        /\ lease' = [lease EXCEPT ![c] = [holder |-> r, left |-> LeaseDuration - timer[r]]]
        /\ Goto(r, "compile")
        /\ timer' = [timer EXCEPT ![r] = 0]
        /\ UNCHANGED <<cand, verification, attempts, versions, active, projectVars,
                       call, answer, build>>

ClaimCompilation(r) ==
    LET c == call[r].candidate
    IN  /\ pc[r] = "claim"
        /\ \/ /\ Pending(c) /\ Claimable(c, timer[r])
              /\ lease' = [lease EXCEPT ![c] =
                              [holder |-> r, left |-> LeaseDuration - timer[r]]]
              /\ Goto(r, "compile")
              /\ timer' = [timer EXCEPT ![r] = 0]
              /\ UNCHANGED answer
           \/ /\ ~(Pending(c) /\ Claimable(c, timer[r]))
              /\ Reply(r, IF Pending(c) THEN "compile_in_progress" ELSE "candidate_invalid")
              /\ UNCHANGED lease
        /\ UNCHANGED <<cand, verification, attempts, versions, active, projectVars, call, build>>

\* The build worker passes or rejects the snapshot, is busy, or cannot be reached.
Compile(r) ==
    /\ pc[r] = "compile"
    /\ timer' = [timer EXCEPT ![r] = 0]
    /\ \/ Goto(r, "pass") /\ UNCHANGED answer
       \/ \E code \in Failures : Goto(r, "fail") /\ answer' = [answer EXCEPT ![r] = code]
    /\ UNCHANGED <<storeVars, projectVars, call, build>>

\* The caller's lease is still the one it claimed.
HoldsLease(r) == lease[call[r].candidate].holder = r

\* The lease rows once the request that holds c's is done with it.
ReleaseNever(c) == lease
Release(c) == [lease EXCEPT ![c] = NoLease]

\* The row the insert leaves behind: a verification that exists is kept.
RecordedLast(r) ==
    LET c == call[r].candidate
    IN  IF Pending(c) /\ HoldsLease(r) THEN r ELSE verification[c]

Recorded(r) ==
    LET c == call[r].candidate
    IN  IF verification[c] = None /\ Pending(c) /\ HoldsLease(r) THEN r ELSE verification[c]

\* Deleting no lease rolls the transaction back, the insert included.
RecordVerification(r) ==
    LET c == call[r].candidate
    IN  /\ pc[r] = "pass"
        /\ \/ /\ Recorded(r) # None /\ HoldsLease(r)
              /\ verification' = [verification EXCEPT ![c] = Recorded(r)]
              /\ attempts' = attempts \cup
                     {[request |-> r, candidate |-> c, code |-> "compile_passed"]}
              /\ lease' = Release(c)
              /\ build' = [build EXCEPT ![r] = Recorded(r)]
              /\ Goto(r, "commit")
              /\ UNCHANGED <<timer, answer>>
           \/ /\ Recorded(r) = None \/ ~HoldsLease(r)
              /\ Reply(r, "candidate_invalid")
              /\ UNCHANGED <<verification, attempts, lease, build>>
        /\ UNCHANGED <<cand, versions, active, projectVars, call>>

\* A failure is recorded for a pending candidate by the holder of its lease.
FailsWhilePending(r) == Pending(call[r].candidate)
FailureCounts(r) == Pending(call[r].candidate) /\ HoldsLease(r)

\* answer[r] holds the code of the failed compilation.
RecordBuildFailure(r) ==
    LET c == call[r].candidate
    IN  /\ pc[r] = "fail"
        /\ \/ /\ FailureCounts(r)
              /\ attempts' = attempts \cup
                     {[request |-> r, candidate |-> c, code |-> answer[r]]}
              /\ lease' = Release(c)
              /\ Reply(r, answer[r])
           \/ /\ ~FailureCounts(r)
              /\ Reply(r, "candidate_invalid")
              /\ UNCHANGED <<attempts, lease>>
        /\ UNCHANGED <<cand, verification, versions, active, projectVars, call, build>>

\* The artifact of an earlier build is served by the worker, or it is not.
VerifyArtifact(r) ==
    /\ pc[r] = "verify"
    /\ \/ Goto(r, "commit") /\ UNCHANGED <<timer, answer>>
       \/ Reply(r, "artifact_unavailable")
    /\ UNCHANGED <<storeVars, projectVars, call, build>>

-----------------------------------------------------------------------------
(* The commit transaction, one action per way it ends.                     *)

ReadyAnyStatus(c) == verification[c] # None
ReadyToCommit(c) == Pending(c) /\ verification[c] # None

\* The client built on the version that is active now.
ParentIsActive(r) == call[r].parent = active

CommitForbidden(r) ==
    /\ pc[r] = "commit"
    /\ ~MemberCalls(r)
    /\ Reply(r, "workspace_forbidden")
    /\ UNCHANGED <<storeVars, projectVars, call, build>>

\* The candidate was decided before this transaction; a version of it with the
\* same parent answers a repeated commit.
CommittedAnywhere(r) == cand[call[r].candidate].status = "committed"
RepeatedCommit(r) ==
    \E i \in 1..Len(versions) : /\ versions[i].candidate = call[r].candidate
                                /\ versions[i].parent = call[r].parent

CommitDecided(r) ==
    /\ pc[r] = "commit"
    /\ MemberCalls(r)
    /\ ~ReadyToCommit(call[r].candidate)
    /\ Reply(r, IF RepeatedCommit(r) THEN "ok" ELSE "candidate_invalid")
    /\ UNCHANGED <<storeVars, projectVars, call, build>>

CommitRefused(r) ==
    LET c == call[r].candidate
    IN  /\ pc[r] = "commit"
        /\ MemberCalls(r)
        /\ ReadyToCommit(c)
        /\ ~Safe(c) \/ ~registered
        /\ Reply(r, IF ~Safe(c) THEN "candidate_unsafe" ELSE "candidate_invalid")
        /\ UNCHANGED <<storeVars, projectVars, call, build>>

\* Another version became active first: the candidate is rejected for good.
CommitConflict(r) ==
    LET c == call[r].candidate
    IN  /\ pc[r] = "commit"
        /\ MemberCalls(r)
        /\ ReadyToCommit(c) /\ Safe(c) /\ registered
        /\ ~ParentIsActive(r)
        /\ cand' = [cand EXCEPT ![c].status = "rejected"]
        /\ Reply(r, "version_conflict")
        /\ UNCHANGED <<lease, verification, attempts, versions, active, projectVars, call, build>>

CommitVersion(r) ==
    LET c == call[r].candidate
    IN  /\ pc[r] = "commit"
        /\ MemberCalls(r)
        /\ ReadyToCommit(c) /\ Safe(c) /\ registered
        /\ ParentIsActive(r)
        /\ cand' = [cand EXCEPT ![c].status = "committed"]
        /\ versions' = Append(versions, [candidate |-> c, parent |-> call[r].parent,
                                         snapshot |-> cand[c].snapshot])
        /\ active' = Len(versions) + 1
        /\ Reply(r, "ok")
        /\ UNCHANGED <<lease, verification, attempts, projectVars, call, build>>

CommitCandidate(r) ==
    \/ CommitForbidden(r)
    \/ CommitDecided(r)
    \/ CommitRefused(r)
    \/ CommitConflict(r)
    \/ CommitVersion(r)

-----------------------------------------------------------------------------
(* The surroundings of a request.                                          *)

\* The client's context is cancelled: every later call of the handler fails.
Disconnect(r) ==
    /\ pc[r] \in Steps
    /\ Reply(r, "lost")
    /\ UNCHANGED <<storeVars, projectVars, call, build>>

\* The server stops and starts again, perhaps with another safety policy.
Restart ==
    /\ pc' = [r \in Requests |-> IF pc[r] \in Steps THEN "done" ELSE pc[r]]
    /\ answer' = [r \in Requests |-> IF pc[r] \in Steps THEN "lost" ELSE answer[r]]
    /\ timer' = [r \in Requests |-> 0]
    /\ policy' \in Policies
    /\ UNCHANGED <<storeVars, registered, members, call, build>>

\* The first synchronisation of the project's metadata inserts its row.
RegisterProject ==
    /\ ~registered
    /\ registered' = TRUE
    /\ UNCHANGED <<storeVars, members, policy, requestVars>>

ChangeMembership(a) ==
    /\ members' \in {members \ {a}, members \cup {a}}
    /\ UNCHANGED <<storeVars, registered, policy, requestVars>>

\* The compiler client never waits longer than its timeout.
InTime(r) == /\ pc[r] = "compile" => timer[r] < CompileTimeout
             /\ pc[r] = "claim" => timer[r] < ClaimDelay

\* One unit of time.
Tick ==
    /\ \A r \in Requests : InTime(r)
    /\ timer' = [r \in Requests |->
                    IF pc[r] \in {"claim", "compile"} THEN timer[r] + 1 ELSE timer[r]]
    /\ lease' = [c \in Candidates |->
                    IF lease[c].holder # None /\ lease[c].left > -ClaimDelay
                    THEN [lease[c] EXCEPT !.left = @ - 1] ELSE lease[c]]
    /\ UNCHANGED <<cand, verification, attempts, versions, active, projectVars,
                   pc, call, answer, build>>

Step(r) ==
    \/ LoadCandidate(r) \/ FindVerification(r) \/ VerifyArtifact(r)
    \/ ClaimCompilation(r) \/ Compile(r)
    \/ RecordVerification(r) \/ RecordBuildFailure(r)
    \/ CommitCandidate(r)

Next ==
    \/ \E a \in Accounts, c \in Candidates, kind \in {"build", "race"}, s \in Snapshots :
           StoreCandidate(a, c, kind, s)
    \/ \E a \in Accounts, c \in Candidates : \E v \in 1..Len(versions) : RestageVersion(a, v, c)
    \/ \E r \in Requests, a \in Accounts, c \in Candidates :
           \E p \in 0..Len(versions) : Submit(r, a, c, p)
    \/ \E r \in Requests : Step(r)
    \/ \E r \in Requests : Disconnect(r)
    \/ Restart
    \/ RegisterProject
    \/ \E a \in Accounts : ChangeMembership(a)
    \/ Tick

Spec == Init /\ [][Next]_vars

\* A handler runs to its end, and time passes.
FairSpec == Spec /\ (\A r \in Requests : WF_vars(Step(r))) /\ WF_vars(Tick)

-----------------------------------------------------------------------------
(* Properties.                                                             *)

\* Every row, lease, request and version has its shape.
TypeOK ==
    /\ cand \in [Candidates -> Row]
    /\ lease \in [Candidates -> Lease]
    /\ verification \in [Candidates -> Requests \cup {None}]
    /\ attempts \subseteq Attempt
    /\ versions \in Seq(Version)
    /\ active \in Nat
    /\ registered \in BOOLEAN
    /\ members \subseteq Accounts
    /\ policy \in Policies
    /\ pc \in [Requests -> {"idle", "done"} \cup Steps]
    /\ call \in [Requests -> Call \cup {NoCall}]
    /\ \A r \in Requests : pc[r] # "idle" => call[r] \in Call
    /\ timer \in [Requests -> 0..(CompileTimeout + ClaimDelay)]
    /\ answer \in [Requests -> Codes \cup {"none"}]
    /\ \A r \in Requests : pc[r] = "fail" => answer[r] \in Failures
    /\ build \in [Requests -> Requests \cup {None}]

\* However commits interleave, the versions form one line that ends in the
\* active version: each was built on the version that was newest at the time.
LinearHistory ==
    /\ active = Len(versions)
    /\ \A i \in 1..Len(versions) : versions[i].parent = i - 1

\* Every version is the content of its committed candidate, whose build passed
\* and is on record.
VersionsBacked ==
    \A i \in 1..Len(versions) :
        LET c == versions[i].candidate
        IN  /\ cand[c].status = "committed"
            /\ cand[c].snapshot = versions[i].snapshot
            /\ [request |-> verification[c], candidate |-> c, code |-> "compile_passed"]
                   \in attempts

\* A candidate is committed exactly when one version comes from it.
CommittedOnce ==
    \A c \in Candidates :
        LET of == {i \in 1..Len(versions) : versions[i].candidate = c}
        IN  cand[c].status = "committed" <=> \E i \in of : of = {i}

\* What a client was told stays true: "ok" names a version of its candidate on
\* the parent it gave, with the stored build; a conflict is final; and a failed
\* build is on record.
AnswersHold ==
    \A r \in Requests :
        LET c == call[r].candidate
        IN  /\ answer[r] = "ok" =>
                   /\ \E i \in 1..Len(versions) : /\ versions[i].candidate = c
                                                  /\ versions[i].parent = call[r].parent
                   /\ build[r] # None /\ build[r] = verification[c]
            /\ answer[r] = "version_conflict" => cand[c].status = "rejected"
            /\ pc[r] = "done" /\ answer[r] \in Failures =>
                   [request |-> r, candidate |-> c, code |-> answer[r]] \in attempts

\* A lease on a pending candidate belongs to a request that is building it, or
\* to one that was cut off: no handler that runs to its end leaks its lease.
NoLeakedLease ==
    \A c \in Candidates :
        LET r == lease[c].holder
        IN  Pending(c) /\ r # None =>
                /\ call[r].candidate = c
                /\ pc[r] \in {"compile", "pass", "fail"} \/ answer[r] = "lost"

\* An account has at most one pending candidate that is not part of a race.
OneCurrentBuild ==
    \A c, d \in Candidates :
        /\ Pending(c) /\ cand[c].kind # "race"
        /\ Pending(d) /\ cand[d].kind # "race"
        /\ cand[c].owner = cand[d].owner
        => c = d

\* Two requests never build one candidate at the same time.
OneBuildPerCandidate ==
    \A r, q \in Requests :
        pc[r] = "compile" /\ pc[q] = "compile" /\ call[r].candidate = call[q].candidate
        => r = q

\* Build evidence is never replaced or removed, whoever records late.
EvidenceKept ==
    [][/\ attempts \subseteq attempts'
       /\ \A c \in Candidates : verification[c] # None =>
                                    verification'[c] = verification[c]]_vars

\* Evidence enters only under the lease the recording request still holds.
EvidenceFenced ==
    [][\A t \in attempts' \ attempts : lease[t.candidate].holder = t.request]_vars

\* A candidate that was rejected or committed stays so.
FinalStatus ==
    [][\A c \in Candidates : cand[c].status \in {"rejected", "committed"} =>
                                  cand'[c].status = cand[c].status]_vars

\* What becomes a version is accepted by the guard of the server that commits
\* it, although it may have been stored under another policy.
SafeAtCommit ==
    [][Len(versions') > Len(versions) =>
           Accepts(policy, versions'[Len(versions')].snapshot)]_vars

\* Every request is answered.
RequestsEnd == \A r \in Requests : pc[r] = "load" ~> pc[r] = "done"

\* A lease, even an abandoned one, blocks its candidate only for a while.
LeaseFreed ==
    \A c \in Candidates : Pending(c) /\ lease[c].holder # None
                              ~> ~Pending(c) \/ Claimable(c, 0)

-----------------------------------------------------------------------------
(* The promise this implements.                                            *)

acked == {[candidate |-> call[r].candidate, parent |-> call[r].parent] :
              r \in {q \in Requests : answer[q] = "ok"}}

Promise == INSTANCE VersionHistory WITH
    history   <- [i \in 1..Len(versions) |->
                     [candidate |-> versions[i].candidate, parent |-> versions[i].parent]],
    discarded <- {c \in Candidates : cand[c].status = "rejected"},
    acked     <- acked

\* The commit path keeps the promise of VersionHistory.
KeepsPromise == Promise!HistorySpec
=============================================================================
