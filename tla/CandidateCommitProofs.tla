----------------------- MODULE CandidateCommitProofs ------------------------
(* Proofs about CandidateCommit, for every value of its constants. *)
EXTENDS CandidateCommit, TLAPS

-----------------------------------------------------------------------------
(* Types.                                                                  *)

\* Storing a value of its range keeps the type of a function.
LEMMA UpdateType ==
    ASSUME NEW S, NEW T, NEW f \in [S -> T], NEW x, NEW v \in T
    PROVE  [f EXCEPT ![x] = v] \in [S -> T]
  OBVIOUS

\* A reply keeps the types of the request's program counter, timer and answer.
LEMMA ReplyType ==
    ASSUME NEW r \in Requests, NEW code \in Codes, TypeOK, Reply(r, code)
    PROVE  /\ pc' \in [Requests -> {"idle", "done"} \cup Steps]
           /\ answer' \in [Requests -> Codes \cup {"none"}]
           /\ timer' \in [Requests -> 0..(CompileTimeout + ClaimDelay)]
           /\ \A q \in Requests : pc'[q] = "fail" => answer'[q] \in Failures
  BY BoundAssumption DEF TypeOK, Reply

\* Inserting a well-formed row keeps the types of the rows and the leases.
LEMMA InsertType ==
    ASSUME NEW c \in Candidates, NEW row \in Row, NEW gone \in SUBSET Candidates,
           TypeOK, Insert(c, row, gone)
    PROVE  cand' \in [Candidates -> Row] /\ lease' \in [Candidates -> Lease]
  <1>1. NoLease \in Lease
    BY BoundAssumption DEF NoLease, Lease, LeaseDuration
  <1>2. \A d \in Candidates : [cand[d] EXCEPT !.status = "rejected"] \in Row
    BY DEF TypeOK, Row, Statuses
  <1>3. QED
    BY <1>1, <1>2 DEF TypeOK, Insert

\* Changing the status of one row keeps the type of the table.
LEMMA StatusType ==
    ASSUME NEW c \in Candidates, NEW status \in Statuses, TypeOK
    PROVE  [cand EXCEPT ![c].status = status] \in [Candidates -> Row]
  <1>1. [cand[c] EXCEPT !.status = status] \in Row
    <2>1. cand[c] \in Row
      BY DEF TypeOK
    <2>2. QED
      BY <2>1 DEF Row
  <1>2. [cand EXCEPT ![c].status = status] =
            [cand EXCEPT ![c] = [cand[c] EXCEPT !.status = status]]
    OBVIOUS
  <1>3. QED
    BY <1>1, <1>2 DEF TypeOK

LEMMA TypeInit == Init => TypeOK
  <1> SUFFICES ASSUME Init PROVE TypeOK
    OBVIOUS
  <1> USE BoundAssumption
  <1>1. NoRow \in Row
    BY DEF NoRow, Row, Statuses
  <1>2. NoLease \in Lease
    BY DEF NoLease, Lease, LeaseDuration
  <1>3. versions \in Seq(Version)
    BY DEF Init
  <1>4. cand \in [Candidates -> Row] /\ lease \in [Candidates -> Lease]
    BY <1>1, <1>2 DEF Init
  <1>5. policy \in Policies
    BY DEF Init, Policies
  <1>6. /\ pc \in [Requests -> {"idle", "done"} \cup Steps]
        /\ call \in [Requests -> Call \cup {NoCall}]
        /\ timer \in [Requests -> 0..(CompileTimeout + ClaimDelay)]
        /\ answer \in [Requests -> Codes \cup {"none"}]
        /\ build \in [Requests -> Requests \cup {None}]
        /\ \A r \in Requests : pc[r] # "idle" => call[r] \in Call
        /\ \A r \in Requests : pc[r] = "fail" => answer[r] \in Failures
    BY DEF Init
  <1>7. QED
    BY <1>3, <1>4, <1>5, <1>6 DEF Init, TypeOK

\* The timed part: a claim writes a lease within its range, and so does a tick.
LEMMA LeaseRange ==
    /\ LeaseDuration \in Nat
    /\ \A t \in 0..(CompileTimeout + ClaimDelay) :
           LeaseDuration - t \in -ClaimDelay..LeaseDuration
    /\ NoLease \in Lease
  BY BoundAssumption DEF LeaseDuration, NoLease, Lease

LEMMA TypeStep == TypeOK /\ [Next]_vars => TypeOK'
  <1> SUFFICES ASSUME TypeOK, [Next]_vars PROVE TypeOK'
    OBVIOUS
  <1> USE BoundAssumption
  <1>1. ASSUME NEW a \in Accounts, NEW c \in Candidates, NEW kind \in {"build", "race"},
               NEW s \in Snapshots, StoreCandidate(a, c, kind, s)
        PROVE  TypeOK'
    <2> DEFINE row == [status |-> "pending", owner |-> a, kind |-> kind, source |-> 0,
                       snapshot |-> s, policy |-> policy]
    <2>1. row \in Row
      BY DEF TypeOK, Row, Statuses, Policies
    <2>2. Superseded(a, kind) \in SUBSET Candidates
      BY DEF Superseded, PendingOf
    <2>3. Insert(c, row, Superseded(a, kind))
      BY <1>1 DEF StoreCandidate
    <2>4. cand' \in [Candidates -> Row] /\ lease' \in [Candidates -> Lease]
      BY <2>1, <2>2, <2>3, InsertType
    <2>5. QED
      BY <1>1, <2>4 DEF StoreCandidate, TypeOK, projectVars, requestVars
  <1>2. ASSUME NEW a \in Accounts, NEW c \in Candidates, NEW v \in 1..Len(versions),
               RestageVersion(a, v, c)
        PROVE  TypeOK'
    <2> DEFINE row == [status |-> "pending", owner |-> a, kind |-> "restore", source |-> v,
                       snapshot |-> versions[v].snapshot, policy |-> policy]
    <2>1. versions[v] \in Version
      BY DEF TypeOK
    <2>0. v \in Nat /\ policy \in 0..MaxPolicy
      BY DEF TypeOK, Policies
    <2>2. row \in Row
      BY <2>0, <2>1 DEF Row, Statuses, Version
    <2>3. PendingOf(a) \in SUBSET Candidates
      BY DEF PendingOf
    <2>4. Insert(c, row, PendingOf(a))
      BY <1>2 DEF RestageVersion
    <2>5. cand' \in [Candidates -> Row] /\ lease' \in [Candidates -> Lease]
      BY <2>2, <2>3, <2>4, InsertType
    <2>6. QED
      BY <1>2, <2>5 DEF RestageVersion, TypeOK, projectVars, requestVars
  <1>3. ASSUME NEW r \in Requests, NEW a \in Accounts, NEW c \in Candidates,
               NEW p \in 0..Len(versions), Submit(r, a, c, p)
        PROVE  TypeOK'
    <2>1. [account |-> a, candidate |-> c, parent |-> p] \in Call
      BY DEF Call, TypeOK
    <2>2. QED
      BY <1>3, <2>1 DEF Submit, Goto, TypeOK, storeVars, projectVars, Steps
  <1>4. ASSUME NEW r \in Requests, Step(r)
        PROVE  TypeOK'
    <2> DEFINE c == call[r].candidate
    <2>1. pc[r] # "idle" /\ c \in Candidates /\ call[r] \in Call
      <3>1. pc[r] # "idle"
        BY <1>4 DEF Step, LoadCandidate, FindVerification, VerifyArtifact, ClaimCompilation,
                    Compile, RecordVerification, RecordBuildFailure, CommitCandidate,
                    CommitForbidden, CommitDecided, CommitRefused, CommitConflict,
                    CommitVersion
      <3>2. QED
        BY <3>1 DEF TypeOK, Call
    <2>r. ASSUME NEW code \in Codes, Reply(r, code),
                 UNCHANGED <<registered, members, policy, call, build>>,
                 cand' \in [Candidates -> Row],
                 lease' \in [Candidates -> Lease],
                 verification' \in [Candidates -> Requests \cup {None}],
                 attempts' \subseteq Attempt,
                 versions' \in Seq(Version),
                 active' \in Nat
          PROVE  TypeOK'
      BY <2>1, <2>r, ReplyType DEF TypeOK, Reply
    <2>g. ASSUME NEW step \in Steps, Goto(r, step),
                 UNCHANGED <<cand, versions, active, registered, members, policy, call>>,
                 lease' \in [Candidates -> Lease],
                 verification' \in [Candidates -> Requests \cup {None}],
                 attempts' \subseteq Attempt,
                 timer' \in [Requests -> 0..(CompileTimeout + ClaimDelay)],
                 answer' \in [Requests -> Codes \cup {"none"}],
                 \A q \in Requests : q # r => answer'[q] = answer[q],
                 step = "fail" => answer'[r] \in Failures,
                 build' \in [Requests -> Requests \cup {None}]
          PROVE  TypeOK'
      BY <2>1, <2>g DEF TypeOK, Goto
    <2> USE DEF storeVars, projectVars
    <2>2. CASE LoadCandidate(r)
      BY <2>2, <2>r, <2>g DEF LoadCandidate, TypeOK, Steps, Codes
    <2>3. CASE FindVerification(r)
      BY <2>1, <2>3, <2>r, <2>g DEF FindVerification, TypeOK, Steps, Codes
    <2>4. CASE VerifyArtifact(r)
      BY <2>4, <2>r, <2>g DEF VerifyArtifact, TypeOK, Steps, Codes
    <2>5. CASE ClaimCompilation(r)
      <3>1. timer[r] \in 0..(CompileTimeout + ClaimDelay)
        BY DEF TypeOK
      <3>2. [holder |-> r, left |-> LeaseDuration - timer[r]] \in Lease
        BY <3>1, LeaseRange DEF Lease
      <3>3. CASE Pending(c) /\ Claimable(c, timer[r])
        <4>1. /\ lease' = [lease EXCEPT ![c] = [holder |-> r, left |-> LeaseDuration - timer[r]]]
              /\ timer' = [timer EXCEPT ![r] = 0]
          BY <2>5, <3>3 DEF ClaimCompilation
        <4>2. /\ lease' \in [Candidates -> Lease]
              /\ timer' \in [Requests -> 0..(CompileTimeout + ClaimDelay)]
          BY <4>1, <3>2, UpdateType DEF TypeOK
        <4>3. QED
          BY <2>5, <3>3, <4>2, <2>g DEF ClaimCompilation, TypeOK, Steps
      <3>4. CASE ~(Pending(c) /\ Claimable(c, timer[r]))
        BY <2>5, <3>4, <2>r DEF ClaimCompilation, TypeOK, Codes
      <3>5. QED
        BY <3>3, <3>4
    <2>6. CASE Compile(r)
      <3>1. timer' \in [Requests -> 0..(CompileTimeout + ClaimDelay)]
        BY <2>6 DEF Compile, TypeOK
      <3>2. /\ answer' \in [Requests -> Codes \cup {"none"}]
            /\ \A q \in Requests : q # r => answer'[q] = answer[q]
        BY <2>6 DEF Compile, TypeOK, Codes
      <3>3. CASE Goto(r, "pass")
        BY <2>6, <3>1, <3>2, <3>3, <2>g DEF Compile, TypeOK, Steps
      <3>4. ASSUME NEW code \in Failures, Goto(r, "fail"),
                   answer' = [answer EXCEPT ![r] = code]
            PROVE  TypeOK'
        <4>1. answer'[r] \in Failures
          BY <3>4 DEF TypeOK
        <4>2. QED
          BY <2>6, <3>1, <3>2, <3>4, <4>1, <2>g DEF Compile, TypeOK, Steps
      <3>5. QED
        BY <2>6, <3>3, <3>4 DEF Compile
    <2>7. CASE RecordVerification(r)
      <3>1. Recorded(r) \in Requests \cup {None}
        BY <2>1 DEF Recorded, TypeOK
      <3>2. [request |-> r, candidate |-> c, code |-> "compile_passed"] \in Attempt
        BY <2>1 DEF Attempt
      <3>3. CASE Recorded(r) # None /\ HoldsLease(r)
        <4>1. lease' \in [Candidates -> Lease]
          BY <2>7, <3>3, LeaseRange DEF RecordVerification, Release, TypeOK
        <4>2. /\ verification' \in [Candidates -> Requests \cup {None}]
              /\ build' \in [Requests -> Requests \cup {None}]
          BY <2>7, <3>3, <3>1, UpdateType DEF RecordVerification, TypeOK
        <4>3. QED
          BY <2>7, <3>2, <3>3, <4>1, <4>2, <2>g DEF RecordVerification, TypeOK, Steps
      <3>4. CASE Recorded(r) = None \/ ~HoldsLease(r)
        BY <2>7, <3>4, <2>r DEF RecordVerification, TypeOK, Codes
      <3>5. QED
        BY <3>3, <3>4
    <2>8. CASE RecordBuildFailure(r)
      <3>1. CASE FailureCounts(r)
        <4>1. answer[r] \in Failures
          BY <2>8 DEF RecordBuildFailure, TypeOK
        <4>2. [request |-> r, candidate |-> c, code |-> answer[r]] \in Attempt
          BY <2>1, <4>1 DEF Attempt
        <4>3. lease' \in [Candidates -> Lease]
          BY <2>8, <3>1, LeaseRange DEF RecordBuildFailure, Release, TypeOK
        <4>4. QED
          BY <2>8, <3>1, <4>1, <4>2, <4>3, <2>r DEF RecordBuildFailure, TypeOK, Codes
      <3>2. CASE ~FailureCounts(r)
        BY <2>8, <3>2, <2>r DEF RecordBuildFailure, TypeOK, Codes
      <3>3. QED
        BY <3>1, <3>2
    <2>9. CASE CommitCandidate(r)
      <3>1. CASE CommitForbidden(r)
        BY <3>1, <2>r DEF CommitForbidden, TypeOK, Codes
      <3>2. CASE CommitDecided(r)
        BY <3>2, <2>r DEF CommitDecided, TypeOK, Codes
      <3>3. CASE CommitRefused(r)
        BY <3>3, <2>r DEF CommitRefused, TypeOK, Codes
      <3>4. CASE CommitConflict(r)
        <4>1. cand' \in [Candidates -> Row]
          BY <3>4, <2>1, StatusType DEF CommitConflict, Statuses
        <4>2. QED
          BY <3>4, <4>1, <2>r DEF CommitConflict, TypeOK, Codes
      <3>5. CASE CommitVersion(r)
        <4>1. cand' \in [Candidates -> Row]
          BY <3>5, <2>1, StatusType DEF CommitVersion, Statuses
        <4>2. cand[c].snapshot \in Snapshots
          BY <3>5, GuardAssumption DEF CommitVersion, Safe, Accepts
        <4>3. [candidate |-> c, parent |-> call[r].parent, snapshot |-> cand[c].snapshot]
                  \in Version
          BY <2>1, <4>2 DEF Version, Call
        <4>4. versions' \in Seq(Version) /\ active' \in Nat
          BY <3>5, <4>3 DEF CommitVersion, TypeOK
        <4>5. QED
          BY <3>5, <4>1, <4>4, <2>r DEF CommitVersion, TypeOK, Codes
      <3>6. QED
        BY <2>9, <3>1, <3>2, <3>3, <3>4, <3>5 DEF CommitCandidate
    <2>q. QED
      BY <1>4, <2>2, <2>3, <2>4, <2>5, <2>6, <2>7, <2>8, <2>9 DEF Step
  <1>5. ASSUME NEW r \in Requests, Disconnect(r)
        PROVE  TypeOK'
    <2>1. Reply(r, "lost") /\ "lost" \in Codes
      BY <1>5 DEF Disconnect, Codes
    <2>2. pc[r] # "idle"
      BY <1>5 DEF Disconnect, Steps
    <2>3. QED
      BY <1>5, <2>1, <2>2, ReplyType DEF Disconnect, TypeOK, storeVars, projectVars, Reply
  <1>6. CASE Restart
    BY <1>6 DEF Restart, TypeOK, storeVars, Codes, Steps, Policies
  <1>7. CASE RegisterProject
    BY <1>7 DEF RegisterProject, TypeOK, storeVars, requestVars
  <1>8. ASSUME NEW a \in Accounts, ChangeMembership(a)
        PROVE  TypeOK'
    BY <1>8 DEF ChangeMembership, TypeOK, storeVars, requestVars
  <1>9. CASE Tick
    <2>1. timer' \in [Requests -> 0..(CompileTimeout + ClaimDelay)]
      BY <1>9 DEF Tick, InTime, TypeOK
    <2>2. lease' \in [Candidates -> Lease]
      <3>1. \A c \in Candidates : lease[c].left > -ClaimDelay =>
                [lease[c] EXCEPT !.left = @ - 1] \in Lease
        <4> SUFFICES ASSUME NEW c \in Candidates, lease[c].left > -ClaimDelay
                     PROVE  [lease[c] EXCEPT !.left = @ - 1] \in Lease
          OBVIOUS
        <4>1. lease[c] \in Lease
          BY DEF TypeOK
        <4>2. lease[c].left - 1 \in -ClaimDelay..LeaseDuration
          BY <4>1, LeaseRange DEF Lease
        <4>3. QED
          BY <4>1, <4>2 DEF Lease
      <3>2. QED
        BY <1>9, <3>1 DEF Tick, TypeOK
    <2>3. QED
      BY <1>9, <2>1, <2>2 DEF Tick, TypeOK, projectVars
  <1>10. CASE UNCHANGED vars
    BY <1>10 DEF TypeOK, vars, storeVars, projectVars, requestVars
  <1>q. QED
    BY <1>1, <1>2, <1>3, <1>4, <1>5, <1>6, <1>7, <1>8, <1>9, <1>10 DEF Next

\* Every reachable state is well formed, whatever the sizes and the timeouts: in
\* particular no build outlasts the compiler client's timeout.
THEOREM TypeCorrect == Spec => []TypeOK
  BY TypeInit, TypeStep, PTL DEF Spec

-----------------------------------------------------------------------------
(* The tables only grow: evidence, versions and decided candidates stay.   *)

StoreGrows ==
    /\ attempts \subseteq attempts'
    /\ \A c \in Candidates : verification[c] # None => verification'[c] = verification[c]
    /\ \A i \in 1..Len(versions) : i \in 1..Len(versions') /\ versions'[i] = versions[i]
    /\ \A c \in Candidates :
           cand[c].status \in {"rejected", "committed"} => cand'[c] = cand[c]

\* Inserting a candidate touches absent and pending rows only.
LEMMA InsertGrows ==
    ASSUME NEW c \in Candidates, NEW row, NEW gone,
           \A d \in gone : Pending(d), Insert(c, row, gone)
    PROVE  \A d \in Candidates :
               cand[d].status \in {"rejected", "committed"} => cand'[d] = cand[d]
  BY DEF Insert, Pending

LEMMA SupersededPending ==
    ASSUME NEW a, NEW kind
    PROVE  /\ \A d \in Superseded(a, kind) : Pending(d)
           /\ \A d \in PendingOf(a) : Pending(d)
  BY DEF Superseded, PendingOf

LEMMA StepGrows ==
    ASSUME TypeOK, NEW r \in Requests, Step(r)
    PROVE  StoreGrows
  <1> DEFINE c == call[r].candidate
  <1> USE DEF storeVars, StoreGrows
  <1>1. CASE LoadCandidate(r) \/ FindVerification(r) \/ VerifyArtifact(r) \/ Compile(r)
    BY <1>1 DEF LoadCandidate, FindVerification, VerifyArtifact, Compile
  <1>2. CASE ClaimCompilation(r)
    BY <1>2 DEF ClaimCompilation
  <1>3. CASE RecordVerification(r)
    <2>1. verification[c] # None => Recorded(r) = verification[c]
      BY DEF Recorded
    <2>2. QED
      BY <1>3, <2>1 DEF RecordVerification, TypeOK
  <1>4. CASE RecordBuildFailure(r)
    BY <1>4 DEF RecordBuildFailure
  <1>5. CASE CommitForbidden(r) \/ CommitDecided(r) \/ CommitRefused(r)
    BY <1>5 DEF CommitForbidden, CommitDecided, CommitRefused
  <1>6. CASE CommitConflict(r)
    BY <1>6 DEF CommitConflict, ReadyToCommit, Pending, TypeOK
  <1>7. CASE CommitVersion(r)
    <2>1. cand[c].status = "pending" /\ cand' = [cand EXCEPT ![c].status = "committed"]
      BY <1>7 DEF CommitVersion, ReadyToCommit, Pending
    <2>2. \A d \in Candidates :
              cand[d].status \in {"rejected", "committed"} => cand'[d] = cand[d]
      BY <2>1 DEF TypeOK
    <2>3. \A i \in 1..Len(versions) : i \in 1..Len(versions') /\ versions'[i] = versions[i]
      BY <1>7 DEF CommitVersion, TypeOK
    <2>4. QED
      BY <1>7, <2>2, <2>3 DEF CommitVersion
  <1>8. QED
    BY <1>1, <1>2, <1>3, <1>4, <1>5, <1>6, <1>7 DEF Step, CommitCandidate

LEMMA NextGrows == TypeOK /\ [Next]_vars => StoreGrows
  <1> SUFFICES ASSUME TypeOK, [Next]_vars PROVE StoreGrows
    OBVIOUS
  <1>1. ASSUME NEW a \in Accounts, NEW c \in Candidates, NEW kind \in {"build", "race"},
               NEW s \in Snapshots, StoreCandidate(a, c, kind, s)
        PROVE  StoreGrows
    BY <1>1, InsertGrows, SupersededPending DEF StoreCandidate, StoreGrows
  <1>2. ASSUME NEW a \in Accounts, NEW c \in Candidates, NEW v \in 1..Len(versions),
               RestageVersion(a, v, c)
        PROVE  StoreGrows
    BY <1>2, InsertGrows, SupersededPending DEF RestageVersion, StoreGrows
  <1>3. ASSUME UNCHANGED <<cand, verification, attempts, versions>>
        PROVE  StoreGrows
    BY <1>3 DEF StoreGrows
  <1>4. QED
    BY <1>1, <1>2, <1>3, StepGrows
       DEF Next, Submit, Disconnect, Restart, RegisterProject, ChangeMembership, Tick,
           vars, storeVars

\* Build evidence is never replaced or removed, however many requests build and
\* record the same candidate.
THEOREM EvidenceIsKept == Spec => EvidenceKept
  <1>1. TypeOK /\ [Next]_vars =>
            [/\ attempts \subseteq attempts'
             /\ \A c \in Candidates : verification[c] # None =>
                                          verification'[c] = verification[c]]_vars
    BY NextGrows DEF StoreGrows
  <1>2. QED
    BY <1>1, TypeCorrect, PTL DEF Spec, EvidenceKept

\* A rejected candidate is never committed and a committed one never rejected.
THEOREM StatusIsFinal == Spec => FinalStatus
  <1>1. TypeOK /\ [Next]_vars =>
            [\A c \in Candidates : cand[c].status \in {"rejected", "committed"} =>
                                       cand'[c].status = cand[c].status]_vars
    BY NextGrows DEF StoreGrows
  <1>2. QED
    BY <1>1, TypeCorrect, PTL DEF Spec, FinalStatus

-----------------------------------------------------------------------------
(* The inductive invariant.  What a table says of another, and what every  *)
(* request may rely on at the step it has reached.                         *)

HistoryShape ==
    /\ active = Len(versions)
    /\ \A i \in 1..Len(versions) :
           /\ versions[i].candidate \in Candidates
           /\ versions[i].parent = i - 1
           /\ cand[versions[i].candidate].status = "committed"
           /\ cand[versions[i].candidate].snapshot = versions[i].snapshot
           /\ verification[versions[i].candidate] # None
    /\ \A i, j \in 1..Len(versions) : versions[i].candidate = versions[j].candidate => i = j
    /\ \A c \in Candidates : cand[c].status = "committed" =>
           \E i \in 1..Len(versions) : versions[i].candidate = c

EvidenceShape ==
    \A c \in Candidates : verification[c] # None =>
        [request |-> verification[c], candidate |-> c, code |-> "compile_passed"] \in attempts

OnParent(r) == \E i \in 1..Len(versions) : /\ versions[i].candidate = call[r].candidate
                                          /\ versions[i].parent = call[r].parent

AnswerShape(r) ==
    LET c == call[r].candidate
    IN  /\ pc[r] \in {"verify", "commit"} \/ answer[r] = "ok" =>
               build[r] # None /\ build[r] = verification[c]
        /\ answer[r] = "ok" => pc[r] = "done" /\ OnParent(r)
        /\ answer[r] = "version_conflict" => pc[r] = "done" /\ cand[c].status = "rejected"
        /\ pc[r] = "done" /\ answer[r] \in Failures =>
               [request |-> r, candidate |-> c, code |-> answer[r]] \in attempts
        /\ answer[r] \in Failures => pc[r] \in {"fail", "done"}

IInv == TypeOK /\ HistoryShape /\ EvidenceShape /\ \A r \in Requests : AnswerShape(r)

\* An action that commits nothing keeps the shape of the history.
LEMMA HistoryFrame ==
    ASSUME TypeOK, HistoryShape, StoreGrows, UNCHANGED <<versions, active>>,
           \A c \in Candidates : cand'[c].status = "committed" => cand[c].status = "committed"
    PROVE  HistoryShape'
  BY DEF HistoryShape, StoreGrows

\* A request that does not move keeps what it may rely on.
LEMMA AnswerFrame ==
    ASSUME TypeOK, StoreGrows, NEW r \in Requests, AnswerShape(r),
           pc'[r] = pc[r], answer'[r] = answer[r], build'[r] = build[r],
           call'[r] = call[r]
    PROVE  AnswerShape(r)'
  <1>1. pc[r] \in {"idle", "done"} \cup Steps /\ (pc[r] # "idle" => call[r].candidate \in Candidates)
    BY DEF TypeOK, Call
  <1>2. OnParent(r) => OnParent(r)'
    BY DEF StoreGrows, OnParent
  <1>3. QED
    BY <1>1, <1>2 DEF AnswerShape, StoreGrows

LEMMA IInit == Init => IInv
  <1> SUFFICES ASSUME Init PROVE IInv
    OBVIOUS
  <1>1. TypeOK
    BY TypeInit
  <1>2. HistoryShape
    BY DEF Init, HistoryShape, NoRow
  <1>3. EvidenceShape
    BY DEF Init, EvidenceShape
  <1>4. ASSUME NEW r \in Requests PROVE AnswerShape(r)
    BY DEF Init, AnswerShape, Failures
  <1>5. QED
    BY <1>1, <1>2, <1>3, <1>4 DEF IInv

\* The commit transaction appends a version on the active one.
LEMMA CommitHistory ==
    ASSUME IInv, NEW r \in Requests, CommitVersion(r), StoreGrows, TypeOK'
    PROVE  HistoryShape' /\ AnswerShape(r)'
  <1> DEFINE c == call[r].candidate
             n == Len(versions)
             new == [candidate |-> c, parent |-> call[r].parent, snapshot |-> cand[c].snapshot]
  <1>1. /\ pc[r] = "commit" /\ c \in Candidates /\ call[r] \in Call
        /\ cand[c].status = "pending" /\ verification[c] # None
        /\ call[r].parent = n /\ n \in Nat
    BY DEF IInv, TypeOK, Call, CommitVersion, ReadyToCommit, Pending, ParentIsActive,
           HistoryShape
  <1>2. /\ Len(versions') = n + 1 /\ versions'[n + 1] = new
        /\ \A i \in 1..n : versions'[i] = versions[i]
    BY DEF CommitVersion, IInv, TypeOK
  <1>3. /\ cand'[c].status = "committed" /\ cand'[c].snapshot = cand[c].snapshot
        /\ \A d \in Candidates : d # c => cand'[d] = cand[d]
    BY <1>1 DEF CommitVersion, IInv, TypeOK, Row
  <1>4. verification' = verification /\ active' = n + 1
    BY DEF CommitVersion
  <1>5. \A i \in 1..n : versions[i].candidate \in Candidates /\ versions[i].candidate # c
    BY <1>1 DEF IInv, HistoryShape
  <1>6. ASSUME NEW i \in 1..(n + 1)
        PROVE  /\ versions'[i].candidate \in Candidates
               /\ versions'[i].parent = i - 1
               /\ cand'[versions'[i].candidate].status = "committed"
               /\ cand'[versions'[i].candidate].snapshot = versions'[i].snapshot
               /\ verification'[versions'[i].candidate] # None
    <2>1. CASE i = n + 1
      BY <2>1, <1>1, <1>2, <1>3, <1>4
    <2>2. CASE i \in 1..n
      BY <2>2, <1>2, <1>3, <1>4, <1>5 DEF IInv, HistoryShape
    <2>3. QED
      BY <1>1, <2>1, <2>2
  <1>7. ASSUME NEW i \in 1..(n + 1), NEW j \in 1..(n + 1),
               versions'[i].candidate = versions'[j].candidate
        PROVE  i = j
    <2>1. CASE i \in 1..n /\ j \in 1..n
      BY <1>7, <2>1, <1>2 DEF IInv, HistoryShape
    <2>2. CASE i = n + 1 \/ j = n + 1
      BY <1>7, <2>2, <1>1, <1>2, <1>5
    <2>3. QED
      BY <1>1, <2>1, <2>2
  <1>8. ASSUME NEW d \in Candidates, cand'[d].status = "committed"
        PROVE  \E i \in 1..(n + 1) : versions'[i].candidate = d
    BY <1>8, <1>1, <1>2, <1>3 DEF IInv, HistoryShape
  <1>9. HistoryShape'
    BY <1>2, <1>4, <1>6, <1>7, <1>8 DEF HistoryShape
  <1>10. /\ pc'[r] = "done" /\ answer'[r] = "ok" /\ call' = call /\ build' = build
         /\ build[r] # None /\ build[r] = verification[c]
    BY <1>1 DEF CommitVersion, Reply, IInv, TypeOK, AnswerShape
  <1>11. OnParent(r)'
    BY <1>1, <1>2, <1>10 DEF OnParent
  <1>12. QED
    BY <1>4, <1>9, <1>10, <1>11 DEF AnswerShape, Failures

\* The other steps of a handler commit nothing and leave it with what it may
\* rely on next.
LEMMA StepAnswers ==
    ASSUME IInv, NEW r \in Requests, Step(r), ~CommitVersion(r), StoreGrows
    PROVE  HistoryShape' /\ EvidenceShape' /\ AnswerShape(r)'
  <1> DEFINE c == call[r].candidate
  <1> USE DEF storeVars
  <1>1. /\ TypeOK /\ HistoryShape /\ EvidenceShape /\ AnswerShape(r)
        /\ r \in DOMAIN pc /\ r \in DOMAIN answer /\ r \in DOMAIN build
        /\ pc[r] # "done" => answer[r] \notin {"ok", "version_conflict"}
    BY DEF IInv, TypeOK, AnswerShape
  <1>a. ASSUME UNCHANGED <<cand, versions, active>>
        PROVE  HistoryShape'
    BY <1>a, <1>1, HistoryFrame
  <1>b. ASSUME UNCHANGED verification
        PROVE  EvidenceShape'
    BY <1>b, <1>1 DEF EvidenceShape, StoreGrows
  <1>c. ASSUME NEW code \in Codes \ ({"ok", "version_conflict"} \cup Failures),
               Reply(r, code)
        PROVE  AnswerShape(r)'
    BY <1>c, <1>1 DEF AnswerShape, Reply, Codes, Failures
  <1>d. ASSUME NEW step \in Steps \ {"verify", "commit"}, Goto(r, step),
               UNCHANGED <<answer, call>>, pc[r] # "fail", pc[r] # "done"
        PROVE  AnswerShape(r)'
    BY <1>d, <1>1 DEF AnswerShape, Goto, Steps, Failures
  <1>2. CASE LoadCandidate(r)
    BY <1>2, <1>a, <1>b, <1>c, <1>d DEF LoadCandidate, Steps, Codes, Failures
  <1>3. CASE FindVerification(r)
    <2>1. CASE MemberCalls(r) /\ verification[c] # None /\ Known(r)
      <3>1. /\ pc' = [pc EXCEPT ![r] = "verify"] /\ pc[r] = "find"
            /\ build' = [build EXCEPT ![r] = verification[c]]
            /\ UNCHANGED <<answer, call, verification>>
        BY <1>3, <2>1 DEF FindVerification, Goto
      <3>2. AnswerShape(r)'
        BY <1>1, <2>1, <3>1 DEF AnswerShape, Failures
      <3>3. QED
        BY <1>3, <1>a, <1>b, <3>2 DEF FindVerification
    <2>2. CASE MemberCalls(r) /\ ~(verification[c] # None /\ Known(r))
      BY <1>3, <2>2, <1>a, <1>b, <1>d DEF FindVerification, Steps
    <2>3. CASE ~MemberCalls(r)
      BY <1>3, <2>3, <1>a, <1>b, <1>c DEF FindVerification, Codes, Failures
    <2>4. QED
      BY <2>1, <2>2, <2>3
  <1>4. CASE VerifyArtifact(r)
    <2>1. CASE Goto(r, "commit") /\ UNCHANGED <<timer, answer>>
      <3>1. AnswerShape(r)'
        BY <1>1, <1>4, <2>1 DEF AnswerShape, VerifyArtifact, Goto, Failures
      <3>2. QED
        BY <1>4, <1>a, <1>b, <3>1 DEF VerifyArtifact
    <2>2. CASE Reply(r, "artifact_unavailable")
      BY <1>4, <2>2, <1>a, <1>b, <1>c DEF VerifyArtifact, Codes, Failures
    <2>3. QED
      BY <1>4, <2>1, <2>2 DEF VerifyArtifact
  <1>5. CASE ClaimCompilation(r)
    BY <1>5, <1>a, <1>b, <1>c, <1>d DEF ClaimCompilation, Steps, Codes, Failures
  <1>6. CASE Compile(r)
    <2>1. CASE Goto(r, "pass") /\ UNCHANGED answer
      BY <1>6, <2>1, <1>a, <1>b, <1>d DEF Compile, Steps
    <2>2. ASSUME NEW code \in Failures, Goto(r, "fail"), answer' = [answer EXCEPT ![r] = code]
          PROVE  AnswerShape(r)'
      BY <1>1, <2>2 DEF AnswerShape, Goto, Failures
    <2>3. QED
      BY <1>6, <2>1, <2>2, <1>a, <1>b DEF Compile
  <1>7. CASE RecordVerification(r)
    <2>1. CASE Recorded(r) # None /\ HoldsLease(r)
      <3>1. /\ verification' = [verification EXCEPT ![c] = Recorded(r)]
            /\ attempts' = attempts \cup
                   {[request |-> r, candidate |-> c, code |-> "compile_passed"]}
            /\ build' = [build EXCEPT ![r] = Recorded(r)]
            /\ pc' = [pc EXCEPT ![r] = "commit"] /\ pc[r] = "pass"
            /\ UNCHANGED <<cand, versions, active, answer, call>>
        BY <1>7, <2>1 DEF RecordVerification, Goto
      <3>2. c \in Candidates /\ c \in DOMAIN verification
        BY <1>1, <3>1 DEF TypeOK, Call
      <3>3. Recorded(r) \in {r, verification[c]}
        BY DEF Recorded
      <3>4. EvidenceShape'
        <4> SUFFICES ASSUME NEW d \in Candidates, verification'[d] # None
                     PROVE  [request |-> verification'[d], candidate |-> d,
                             code |-> "compile_passed"] \in attempts'
          BY DEF EvidenceShape
        <4>1. CASE d # c
          BY <1>1, <3>1, <4>1 DEF EvidenceShape, TypeOK
        <4>2. CASE d = c
          BY <1>1, <2>1, <3>1, <3>2, <3>3, <4>2 DEF EvidenceShape
        <4>3. QED
          BY <4>1, <4>2
      <3>5. AnswerShape(r)'
        BY <1>1, <2>1, <3>1, <3>2 DEF AnswerShape, Failures
      <3>6. QED
        BY <3>1, <3>4, <3>5, <1>a
    <2>2. CASE Recorded(r) = None \/ ~HoldsLease(r)
      BY <1>7, <2>2, <1>a, <1>b, <1>c DEF RecordVerification, Codes, Failures
    <2>3. QED
      BY <2>1, <2>2
  <1>8. CASE RecordBuildFailure(r)
    <2>1. CASE FailureCounts(r)
      <3>1. answer[r] \in Failures /\ answer[r] \notin {"ok", "version_conflict"}
        BY <1>1, <1>8 DEF RecordBuildFailure, TypeOK, Failures
      <3>2. /\ pc'[r] = "done" /\ answer'[r] = answer[r] /\ call' = call
            /\ [request |-> r, candidate |-> c, code |-> answer[r]] \in attempts'
        BY <1>1, <1>8, <2>1 DEF RecordBuildFailure, Reply
      <3>3. AnswerShape(r)'
        BY <3>1, <3>2 DEF AnswerShape
      <3>4. QED
        BY <1>8, <3>3, <1>a, <1>b DEF RecordBuildFailure
    <2>2. CASE ~FailureCounts(r)
      BY <1>8, <2>2, <1>a, <1>b, <1>c DEF RecordBuildFailure, Codes, Failures
    <2>3. QED
      BY <2>1, <2>2
  <1>9. CASE CommitForbidden(r) \/ CommitRefused(r)
    BY <1>9, <1>a, <1>b, <1>c DEF CommitForbidden, CommitRefused, Codes, Failures
  <1>10. CASE CommitDecided(r)
    <2>1. CASE RepeatedCommit(r)
      <3>1. /\ pc'[r] = "done" /\ answer'[r] = "ok" /\ pc[r] = "commit"
            /\ UNCHANGED <<call, build, verification, versions>>
        BY <1>1, <1>10, <2>1 DEF CommitDecided, Reply
      <3>2. AnswerShape(r)'
        BY <1>1, <2>1, <3>1 DEF AnswerShape, OnParent, RepeatedCommit, Failures
      <3>3. QED
        BY <1>10, <3>2, <1>a, <1>b DEF CommitDecided
    <2>2. CASE ~RepeatedCommit(r)
      BY <1>10, <2>2, <1>a, <1>b, <1>c DEF CommitDecided, Codes, Failures
    <2>3. QED
      BY <2>1, <2>2
  <1>11. CASE CommitConflict(r)
    <2>1. /\ cand' = [cand EXCEPT ![c].status = "rejected"]
          /\ pc'[r] = "done" /\ answer'[r] = "version_conflict"
          /\ pc[r] = "commit"
          /\ UNCHANGED <<call, build, verification, versions, active>>
      BY <1>1, <1>11 DEF CommitConflict, Reply
    <2>2. /\ cand'[c].status = "rejected"
          /\ \A d \in Candidates : cand'[d].status = "committed" => cand[d].status = "committed"
      BY <1>1, <2>1 DEF TypeOK, Call, Row
    <2>3. HistoryShape'
      BY <1>1, <2>1, <2>2, HistoryFrame
    <2>4. AnswerShape(r)'
      BY <1>1, <2>1, <2>2 DEF AnswerShape, Failures
    <2>5. QED
      BY <2>1, <2>3, <2>4, <1>b
  <1>12. QED
    BY <1>2, <1>3, <1>4, <1>5, <1>6, <1>7, <1>8, <1>9, <1>10, <1>11
       DEF Step, CommitCandidate

\* Every step moves at most one request, restarts and new calls included.
LEMMA InvStep == IInv /\ [Next]_vars => IInv'
  <1> SUFFICES ASSUME IInv, [Next]_vars PROVE IInv'
    OBVIOUS
  <1>1. TypeOK /\ TypeOK' /\ StoreGrows
    BY TypeStep, NextGrows DEF IInv
  <1>2. ASSUME NEW r \in Requests, Step(r)
        PROVE  IInv'
    <2>1. HistoryShape' /\ EvidenceShape' /\ AnswerShape(r)'
      <3>1. CASE CommitVersion(r)
        <4>1. EvidenceShape'
          BY <3>1 DEF CommitVersion, IInv, EvidenceShape
        <4>2. QED
          BY <1>1, <3>1, <4>1, CommitHistory
      <3>2. CASE ~CommitVersion(r)
        BY <1>1, <1>2, <3>2, StepAnswers
      <3>3. QED
        BY <3>1, <3>2
    <2>2. ASSUME NEW q \in Requests, q # r
          PROVE  AnswerShape(q)'
      <3>1. pc'[q] = pc[q] /\ answer'[q] = answer[q] /\ build'[q] = build[q]
            /\ call'[q] = call[q]
        BY <1>1, <1>2, <2>2
           DEF Step, TypeOK, LoadCandidate, FindVerification, VerifyArtifact, ClaimCompilation,
               Compile, RecordVerification, RecordBuildFailure, CommitCandidate,
               CommitForbidden, CommitDecided, CommitRefused, CommitConflict,
               CommitVersion, Reply, Goto
      <3>2. QED
        BY <1>1, <3>1, AnswerFrame DEF IInv
    <2>3. QED
      BY <1>1, <2>1, <2>2 DEF IInv
  <1>3. ASSUME UNCHANGED <<cand, verification, attempts, versions, active>>,
               \A r \in Requests : AnswerShape(r)'
        PROVE  IInv'
    BY <1>1, <1>3, HistoryFrame DEF IInv, EvidenceShape
  <1>4. ASSUME UNCHANGED requestVars
        PROVE  \A r \in Requests : AnswerShape(r)'
    BY <1>1, <1>4, AnswerFrame DEF IInv, requestVars
  <1>5. ASSUME NEW c \in Candidates, NEW row, NEW gone, Insert(c, row, gone),
               row.status = "pending", \A d \in gone : Pending(d),
               UNCHANGED <<verification, attempts, versions, active, requestVars>>
        PROVE  IInv'
    <2>1. \A d \in Candidates : cand'[d].status = "committed" => cand[d].status = "committed"
      <3> SUFFICES ASSUME NEW d \in Candidates, cand'[d].status = "committed"
                   PROVE  cand[d].status = "committed"
        OBVIOUS
      <3>1. CASE d = c
        BY <1>5, <3>1 DEF Insert
      <3>2. CASE d # c /\ d \in gone
        <4>1. cand'[d] = [cand[d] EXCEPT !.status = "rejected"] /\ cand[d] \in Row
          BY <1>1, <1>5, <3>2 DEF Insert, TypeOK
        <4>2. QED
          BY <4>1 DEF Row
      <3>3. CASE d # c /\ d \notin gone
        BY <1>5, <3>3 DEF Insert
      <3>4. QED
        BY <3>1, <3>2, <3>3
    <2>2. HistoryShape'
      BY <1>1, <1>5, <2>1, HistoryFrame DEF IInv
    <2>3. EvidenceShape'
      BY <1>5 DEF IInv, EvidenceShape
    <2>4. QED
      BY <1>1, <1>4, <1>5, <2>2, <2>3 DEF IInv
  <1>6. ASSUME NEW a \in Accounts, NEW c \in Candidates, NEW kind \in {"build", "race"},
               NEW s \in Snapshots, StoreCandidate(a, c, kind, s)
        PROVE  IInv'
    BY <1>6, <1>5, SupersededPending DEF StoreCandidate
  <1>7. ASSUME NEW a \in Accounts, NEW c \in Candidates, NEW v \in 1..Len(versions),
               RestageVersion(a, v, c)
        PROVE  IInv'
    BY <1>7, <1>5, SupersededPending DEF RestageVersion
  <1>8. ASSUME NEW r \in Requests, NEW a \in Accounts, NEW c \in Candidates,
               NEW p \in 0..Len(versions), Submit(r, a, c, p)
        PROVE  IInv'
    <2>1. /\ pc[r] = "idle" /\ pc'[r] = "load" /\ answer' = answer /\ build' = build
          /\ \A q \in Requests : q # r => pc'[q] = pc[q] /\ call'[q] = call[q]
      BY <1>1, <1>8 DEF Submit, Goto, TypeOK
    <2>2. AnswerShape(r)'
      BY <2>1 DEF IInv, AnswerShape, Failures
    <2>3. \A q \in Requests : AnswerShape(q)'
      BY <1>1, <2>1, <2>2, AnswerFrame DEF IInv
    <2>4. QED
      BY <1>3, <1>8, <2>3 DEF Submit, storeVars
  <1>9. ASSUME NEW r \in Requests, pc[r] \in Steps, pc'[r] = "done", answer'[r] = "lost",
               call'[r] = call[r]
        PROVE  AnswerShape(r)'
    BY <1>9 DEF AnswerShape, Failures
  <1>10. ASSUME NEW r \in Requests, Disconnect(r)
         PROVE  IInv'
    <2>1. /\ pc[r] \in Steps /\ pc'[r] = "done" /\ answer'[r] = "lost" /\ call'[r] = call[r]
          /\ \A q \in Requests : q # r => pc'[q] = pc[q] /\ answer'[q] = answer[q]
          /\ UNCHANGED <<build, call>>
      BY <1>1, <1>10 DEF Disconnect, Reply, TypeOK
    <2>2. \A q \in Requests : AnswerShape(q)'
      BY <1>1, <1>9, <2>1, AnswerFrame DEF IInv
    <2>3. QED
      BY <1>3, <1>10, <2>2 DEF Disconnect, storeVars
  <1>11. CASE Restart
    <2>1. ASSUME NEW q \in Requests
          PROVE  AnswerShape(q)'
      <3>1. CASE pc[q] \in Steps
        BY <1>9, <1>11, <3>1 DEF Restart
      <3>2. CASE pc[q] \notin Steps
        BY <1>1, <1>11, <3>2, AnswerFrame DEF Restart, IInv
      <3>3. QED
        BY <3>1, <3>2
    <2>2. QED
      BY <1>3, <1>11, <2>1 DEF Restart, storeVars
  <1>12. CASE RegisterProject \/ (\E a \in Accounts : ChangeMembership(a)) \/ UNCHANGED vars
    BY <1>3, <1>4, <1>12 DEF RegisterProject, ChangeMembership, vars, storeVars
  <1>13. CASE Tick
    <2>1. \A q \in Requests : AnswerShape(q)'
      BY <1>1, <1>13, AnswerFrame DEF Tick, IInv
    <2>2. QED
      BY <1>3, <1>13, <2>1 DEF Tick
  <1>14. QED
    BY <1>2, <1>6, <1>7, <1>8, <1>10, <1>11, <1>12, <1>13 DEF Next

\* Whatever requests, restarts and members do, each version, candidate and answer
\* keeps to the rows it rests on.
THEOREM Invariance == Spec => []IInv
  BY IInit, InvStep, PTL DEF Spec

\* For any number of members and requests, the versions form one line that ends
\* in the active version.
THEOREM HistoryIsLinear == Spec => []LinearHistory
  <1>1. IInv => LinearHistory
    BY DEF IInv, HistoryShape, LinearHistory
  <1>2. QED
    BY <1>1, Invariance, PTL

\* Every version is the content of its committed candidate, and the build that
\* passed for it is on record.
THEOREM VersionsAreBacked == Spec => []VersionsBacked
  <1>1. IInv => VersionsBacked
    BY DEF IInv, HistoryShape, EvidenceShape, VersionsBacked
  <1>2. QED
    BY <1>1, Invariance, PTL

\* A candidate is committed exactly when one version comes from it.
THEOREM CommitsOnce == Spec => []CommittedOnce
  <1>1. IInv => CommittedOnce
    <2> SUFFICES ASSUME IInv, NEW c \in Candidates
                 PROVE  LET of == {i \in 1..Len(versions) : versions[i].candidate = c}
                        IN  cand[c].status = "committed" <=> \E i \in of : of = {i}
      BY DEF CommittedOnce
    <2> DEFINE of == {i \in 1..Len(versions) : versions[i].candidate = c}
    <2>1. ASSUME cand[c].status = "committed"
          PROVE  \E i \in of : of = {i}
      <3>1. PICK i \in 1..Len(versions) : versions[i].candidate = c
        BY <2>1 DEF IInv, HistoryShape
      <3>2. \A j \in of : j = i
        BY <3>1 DEF IInv, HistoryShape
      <3>3. QED
        BY <3>1, <3>2
    <2>2. ASSUME NEW i \in of
          PROVE  cand[c].status = "committed"
      BY <2>2 DEF IInv, HistoryShape
    <2>3. QED
      BY <2>1, <2>2
  <1>2. QED
    BY <1>1, Invariance, PTL

\* What a client was told about its commit stays true.
THEOREM AnswersStayTrue == Spec => []AnswersHold
  <1>1. IInv => AnswersHold
    BY DEF IInv, AnswerShape, AnswersHold, OnParent
  <1>2. QED
    BY <1>1, Invariance, PTL

-----------------------------------------------------------------------------
(* The commit path implements VersionHistory: a commit publishes, the end  *)
(* of a repeated commit acknowledges, everything else discards at most.    *)

historyOf == [i \in 1..Len(versions) |->
                 [candidate |-> versions[i].candidate, parent |-> versions[i].parent]]

Rejected == {c \in Candidates : cand[c].status = "rejected"}

LEMMA DiscardStep ==
    ASSUME IInv, StoreGrows, UNCHANGED versions, acked' = acked
    PROVE  Promise!HistoryNext
  <1>1. PICK C : C = Rejected' \ Rejected
    OBVIOUS
  <1>2. Len(historyOf) = Len(versions)
    BY DEF historyOf, IInv, TypeOK
  <1>3. C \cap Promise!Published = {}
    <2> SUFFICES ASSUME NEW i \in 1..Len(historyOf)
                 PROVE  historyOf[i].candidate \notin C
      BY DEF Promise!Published, historyOf
    <2>1. i \in 1..Len(versions) /\ historyOf[i].candidate = versions[i].candidate
      BY <1>2 DEF historyOf
    <2>2. cand'[versions[i].candidate].status = "committed"
      BY <2>1 DEF IInv, HistoryShape, StoreGrows
    <2>3. QED
      BY <1>1, <2>1, <2>2 DEF Rejected
  <1>4. Rejected' = Rejected \cup C
    BY <1>1 DEF Rejected, StoreGrows
  <1>5. Promise!Discard(C)
    BY <1>3, <1>4 DEF Promise!Discard, Rejected
  <1>6. C \in SUBSET Candidates
    BY <1>1 DEF Rejected
  <1>7. QED
    BY <1>5, <1>6 DEF Promise!HistoryNext

\* Only an answer "ok" that was not there before acknowledges a commit.
LEMMA AckedFrame ==
    ASSUME \A q \in Requests : /\ answer'[q] = "ok" <=> answer[q] = "ok"
                               /\ answer[q] = "ok" => call'[q] = call[q]
    PROVE  acked' = acked
  BY DEF acked

LEMMA AckedAdds ==
    ASSUME NEW r \in Requests, call' = call, answer'[r] = "ok",
           \A q \in Requests : q # r => answer'[q] = answer[q]
    PROVE  acked' = acked \cup
               {[candidate |-> call[r].candidate, parent |-> call[r].parent]}
  <1> DEFINE e(q) == [candidate |-> call[q].candidate, parent |-> call[q].parent]
  <1>1. acked' = {e(q) : q \in {p \in Requests : answer'[p] = "ok"}}
    BY DEF acked
  <1>2. acked = {e(q) : q \in {p \in Requests : answer[p] = "ok"}}
    BY DEF acked
  <1>3. {p \in Requests : answer'[p] = "ok"} = {p \in Requests : answer[p] = "ok"} \cup {r}
    OBVIOUS
  <1>4. QED
    BY <1>1, <1>2, <1>3

LEMMA CommitPublishes ==
    ASSUME IInv, IInv', NEW r \in Requests, CommitVersion(r), StoreGrows
    PROVE  Promise!HistoryNext
  <1>0. PICK c \in Candidates, n \in Nat : c = call[r].candidate /\ n = Len(versions)
    <2>1. call[r].candidate \in Candidates
      BY DEF IInv, TypeOK, Call, CommitVersion
    <2>2. Len(versions) \in Nat
      BY DEF IInv, TypeOK
    <2>3. QED
      BY <2>1, <2>2
  <1> DEFINE entry == [candidate |-> c, parent |-> n]
  <1>1. /\ c = call[r].candidate /\ n = Len(versions) /\ call[r].parent = n
        /\ cand[c].status = "pending"
    BY <1>0 DEF IInv, CommitVersion, ReadyToCommit, Pending, ParentIsActive, HistoryShape
  <1>2. /\ Len(versions') = n + 1
        /\ versions'[n + 1] = [candidate |-> c, parent |-> n, snapshot |-> cand[c].snapshot]
        /\ \A i \in 1..n : versions'[i] = versions[i]
    BY <1>1 DEF CommitVersion, IInv, TypeOK
  <1>3. Len(historyOf) = n /\ historyOf \in Seq(Promise!Entry)
    <2>1. \A i \in 1..n : [candidate |-> versions[i].candidate, parent |-> versions[i].parent]
                              \in Promise!Entry
      <3>1. \A i \in 1..n : versions[i] \in Version
        BY <1>1 DEF IInv, TypeOK
      <3>2. QED
        BY <3>1 DEF Version, Promise!Entry
    <2>2. QED
      BY <1>1, <2>1 DEF historyOf
  <1>4. historyOf' = Append(historyOf, entry)
    BY <1>1, <1>2, <1>3 DEF historyOf
  <1>5. c \notin Promise!Published \cup Rejected
    <2>1. c \notin Rejected
      BY <1>1 DEF Rejected
    <2>2. ASSUME NEW i \in 1..Len(historyOf), historyOf[i].candidate = c
          PROVE  FALSE
      <3>1. i \in 1..Len(versions) /\ versions[i].candidate = c
        BY <1>1, <1>3, <2>2 DEF historyOf
      <3>2. cand[versions[i].candidate].status = "committed"
        BY <3>1 DEF IInv, HistoryShape
      <3>3. QED
        BY <1>1, <3>1, <3>2
    <2>3. c \notin Promise!Published
      BY <2>2 DEF Promise!Published, historyOf
    <2>4. QED
      BY <2>1, <2>3
  <1>6. Rejected' = Rejected
    BY <1>1 DEF Rejected, CommitVersion, IInv, TypeOK, Row
  <1>7. acked' = acked \cup {entry}
    BY <1>1, AckedAdds DEF CommitVersion, Reply, IInv, TypeOK
  <1>8. Promise!Publish(c)
    BY <1>3, <1>4, <1>5, <1>6, <1>7 DEF Promise!Publish, historyOf, Rejected
  <1>9. QED
    BY <1>8 DEF Promise!HistoryNext

LEMMA RepeatAcknowledges ==
    ASSUME IInv, NEW r \in Requests, CommitDecided(r), RepeatedCommit(r)
    PROVE  Promise!HistoryNext
  <1>1. PICK i \in 1..Len(versions) : /\ versions[i].candidate = call[r].candidate
                                     /\ versions[i].parent = call[r].parent
    BY DEF RepeatedCommit
  <1>2. Len(historyOf) = Len(versions) /\ i \in 1..Len(historyOf)
    BY DEF historyOf, IInv, TypeOK
  <1>3. historyOf[i] = [candidate |-> call[r].candidate, parent |-> call[r].parent]
    BY <1>1 DEF historyOf
  <1>4. acked' = acked \cup {historyOf[i]}
    BY <1>3, AckedAdds DEF CommitDecided, Reply, IInv, TypeOK
  <1>5. Promise!Acknowledge(i)
    BY <1>4 DEF Promise!Acknowledge, CommitDecided, storeVars, historyOf
  <1>6. QED
    BY <1>2, <1>5 DEF Promise!HistoryNext, historyOf

\* The steps of a handler that answer "ok" are the two above.
LEMMA StepRefines ==
    ASSUME IInv, IInv', NEW r \in Requests, Step(r), StoreGrows
    PROVE  Promise!HistoryNext
  <1>1. CASE CommitVersion(r)
    BY <1>1, CommitPublishes
  <1>2. CASE CommitDecided(r) /\ RepeatedCommit(r)
    BY <1>2, RepeatAcknowledges
  <1>3. CASE ~CommitVersion(r) /\ ~(CommitDecided(r) /\ RepeatedCommit(r))
    <2> USE DEF storeVars
    <2>1. /\ versions' = versions /\ call' = call
          /\ \A q \in Requests : q # r => answer'[q] = answer[q]
      BY <1>3 DEF Step, LoadCandidate, FindVerification, VerifyArtifact, ClaimCompilation,
             Compile, RecordVerification, RecordBuildFailure, CommitCandidate,
             CommitForbidden, CommitDecided, CommitRefused, CommitConflict, Reply, Goto,
             IInv, TypeOK
    <2>2. /\ pc[r] \in Steps /\ answer \in [Requests -> Codes \cup {"none"}]
          /\ pc[r] = "fail" => answer[r] \in Failures
      BY DEF Step, LoadCandidate, FindVerification, VerifyArtifact, ClaimCompilation,
             Compile, RecordVerification, RecordBuildFailure, CommitCandidate,
             CommitForbidden, CommitDecided, CommitRefused, CommitConflict, CommitVersion,
             Steps, IInv, TypeOK
    <2>3. answer[r] # "ok"
      BY <2>2 DEF IInv, AnswerShape, Steps
    <2>4. answer'[r] # "ok"
      BY <1>3, <2>2, <2>3
         DEF Step, LoadCandidate, FindVerification, VerifyArtifact, ClaimCompilation,
             Compile, RecordVerification, RecordBuildFailure, CommitCandidate,
             CommitForbidden, CommitDecided, CommitRefused, CommitConflict, Reply, Failures
    <2>5. acked' = acked
      BY <2>1, <2>3, <2>4, AckedFrame
    <2>6. QED
      BY <2>1, <2>5, DiscardStep
  <1>4. QED
    BY <1>1, <1>2, <1>3

\* The commit path keeps its promise, for any number of members, requests,
\* restarts and lost clients.
THEOREM PromiseIsKept == Spec => KeepsPromise
  <1>1. Init => Promise!HistoryInit
    <2> SUFFICES ASSUME Init PROVE Promise!HistoryInit
      OBVIOUS
    <2>1. acked = {}
      BY DEF Init, acked
    <2>2. {c \in Candidates : cand[c].status = "rejected"} = {}
      BY DEF Init, NoRow
    <2>3. historyOf = <<>>
      BY DEF Init, historyOf
    <2>4. QED
      BY <2>1, <2>2, <2>3 DEF Promise!HistoryInit, historyOf
  <1>2. IInv /\ IInv' /\ [Next]_vars => [Promise!HistoryNext]_(Promise!historyVars)
    <2> SUFFICES ASSUME IInv, IInv', [Next]_vars PROVE Promise!HistoryNext
      OBVIOUS
    <2>1. StoreGrows
      BY NextGrows DEF IInv
    <2>2. ASSUME NEW r \in Requests, Step(r)
          PROVE  Promise!HistoryNext
      BY <2>1, <2>2, StepRefines
    <2>3. ASSUME versions' = versions,
                 \A q \in Requests : /\ answer'[q] = "ok" <=> answer[q] = "ok"
                                     /\ answer[q] = "ok" => call'[q] = call[q]
          PROVE  Promise!HistoryNext
      BY <2>1, <2>3, AckedFrame, DiscardStep
    <2>4. \A q \in Requests : answer[q] = "ok" => pc[q] = "done"
      BY DEF IInv, AnswerShape
    <2>5. ASSUME NEW r \in Requests, Disconnect(r)
          PROVE  Promise!HistoryNext
      BY <2>3, <2>4, <2>5 DEF Disconnect, Reply, Steps, storeVars, IInv, TypeOK
    <2>6. CASE Restart
      BY <2>3, <2>4, <2>6 DEF Restart, Steps, storeVars
    <2>7. ASSUME NEW r \in Requests, NEW a \in Accounts, NEW c \in Candidates,
                 NEW p \in 0..Len(versions), Submit(r, a, c, p)
          PROVE  Promise!HistoryNext
      BY <2>3, <2>4, <2>7 DEF Submit, storeVars
    <2>8. QED
      BY <2>2, <2>3, <2>5, <2>6, <2>7
         DEF Next, StoreCandidate, RestageVersion, RegisterProject, ChangeMembership, Tick,
             storeVars, requestVars, vars
  <1>3. QED
    BY <1>1, <1>2, Invariance, PTL DEF Spec, KeepsPromise, Promise!HistorySpec

-----------------------------------------------------------------------------
(* Leases: who holds one, and that a build ends before its lease does.     *)

\* A request's clock runs while it claims or compiles, and no longer than it may.
Timing(r) ==
    /\ pc[r] # "idle" => cand[call[r].candidate].status # "absent"
    /\ pc[r] \notin {"claim", "compile"} => timer[r] = 0
    /\ pc[r] = "claim" => timer[r] <= ClaimDelay
    /\ pc[r] = "compile" => timer[r] <= CompileTimeout
    /\ answer[r] = "lost" => pc[r] = "done"

\* A lease is held by a request for the candidate.
Holding(c) ==
    LET r == lease[c].holder
    IN  /\ cand[c].status = "absent" => r = None
        /\ r # None =>
               /\ pc[r] # "idle" /\ call[r].candidate = c
               /\ Pending(c) => pc[r] \in {"compile", "pass", "fail"} \/ answer[r] = "lost"

\* Whoever builds a pending candidate has its lease, which lasted a full lease when its
\* clock was read.
Leased(r) ==
    LET c == call[r].candidate
    IN  pc[r] = "compile" /\ Pending(c) =>
            /\ lease[c].holder = r
            /\ lease[c].left + timer[r] >= LeaseDuration - ClaimDelay

\* Claims are prompt: the clock is read at most a lease margin before.
Prompt == ClaimDelay < LeaseMargin

LeaseInv ==
    /\ TypeOK
    /\ \A r \in Requests : Timing(r)
    /\ \A c \in Candidates : Holding(c)
    /\ Prompt => (\A r \in Requests : Leased(r)) /\ OneBuildPerCandidate

\* A step of a handler moves that request alone, and touches its candidate alone, which
\* does not become pending again.
Local(r) ==
    LET c == call[r].candidate
    IN  /\ pc[r] \in Steps /\ pc'[r] \in Steps \cup {"done"}
        /\ call' = call /\ c \in Candidates
        /\ \A q \in Requests : q # r =>
               pc'[q] = pc[q] /\ answer'[q] = answer[q] /\ timer'[q] = timer[q]
        /\ \A d \in Candidates : d # c => lease'[d] = lease[d] /\ cand'[d] = cand[d]
        /\ cand[c].status # "absent" => cand'[c].status # "absent"
        /\ cand'[c].status \in {"absent", "pending"} => cand'[c] = cand[c]

LEMMA StepIsLocal == ASSUME TypeOK, NEW r \in Requests, Step(r) PROVE Local(r)
  <1> DEFINE c == call[r].candidate
  <1>1. pc[r] \in Steps /\ pc'[r] \in Steps \cup {"done"}
    BY DEF Step, LoadCandidate, FindVerification, VerifyArtifact, ClaimCompilation, Compile,
           RecordVerification, RecordBuildFailure, CommitCandidate, CommitForbidden,
           CommitDecided, CommitRefused, CommitConflict, CommitVersion, Reply, Goto, Steps, TypeOK
  <1>2. c \in Candidates
    BY <1>1 DEF TypeOK, Call, Steps
  <1>3. /\ call' = call
        /\ \A q \in Requests : q # r =>
               pc'[q] = pc[q] /\ answer'[q] = answer[q] /\ timer'[q] = timer[q]
    BY DEF Step, LoadCandidate, FindVerification, VerifyArtifact, ClaimCompilation, Compile,
           RecordVerification, RecordBuildFailure, CommitCandidate, CommitForbidden,
           CommitDecided, CommitRefused, CommitConflict, CommitVersion, Reply, Goto, TypeOK
  <1>4. \A d \in Candidates : d # c => lease'[d] = lease[d]
    BY DEF Step, LoadCandidate, FindVerification, VerifyArtifact, ClaimCompilation, Compile,
           RecordVerification, RecordBuildFailure, CommitCandidate, CommitForbidden,
           CommitDecided, CommitRefused, CommitConflict, CommitVersion, Release, storeVars, TypeOK
  <1>5. \/ cand' = cand
        \/ \E status \in {"rejected", "committed"} : cand' = [cand EXCEPT ![c].status = status]
    BY DEF Step, LoadCandidate, FindVerification, VerifyArtifact, ClaimCompilation, Compile,
           RecordVerification, RecordBuildFailure, CommitCandidate, CommitForbidden,
           CommitDecided, CommitRefused, CommitConflict, CommitVersion, storeVars
  <1>6. /\ \A d \in Candidates : d # c => cand'[d] = cand[d]
        /\ cand[c].status # "absent" => cand'[c].status # "absent"
        /\ cand'[c].status \in {"absent", "pending"} => cand'[c] = cand[c]
    BY <1>2, <1>5 DEF TypeOK, Row
  <1>7. QED
    BY <1>1, <1>2, <1>3, <1>4, <1>6 DEF Local

\* What a step of r leaves of the invariant to show: r itself, and its candidate.
LEMMA LocalInv ==
    ASSUME LeaseInv, TypeOK', NEW r \in Requests, Local(r), Timing(r)',
           NEW c \in Candidates, c = call[r].candidate, Holding(c)',
           Prompt => /\ Leased(r)'
                     /\ \A q \in Requests \ {r} :
                            call[q].candidate = c /\ pc[q] = "compile" =>
                                pc'[r] # "compile" /\ Leased(q)'
    PROVE  LeaseInv'
  <1>1. \A q \in Requests : Timing(q)'
    <2>1. ASSUME NEW q \in Requests, q # r
          PROVE  Timing(q)'
      <3>1. pc[q] # "idle" => call[q].candidate \in Candidates
        BY <2>1 DEF LeaseInv, TypeOK, Call
      <3>2. QED
        BY <2>1, <3>1 DEF LeaseInv, Timing, Local
    <2>2. QED
      BY <2>1
  <1>2. \A d \in Candidates : Holding(d)'
    <2>1. ASSUME NEW d \in Candidates, d # c
          PROVE  Holding(d)'
      <3>1. lease'[d] = lease[d] /\ cand'[d] = cand[d] /\ Holding(d)
        BY <2>1 DEF Local, LeaseInv
      <3>2. lease[d].holder # None => lease[d].holder \in Requests /\ lease[d].holder # r
        BY <2>1, <3>1 DEF LeaseInv, TypeOK, Lease, Holding
      <3>3. lease[d].holder # None =>
                /\ pc'[lease[d].holder] = pc[lease[d].holder]
                /\ answer'[lease[d].holder] = answer[lease[d].holder]
                /\ call' = call
        BY <3>2 DEF Local
      <3>4. QED
        BY <3>1, <3>3 DEF Holding, Pending
    <2>2. QED
      BY <2>1
  <1>3. ASSUME Prompt
        PROVE  (\A q \in Requests : Leased(q)') /\ OneBuildPerCandidate'
    <2>1. ASSUME NEW q \in Requests, q # r
          PROVE  Leased(q)'
      <3>1. CASE pc[q] # "compile"
        BY <2>1, <3>1 DEF Leased, Local
      <3>2. CASE pc[q] = "compile" /\ call[q].candidate = c
        BY <1>3, <2>1, <3>2
      <3>3. CASE pc[q] = "compile" /\ call[q].candidate # c
        <4>1. call[q].candidate \in Candidates /\ Leased(q)
          BY <1>3, <3>3 DEF LeaseInv, TypeOK, Call
        <4>2. QED
          BY <2>1, <3>3, <4>1 DEF Leased, Pending, Local
      <3>4. QED
        BY <3>1, <3>2, <3>3
    <2>2. OneBuildPerCandidate'
      BY <1>3 DEF OneBuildPerCandidate, LeaseInv, Local
    <2>3. QED
      BY <1>3, <2>1, <2>2
  <1>4. QED
    BY <1>1, <1>2, <1>3 DEF LeaseInv, Prompt

\* The steps that leave leases and candidates alone, and do not start to compile.
LEMMA QuietStep ==
    ASSUME LeaseInv, TypeOK', NEW r \in Requests, Local(r), UNCHANGED <<cand, lease>>,
           pc'[r] # "compile", Timing(r)', NEW c \in Candidates, c = call[r].candidate,
           \/ ~Pending(c)
           \/ lease[c].holder # r
           \/ pc'[r] \in {"pass", "fail"}
           \/ answer'[r] = "lost"
    PROVE  LeaseInv'
  <1> DEFINE h == lease[c].holder
  <1>1. c \in Candidates /\ Holding(c) /\ call' = call
    BY DEF LeaseInv, Local
  <1>2. h # r => (pc'[h] = pc[h] /\ answer'[h] = answer[h]) \/ h = None
    BY <1>1 DEF LeaseInv, TypeOK, Lease, Local
  <1>3. pc'[r] # "idle"
    BY DEF Local, Steps
  <1>4. Holding(c)'
    <2>1. CASE h = r
      BY <1>1, <1>3, <2>1 DEF Holding, Pending
    <2>2. CASE h # r
      BY <1>1, <1>2, <2>2 DEF Holding, Pending
    <2>3. QED
      BY <2>1, <2>2
  <1>5. ASSUME Prompt
        PROVE  /\ Leased(r)'
               /\ \A q \in Requests \ {r} :
                      call[q].candidate = c /\ pc[q] = "compile" =>
                          pc'[r] # "compile" /\ Leased(q)'
    BY <1>1, <1>5 DEF LeaseInv, Leased, Pending, Local
  <1>6. QED
    BY <1>4, <1>5, LocalInv
\* A claim is granted when nobody else builds the candidate.
LEMMA ClaimStep == ASSUME LeaseInv, TypeOK', NEW r \in Requests, ClaimCompilation(r) PROVE LeaseInv'
  <1> DEFINE c == call[r].candidate
  <1> USE BoundAssumption
  <1>1. Local(r) /\ c \in Candidates /\ TypeOK /\ call' = call /\ UNCHANGED cand
          /\ pc[r] = "claim" /\ timer[r] \in 0..ClaimDelay
    <2>1. Local(r) /\ TypeOK
      BY StepIsLocal DEF Step, LeaseInv
    <2>2. timer[r] \in 0..ClaimDelay
      BY DEF LeaseInv, Timing, TypeOK, ClaimCompilation
    <2>3. QED
      BY <2>1, <2>2 DEF Local, ClaimCompilation
  <1>2. CASE Pending(c) /\ Claimable(c, timer[r])
    <2>1. /\ lease' = [lease EXCEPT ![c] = [holder |-> r, left |-> LeaseDuration - timer[r]]]
          /\ pc'[r] = "compile" /\ timer'[r] = 0 /\ answer' = answer
      BY <1>1, <1>2 DEF ClaimCompilation, Goto, TypeOK
    <2>2. lease'[c].holder = r /\ lease'[c].left = LeaseDuration - timer[r]
      BY <1>1, <2>1 DEF TypeOK
    <2>3. Timing(r)'
      BY <1>1, <2>1 DEF Timing, LeaseInv
    <2>4. Holding(c)'
      BY <1>1, <1>2, <2>1, <2>2 DEF Holding, Pending
    <2>5. Leased(r)'
      BY <1>1, <2>1, <2>2, LeaseRange DEF Leased
    <2>6. ASSUME Prompt, NEW q \in Requests, call[q].candidate = c, pc[q] = "compile"
          PROVE  FALSE
      <3>1. /\ lease[c].holder = q
            /\ lease[c].left + timer[q] >= LeaseDuration - ClaimDelay
            /\ timer[q] <= CompileTimeout
        BY <1>2, <2>6 DEF LeaseInv, Leased, Timing
      <3>2. timer[q] \in Int /\ timer[r] \in Int /\ lease[c].left \in Int
        BY <1>1 DEF TypeOK, Lease
      <3>3. ~Expired(c, timer[r])
        BY <1>1, <2>6, <3>1, <3>2 DEF Expired, LeaseDuration, Prompt
      <3>4. lease[c].holder # None
        BY <2>6, <3>1, NullAssumption
      <3>5. QED
        BY <1>2, <3>3, <3>4 DEF Claimable
    <2>7. QED
      BY <1>1, <2>3, <2>4, <2>5, <2>6, LocalInv
  <1>3. CASE ~ (Pending(c) /\ Claimable(c, timer[r]))
    <2>1. \E code \in {"compile_in_progress", "candidate_invalid"} : Reply(r, code)
      BY <1>3 DEF ClaimCompilation
    <2>2. pc'[r] = "done" /\ timer'[r] = 0 /\ UNCHANGED lease
      BY <1>1, <1>3, <2>1 DEF ClaimCompilation, Reply, TypeOK
    <2>3. Timing(r)'
      BY <1>1, <2>2 DEF Timing, LeaseInv
    <2>4. ~Pending(c) \/ lease[c].holder # r
      BY <1>1, NullAssumption DEF LeaseInv, Holding, Timing
    <2>5. QED
      BY <1>1, <2>2, <2>3, <2>4, QuietStep
  <1>4. QED
    BY <1>2, <1>3

\* A request that records gives its own lease back, or another has it by now.
LEMMA ReleaseStep ==
    ASSUME LeaseInv, TypeOK', NEW r \in Requests, Local(r), UNCHANGED cand,
           pc[r] \in {"pass", "fail"}, pc'[r] \notin {"claim", "compile"}, Timing(r)',
           NEW c \in Candidates, c = call[r].candidate, HoldsLease(r), lease' = Release(c)
    PROVE  LeaseInv'
  <1>1. lease[c].holder = r /\ lease'[c].holder = None
    BY DEF HoldsLease, Release, NoLease, LeaseInv, TypeOK
  <1>2. Holding(c)'
    BY <1>1 DEF Holding
  <1>3. ASSUME Prompt
        PROVE  /\ Leased(r)'
               /\ \A q \in Requests \ {r} :
                      call[q].candidate = c /\ pc[q] = "compile" =>
                          pc'[r] # "compile" /\ Leased(q)'
    BY <1>1, <1>3 DEF LeaseInv, Leased, Pending, Local
  <1>4. QED
    BY <1>2, <1>3, LocalInv
\* A candidate that is decided is nobody's to build: its lease does not matter any more.
LEMMA DecideStep ==
    ASSUME LeaseInv, TypeOK', NEW r \in Requests, Local(r), UNCHANGED lease,
           pc'[r] = "done", Timing(r)', NEW c \in Candidates, c = call[r].candidate,
           cand[c].status = "pending", cand'[c].status \in {"rejected", "committed"}
    PROVE  LeaseInv'
  <1> DEFINE h == lease[c].holder
  <1>1. Holding(c) /\ call' = call
    BY DEF LeaseInv, Local
  <1>2. h # r => pc'[h] = pc[h] \/ h = None
    BY <1>1 DEF LeaseInv, TypeOK, Lease, Local
  <1>3. Holding(c)'
    <2>1. CASE h = r
      BY <1>1, <2>1 DEF Holding, Pending
    <2>2. CASE h # r
      BY <1>1, <1>2, <2>2 DEF Holding, Pending
    <2>3. QED
      BY <2>1, <2>2
  <1>4. ASSUME Prompt
        PROVE  /\ Leased(r)'
               /\ \A q \in Requests \ {r} :
                      call[q].candidate = c /\ pc[q] = "compile" =>
                          pc'[r] # "compile" /\ Leased(q)'
    BY <1>1 DEF Leased, Pending
  <1>5. QED
    BY <1>3, <1>4, LocalInv

LEMMA HandlerStep == ASSUME LeaseInv, TypeOK', NEW r \in Requests, Step(r) PROVE LeaseInv'
  <1> DEFINE c == call[r].candidate
  <1> USE BoundAssumption
  <1>1. Local(r) /\ c \in Candidates /\ TypeOK /\ call' = call /\ Timing(r) /\ Holding(c)
    BY StepIsLocal DEF LeaseInv, Local
  <1>2. cand[c].status # "absent" /\ cand'[c].status # "absent"
    BY <1>1 DEF Timing, Local, Steps
  \* Whoever has ended, or has left compiling, has a clock at rest.
  <1>r. ASSUME NEW code \in Codes, Reply(r, code)
        PROVE  Timing(r)' /\ pc'[r] = "done"
    BY <1>1, <1>2, <1>r DEF Timing, Reply, TypeOK
  <1>g. ASSUME NEW step \in Steps \ {"compile"}, Goto(r, step), timer'[r] = 0, answer'[r] # "lost"
        PROVE  Timing(r)' /\ pc'[r] = step
    BY <1>1, <1>2, <1>g DEF Timing, Goto, TypeOK, Steps
  <1>3. answer[r] # "lost" /\ (pc[r] \notin {"claim", "compile"} => timer[r] = 0)
    BY <1>1 DEF Timing, Local, Steps
  <1>4. pc[r] \notin {"compile", "pass", "fail"} => ~Pending(c) \/ lease[c].holder # r
    BY <1>1, <1>3, NullAssumption DEF Holding
  <1> USE DEF storeVars, Steps, Codes, Failures
  <1>5. CASE LoadCandidate(r)
    <2>1. Timing(r)' /\ pc'[r] # "compile"
      BY <1>3, <1>5, <1>r, <1>g DEF LoadCandidate
    <2>2. QED
      BY <1>1, <1>4, <1>5, <2>1, QuietStep DEF LoadCandidate
  <1>6. CASE FindVerification(r)
    <2>1. Timing(r)' /\ pc'[r] # "compile"
      BY <1>3, <1>6, <1>r, <1>g DEF FindVerification
    <2>2. QED
      BY <1>1, <1>4, <1>6, <2>1, QuietStep DEF FindVerification
  <1>7. CASE VerifyArtifact(r)
    <2>1. Timing(r)' /\ pc'[r] # "compile"
      BY <1>3, <1>7, <1>r, <1>g DEF VerifyArtifact
    <2>2. QED
      BY <1>1, <1>4, <1>7, <2>1, QuietStep DEF VerifyArtifact
  <1>8. CASE ClaimCompilation(r)
    BY <1>8, ClaimStep
  <1>9. CASE Compile(r)
    <2>1. PICK step \in {"pass", "fail"} : Goto(r, step)
      BY <1>9 DEF Compile
    <2>2. timer'[r] = 0 /\ answer'[r] # "lost" /\ UNCHANGED <<cand, lease>>
      BY <1>1, <1>3, <1>9 DEF Compile, TypeOK
    <2>3. Timing(r)' /\ pc'[r] = step
      BY <2>1, <2>2, <1>g
    <2>4. QED
      BY <1>1, <2>2, <2>3, QuietStep
  <1>10. CASE RecordVerification(r)
    <2>1. CASE HoldsLease(r) /\ Recorded(r) # None
      <3>1. /\ lease' = Release(c) /\ pc[r] = "pass" /\ UNCHANGED <<cand, answer, timer>>
            /\ Goto(r, "commit")
        BY <1>10, <2>1 DEF RecordVerification
      <3>2. Timing(r)' /\ pc'[r] = "commit"
        BY <1>3, <3>1, <1>g
      <3>3. QED
        BY <1>1, <2>1, <3>1, <3>2, ReleaseStep
    <2>2. CASE ~ (HoldsLease(r) /\ Recorded(r) # None)
      <3>1. Reply(r, "candidate_invalid") /\ UNCHANGED <<cand, lease>>
        BY <1>10, <2>2 DEF RecordVerification
      <3>2. ~Pending(c) \/ lease[c].holder # r
        BY <2>2, NullAssumption DEF Recorded, HoldsLease
      <3>3. Timing(r)' /\ pc'[r] = "done"
        BY <3>1, <1>r
      <3>4. QED
        BY <1>1, <3>1, <3>2, <3>3, QuietStep
    <2>3. QED
      BY <2>1, <2>2
  <1>11. CASE RecordBuildFailure(r)
    <2>0. answer[r] \in Codes
      BY <1>1, <1>11 DEF RecordBuildFailure, TypeOK
    <2>1. CASE FailureCounts(r)
      <3>1. lease' = Release(c) /\ pc[r] = "fail" /\ UNCHANGED cand /\ Reply(r, answer[r])
        BY <1>11, <2>1 DEF RecordBuildFailure
      <3>2. Timing(r)' /\ pc'[r] = "done"
        BY <2>0, <3>1, <1>r
      <3>3. QED
        BY <1>1, <2>1, <3>1, <3>2, ReleaseStep DEF FailureCounts
    <2>2. CASE ~FailureCounts(r)
      <3>1. Reply(r, "candidate_invalid") /\ UNCHANGED <<cand, lease>>
        BY <1>11, <2>2 DEF RecordBuildFailure
      <3>2. Timing(r)' /\ pc'[r] = "done"
        BY <3>1, <1>r
      <3>3. QED
        BY <1>1, <2>2, <3>1, <3>2, QuietStep DEF FailureCounts, HoldsLease
    <2>3. QED
      BY <2>1, <2>2
  <1>12. CASE CommitForbidden(r) \/ CommitDecided(r) \/ CommitRefused(r)
    <2>1. pc[r] = "commit" /\ UNCHANGED <<cand, lease>> /\ \E code \in Codes : Reply(r, code)
      BY <1>12 DEF CommitForbidden, CommitDecided, CommitRefused
    <2>2. Timing(r)' /\ pc'[r] = "done"
      BY <2>1, <1>r
    <2>3. QED
      BY <1>1, <1>4, <2>1, <2>2, QuietStep
  <1>13. CASE CommitConflict(r) \/ CommitVersion(r)
    <2>1. /\ UNCHANGED lease /\ Pending(c) /\ \E code \in Codes : Reply(r, code)
          /\ \E status \in {"rejected", "committed"} : cand' = [cand EXCEPT ![c].status = status]
      BY <1>13 DEF CommitConflict, CommitVersion, ReadyToCommit
    <2>2. cand'[c].status \in {"rejected", "committed"}
      BY <1>1, <2>1 DEF TypeOK, Row
    <2>3. Timing(r)' /\ pc'[r] = "done"
      BY <2>1, <1>r
    <2>4. QED
      BY <1>1, <2>1, <2>2, <2>3, DecideStep DEF Pending
  <1>14. QED
    BY <1>5, <1>6, <1>7, <1>8, <1>9, <1>10, <1>11, <1>12, <1>13 DEF Step, CommitCandidate
\* A new candidate comes without a lease, and those it replaces lose theirs.
LEMMA InsertStep ==
    ASSUME LeaseInv, TypeOK', NEW c \in Candidates, NEW row, NEW gone \in SUBSET Candidates,
           Insert(c, row, gone), row.status = "pending", \A d \in gone : Pending(d),
           UNCHANGED requestVars
    PROVE  LeaseInv'
  <1>1. /\ cand[c].status = "absent" /\ cand'[c].status = "pending" /\ lease'[c] = lease[c]
        /\ UNCHANGED <<pc, call, timer, answer>>
    BY DEF Insert, Pending, requestVars
  <1>2. \A d \in gone : /\ lease'[d].holder = None /\ cand'[d].status = "rejected" /\ d # c
                       /\ cand[d].status = "pending"
    <2>1. \A d \in gone : cand[d] \in Row
      BY DEF LeaseInv, TypeOK
    <2>2. QED
      BY <1>1, <2>1 DEF Insert, Pending, NoLease, Row
  <1>3. \A d \in Candidates : d # c /\ d \notin gone => cand'[d] = cand[d] /\ lease'[d] = lease[d]
    BY DEF Insert
  <1>4. ASSUME NEW r \in Requests
        PROVE  Timing(r)'
    <2>1. Timing(r) /\ (pc[r] # "idle" => call[r].candidate \in Candidates)
      BY DEF LeaseInv, TypeOK, Call
    <2>2. pc[r] # "idle" => cand'[call[r].candidate].status # "absent"
      BY <1>1, <1>2, <1>3, <2>1 DEF Timing
    <2>3. QED
      BY <1>1, <2>1, <2>2 DEF Timing
  <1>5. ASSUME NEW d \in Candidates
        PROVE  Holding(d)'
    <2>1. Holding(d)
      BY DEF LeaseInv
    <2>2. CASE d \in gone
      BY <1>2, <2>2 DEF Holding
    <2>3. CASE d = c
      BY <1>1, <2>1, <2>3 DEF Holding
    <2>4. CASE d # c /\ d \notin gone
      BY <1>1, <1>3, <2>1, <2>4 DEF Holding, Pending
    <2>5. QED
      BY <2>2, <2>3, <2>4
  <1>6. ASSUME Prompt, NEW r \in Requests
        PROVE  Leased(r)'
    <2>1. CASE pc[r] = "compile"
      <3>1. Leased(r) /\ call[r].candidate \in Candidates /\ call[r].candidate # c
        BY <1>1, <1>6, <2>1 DEF LeaseInv, TypeOK, Call, Timing
      <3>2. QED
        BY <1>1, <1>2, <1>3, <3>1 DEF Leased, Pending
    <2>2. CASE pc[r] # "compile"
      BY <1>1, <2>2 DEF Leased
    <2>3. QED
      BY <2>1, <2>2
  <1>7. Prompt => OneBuildPerCandidate'
    BY <1>1 DEF LeaseInv, OneBuildPerCandidate
  <1>8. QED
    BY <1>4, <1>5, <1>6, <1>7 DEF LeaseInv, Prompt

\* Requests that are cut off, or are only called now: no candidate or lease changes.
LEMMA CutOffStep ==
    ASSUME LeaseInv, TypeOK', UNCHANGED <<cand, lease>>, \A r \in Requests : Timing(r)',
           \A r \in Requests :
               \/ /\ pc'[r] = pc[r] /\ answer'[r] = answer[r] /\ call'[r] = call[r]
                  /\ timer'[r] = timer[r]
               \/ pc[r] \in Steps /\ pc'[r] = "done" /\ answer'[r] = "lost" /\ call'[r] = call[r]
               \/ pc[r] = "idle" /\ pc'[r] = "load"
    PROVE  LeaseInv'
  <1>1. ASSUME NEW c \in Candidates
        PROVE  Holding(c)'
    <2>1. Holding(c) /\ (lease[c].holder # None => lease[c].holder \in Requests)
      BY DEF LeaseInv, TypeOK, Lease
    <2>2. QED
      BY <2>1 DEF Holding, Pending, Steps
  <1>2. Prompt => \A r \in Requests : Leased(r)'
    BY DEF LeaseInv, Leased, Pending
  <1>3. Prompt => OneBuildPerCandidate'
    BY DEF LeaseInv, OneBuildPerCandidate
  <1>4. QED
    BY <1>1, <1>2, <1>3 DEF LeaseInv, Prompt

\* Time takes as much from a lease as it adds to the build under it.
LEMMA TickStep == ASSUME LeaseInv, TypeOK', Tick PROVE LeaseInv'
  <1> USE BoundAssumption
  <1>1. UNCHANGED <<cand, pc, call, answer>> /\ TypeOK
    BY DEF Tick, LeaseInv
  <1>2. ASSUME NEW r \in Requests
        PROVE  /\ Timing(r)'
               /\ timer'[r] = IF pc[r] \in {"claim", "compile"} THEN timer[r] + 1 ELSE timer[r]
               /\ timer[r] \in Int
    <2>1. /\ timer[r] \in Int /\ Timing(r) /\ InTime(r)
          /\ timer'[r] = IF pc[r] \in {"claim", "compile"} THEN timer[r] + 1 ELSE timer[r]
      BY DEF Tick, LeaseInv, TypeOK
    <2>2. QED
      BY <1>1, <2>1 DEF Timing, InTime
  <1>3. ASSUME NEW c \in Candidates
        PROVE  /\ lease'[c].holder = lease[c].holder
               /\ lease[c].left \in Int /\ lease'[c].left \in Int
               /\ lease'[c].left >= lease[c].left - 1
    <2>1. lease[c] \in Lease
      BY <1>1 DEF TypeOK
    <2>2. lease'[c] = IF lease[c].holder # None /\ lease[c].left > -ClaimDelay
                      THEN [lease[c] EXCEPT !.left = @ - 1] ELSE lease[c]
      BY DEF Tick
    <2>3. QED
      BY <2>1, <2>2 DEF Lease
  <1>4. \A c \in Candidates : Holding(c)'
    BY <1>1, <1>3 DEF LeaseInv, Holding, Pending
  <1>5. ASSUME Prompt, NEW r \in Requests, pc[r] = "compile", Pending(call[r].candidate)
        PROVE  Leased(r)'
    <2> DEFINE c == call[r].candidate
    <2>1. c \in Candidates
      BY <1>1, <1>5 DEF TypeOK, Call
    <2>2. lease[c].holder = r /\ lease[c].left + timer[r] >= LeaseDuration - ClaimDelay
      BY <1>5 DEF LeaseInv, Leased
    <2>3. lease'[c].left + timer'[r] >= lease[c].left + timer[r]
      BY <1>2, <1>3, <1>5, <2>1
    <2>4. timer'[r] \in Int /\ timer[r] \in Int
      BY <1>2, <1>5
    <2>5. lease'[c].left + timer'[r] >= LeaseDuration - ClaimDelay
      BY <1>3, <2>1, <2>2, <2>3, <2>4, LeaseRange
    <2>6. QED
      BY <1>1, <1>3, <2>1, <2>2, <2>5 DEF Leased
  <1>6. Prompt => \A r \in Requests : Leased(r)'
    BY <1>1, <1>5 DEF Leased, Pending
  <1>7. Prompt => OneBuildPerCandidate'
    BY <1>1 DEF LeaseInv, OneBuildPerCandidate
  <1>8. QED
    BY <1>2, <1>4, <1>6, <1>7 DEF LeaseInv, Prompt

LEMMA LeaseInit == Init => LeaseInv
  <1> SUFFICES ASSUME Init PROVE LeaseInv
    OBVIOUS
  <1>1. \A r \in Requests : Timing(r) /\ Leased(r)
    BY DEF Init, Timing, Leased
  <1>2. \A c \in Candidates : Holding(c)
    BY DEF Init, Holding, NoLease
  <1>3. OneBuildPerCandidate
    BY DEF Init, OneBuildPerCandidate
  <1>4. QED
    BY <1>1, <1>2, <1>3, TypeInit DEF LeaseInv

LEMMA LeaseStep == LeaseInv /\ [Next]_vars => LeaseInv'
  <1> SUFFICES ASSUME LeaseInv, [Next]_vars PROVE LeaseInv'
    OBVIOUS
  <1>1. TypeOK /\ TypeOK'
    BY TypeStep DEF LeaseInv
  <1>2. ASSUME NEW a \in Accounts, NEW c \in Candidates, NEW kind \in {"build", "race"},
               NEW s \in Snapshots, StoreCandidate(a, c, kind, s)
        PROVE  LeaseInv'
    <2>1. Superseded(a, kind) \in SUBSET Candidates
      BY DEF Superseded, PendingOf
    <2>2. QED
      BY <1>1, <1>2, <2>1, InsertStep, SupersededPending DEF StoreCandidate
  <1>3. ASSUME NEW a \in Accounts, NEW c \in Candidates, NEW v \in 1..Len(versions),
               RestageVersion(a, v, c)
        PROVE  LeaseInv'
    <2>1. PendingOf(a) \in SUBSET Candidates
      BY DEF PendingOf
    <2>2. QED
      BY <1>1, <1>3, <2>1, InsertStep, SupersededPending DEF RestageVersion
  <1>4. ASSUME NEW r \in Requests, NEW a \in Accounts, NEW c \in Candidates,
               NEW p \in 0..Len(versions), Submit(r, a, c, p)
        PROVE  LeaseInv'
    <2>1. /\ pc[r] = "idle" /\ pc'[r] = "load" /\ call'[r].candidate = c
          /\ cand[c].status # "absent" /\ UNCHANGED <<cand, lease, timer, answer>>
          /\ \A q \in Requests : q # r => pc'[q] = pc[q] /\ call'[q] = call[q]
      BY <1>1, <1>4 DEF Submit, Goto, TypeOK, storeVars
    <2>2. \A q \in Requests : Timing(q)'
      BY <2>1 DEF LeaseInv, Timing
    <2>3. QED
      BY <1>1, <2>1, <2>2, CutOffStep
  <1>5. ASSUME NEW r \in Requests, Step(r)
        PROVE  LeaseInv'
    BY <1>1, <1>5, HandlerStep
  <1>6. ASSUME NEW r \in Requests, Disconnect(r)
        PROVE  LeaseInv'
    <2>1. /\ pc[r] \in Steps /\ pc'[r] = "done" /\ answer'[r] = "lost" /\ timer'[r] = 0
          /\ UNCHANGED <<cand, lease, call>>
          /\ \A q \in Requests : q # r =>
                 pc'[q] = pc[q] /\ answer'[q] = answer[q] /\ timer'[q] = timer[q]
      BY <1>1, <1>6 DEF Disconnect, Reply, TypeOK, storeVars
    <2>2. \A q \in Requests : Timing(q)'
      BY <2>1 DEF LeaseInv, Timing, Steps
    <2>3. QED
      BY <1>1, <2>1, <2>2, CutOffStep
  <1>7. CASE Restart
    <2>1. \A q \in Requests :
              /\ pc'[q] = IF pc[q] \in Steps THEN "done" ELSE pc[q]
              /\ answer'[q] = IF pc[q] \in Steps THEN "lost" ELSE answer[q]
              /\ timer'[q] = 0
      BY <1>7 DEF Restart
    <2>2. UNCHANGED <<cand, lease, call>>
      BY <1>7 DEF Restart, storeVars
    <2>3. \A q \in Requests : Timing(q)'
      BY <2>1, <2>2 DEF LeaseInv, Timing, Steps
    <2>4. \A q \in Requests : pc[q] \notin Steps => timer'[q] = timer[q]
      BY <2>1 DEF LeaseInv, Timing, Steps
    <2>5. QED
      BY <1>1, <2>1, <2>2, <2>3, <2>4, CutOffStep
  <1>8. CASE Tick
    BY <1>1, <1>8, TickStep
  <1>9. CASE RegisterProject \/ (\E a \in Accounts : ChangeMembership(a)) \/ UNCHANGED vars
    <2>1. UNCHANGED <<cand, lease, pc, call, timer, answer>>
      BY <1>9 DEF RegisterProject, ChangeMembership, vars, storeVars, requestVars
    <2>2. \A q \in Requests : Timing(q)'
      BY <2>1 DEF LeaseInv, Timing
    <2>3. QED
      BY <1>1, <2>1, <2>2, CutOffStep
  <1>10. QED
    BY <1>2, <1>3, <1>4, <1>5, <1>6, <1>7, <1>8, <1>9 DEF Next
LEMMA LeaseInvariance == Spec => []LeaseInv
  BY LeaseInit, LeaseStep, PTL DEF Spec

\* A lease on a pending candidate is held by a request that builds it or was cut off,
\* however the builds, restarts and newer candidates interleave.
THEOREM LeasesDoNotLeak == Spec => []NoLeakedLease
  <1>1. LeaseInv => NoLeakedLease
    BY DEF LeaseInv, Holding, NoLeakedLease
  <1>2. QED
    BY <1>1, LeaseInvariance, PTL

\* Two requests never build one candidate at a time, provided that the clock of a claim
\* is read less than the lease margin before it: a lease then outlasts every build.
THEOREM BuildsDoNotOverlap ==
    ASSUME Prompt
    PROVE  Spec => []OneBuildPerCandidate
  <1>1. LeaseInv => OneBuildPerCandidate
    BY DEF LeaseInv
  <1>2. QED
    BY <1>1, LeaseInvariance, PTL

\* Evidence enters only under the lease its request still holds.
THEOREM EvidenceIsFenced == Spec => EvidenceFenced
  <1>1. [Next]_vars => [\A t \in attempts' \ attempts : lease[t.candidate].holder = t.request]_vars
    <2> SUFFICES ASSUME [Next]_vars, attempts' # attempts
                 PROVE  \A t \in attempts' \ attempts : lease[t.candidate].holder = t.request
      BY DEF vars, storeVars
    <2>1. PICK r \in Requests : RecordVerification(r) \/ RecordBuildFailure(r)
      BY DEF Next, Step, StoreCandidate, RestageVersion, Submit, LoadCandidate, FindVerification,
             VerifyArtifact, ClaimCompilation, Compile, CommitCandidate, CommitForbidden,
             CommitDecided, CommitRefused, CommitConflict, CommitVersion, Disconnect, Restart,
             RegisterProject, ChangeMembership, Tick, vars, storeVars
    <2>2. HoldsLease(r) /\ \E code : attempts' = attempts \cup
              {[request |-> r, candidate |-> call[r].candidate, code |-> code]}
      BY <2>1 DEF RecordVerification, RecordBuildFailure, FailureCounts
    <2>3. QED
      BY <2>2 DEF HoldsLease
  <1>2. QED
    BY <1>1, PTL DEF Spec, EvidenceFenced

\* What becomes a version is accepted by the policy that runs when it does, not only by
\* the one it was stored or built under.
THEOREM CommitsAreSafe == Spec => SafeAtCommit
  <1>1. TypeOK /\ [Next]_vars =>
            [Len(versions') > Len(versions) =>
                 Accepts(policy, versions'[Len(versions')].snapshot)]_vars
    <2> SUFFICES ASSUME TypeOK, [Next]_vars, Len(versions') > Len(versions)
                 PROVE  Accepts(policy, versions'[Len(versions')].snapshot)
      OBVIOUS
    <2>1. versions' # versions
      BY DEF TypeOK
    <2>2. PICK r \in Requests : CommitVersion(r)
      BY <2>1 DEF Next, Step, StoreCandidate, RestageVersion, Submit, LoadCandidate,
             FindVerification, VerifyArtifact, ClaimCompilation, Compile, RecordVerification,
             RecordBuildFailure, CommitCandidate, CommitForbidden, CommitDecided, CommitRefused,
             CommitConflict, Disconnect, Restart, RegisterProject, ChangeMembership, Tick, vars,
             storeVars
    <2>3. /\ versions'[Len(versions')].snapshot = cand[call[r].candidate].snapshot
          /\ Safe(call[r].candidate)
      BY <2>2 DEF CommitVersion, TypeOK
    <2>4. QED
      BY <2>3 DEF Safe
  <1>2. QED
    BY <1>1, TypeCorrect, PTL DEF Spec, SafeAtCommit

-----------------------------------------------------------------------------
(* A new candidate takes the place of the account's older ones.            *)

\* A candidate that is inserted is the only pending one of its account outside a race.
LEMMA InsertCurrent ==
    ASSUME TypeOK, OneCurrentBuild, NEW c \in Candidates, NEW row,
           NEW gone \in SUBSET Candidates, Insert(c, row, gone),
           row.kind = "race" \/ gone = PendingOf(row.owner)
    PROVE  OneCurrentBuild'
  <1>1. cand'[c] = row /\ ~Pending(c)
    BY DEF Insert, Pending
  <1>2. \A d \in gone : d # c => cand'[d].status = "rejected"
    BY DEF Insert, TypeOK, Row
  <1>3. \A d \in Candidates : d # c /\ d \notin gone => cand'[d] = cand[d]
    BY DEF Insert
  <1> SUFFICES ASSUME NEW d \in Candidates, NEW e \in Candidates, d # e,
                      Pending(d)', Pending(e)', cand'[d].kind # "race", cand'[e].kind # "race",
                      cand'[d].owner = cand'[e].owner
               PROVE  FALSE
    BY DEF OneCurrentBuild
  <1>4. CASE d # c /\ e # c
    <2>1. cand'[d] = cand[d] /\ cand'[e] = cand[e]
      BY <1>2, <1>3, <1>4 DEF Pending
    <2>2. QED
      BY <2>1 DEF OneCurrentBuild, Pending
  <1>5. ASSUME NEW o \in Candidates, o # c, Pending(o)', cand'[o].owner = row.owner,
               row.kind # "race"
        PROVE  FALSE
    <2>1. cand'[o] = cand[o] /\ o \notin gone
      BY <1>2, <1>3, <1>5 DEF Pending
    <2>2. o \in PendingOf(row.owner)
      BY <1>5, <2>1 DEF PendingOf, Pending
    <2>3. QED
      BY <1>5, <2>1, <2>2
  <1>6. QED
    BY <1>1, <1>4, <1>5

LEMMA CurrentStep == TypeOK /\ OneCurrentBuild /\ [Next]_vars => OneCurrentBuild'
  <1> SUFFICES ASSUME TypeOK, OneCurrentBuild, [Next]_vars PROVE OneCurrentBuild'
    OBVIOUS
  <1>1. ASSUME NEW a \in Accounts, NEW c \in Candidates, NEW kind \in {"build", "race"},
               NEW s \in Snapshots, StoreCandidate(a, c, kind, s)
        PROVE  OneCurrentBuild'
    <2> DEFINE row == [status |-> "pending", owner |-> a, kind |-> kind, source |-> 0,
                       snapshot |-> s, policy |-> policy]
    <2>1. Superseded(a, kind) \in SUBSET Candidates /\ Insert(c, row, Superseded(a, kind))
      BY <1>1 DEF Superseded, PendingOf, StoreCandidate
    <2>2. row.kind = "race" \/ Superseded(a, kind) = PendingOf(row.owner)
      BY DEF Superseded
    <2>3. QED
      BY <2>1, <2>2, InsertCurrent
  <1>2. ASSUME NEW a \in Accounts, NEW c \in Candidates, NEW v \in 1..Len(versions),
               RestageVersion(a, v, c)
        PROVE  OneCurrentBuild'
    <2> DEFINE row == [status |-> "pending", owner |-> a, kind |-> "restore", source |-> v,
                       snapshot |-> versions[v].snapshot, policy |-> policy]
    <2>1. PendingOf(a) \in SUBSET Candidates /\ Insert(c, row, PendingOf(a)) /\ row.owner = a
      BY <1>2 DEF PendingOf, RestageVersion
    <2>2. QED
      BY <2>1, InsertCurrent
  <1>3. ASSUME UNCHANGED cand
        PROVE  OneCurrentBuild'
    BY <1>3 DEF OneCurrentBuild, Pending
  <1>4. ASSUME NEW r \in Requests, Step(r)
        PROVE  OneCurrentBuild'
    <2>1. Local(r)
      BY <1>4, StepIsLocal
    <2>2. \A d \in Candidates : Pending(d)' => cand'[d] = cand[d]
      BY <2>1 DEF Local, Pending
    <2>3. QED
      BY <2>2 DEF OneCurrentBuild, Pending
  <1>5. QED
    BY <1>1, <1>2, <1>3, <1>4
       DEF Next, Submit, Disconnect, Restart, RegisterProject, ChangeMembership, Tick,
           vars, storeVars

\* An account has at most one candidate that waits to be committed, besides those of its
\* races, whoever builds or restages at the same time.
THEOREM BuildsAreCurrent == Spec => []OneCurrentBuild
  <1>1. Init => OneCurrentBuild
    BY DEF Init, OneCurrentBuild, Pending, NoRow
  <1>2. QED
    BY <1>1, CurrentStep, TypeCorrect, PTL DEF Spec
=============================================================================
