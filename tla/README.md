# Vivatom: a TLA+ verification project

Vivatom's backend lets the members of a workspace have an AI agent plan and build small
web projects. A run costs credits and leaves *candidates* (generated source snapshots);
a candidate that compiles may be *committed* and becomes an immutable *version* of its
project; a version may be served as a preview, and may have a provisioned backend whose
users keep records. This directory holds the TLA+ model of that system: what its parts
promise to each other when requests overlap, clients leave, calls fail, leases expire and
processes restart, checked with TLC on small instances and, for the parts that hold the
durable state, proved with TLAPS for all instances.

Paths below are relative to the repository. `PROJECT.json` maps every definition to the
lines it translates.

## 1. The system

A Go server (`cmd/api`, `internal/`) keeps everything in one SQLite database, opened with
a single connection (`database.go`: `SetMaxOpenConns(1)`), and uses a Node process
(`build-worker/server.mjs`) to compile snapshots and to keep and serve what was compiled.

| Component | Code | State | Operations | Talks to |
|---|---|---|---|---|
| commit path | `usage/service.go`, `usage_repository.go` | candidates, safety verifications, compile leases, build attempts, build verifications, versions, the project's active version | store, restage, load, find verification, claim, compile, record, commit | build worker (HTTP), memberships (in each transaction) |
| agent usage | `usage/service.go`, `usage_repository.go` | usage rows (credits), plan approvals, audit rows | reserve, reserve an approved plan, approve, the run's goroutine, complete, recover | orchestrator (channel), handler (channel), commit path (`StoreCandidate`) |
| orchestrator and stream | `agent/orchestrator.go`, `usage/service.go`, `httpapi/agent.go` | goroutines, unbuffered channels, the request's context | plan, build, race, iterate/repair/polish; forward, check, store, close; write to the client | provider, usage repository |
| catalog | `catalog/service.go`, `catalog_repository.go` | project metadata, one document with a revision per project | synchronise, read, save | versions (trust check) |
| team | `team/service.go`, `team_repository.go` | memberships, invitations | invite, accept, change role, remove, leave | everything else reads memberships |
| identity | `identity/service.go`, `identity_repository.go` | accounts, sessions | register, log in, log out, authenticate | every request |
| application runtime | `runtime/service.go`, `runtime_repository.go` | provisioned schema and its version, application users, records | provision, register, log in, create/read/update/delete records | - |
| build worker | `build-worker/server.mjs` | slots, workspaces, child processes, artifact store, manifest cache | compile, verify, serve, clean | the commit path calls it |
| AI client | `ai/` | the calls under way | call a model with retries and timeouts, parse its answer; make an answer from a template | orchestrator |
| guards and hashing | `generation/`, `domain/` | none | check a snapshot, a plan, a contract; hash a snapshot | stream, commit path |
| HTTP API | `httpapi/` | the rate limiter's windows | decode, authenticate, limit, answer | all services |
| audit log | `audit/`, `audit_repository.go` | audit rows | append (in others' transactions), page | - |
| process | `cmd/api/main.go`, `database.go`, `appconfig/` | the schema of the database | migrate, recover interrupted runs, serve, shut down | all |

### What is hard

* **Checks before a transaction.** Services read, decide, and write later in another
  transaction: a commit loads, builds for minutes and only then commits
  (`service.go` `CommitCandidate`); a save compares its versions with the document it
  read (`catalog/service.go`); a record is validated against the schema its request found
  (`runtime/service.go`). What makes each sound, where it is, is a condition of the last
  statement, and it is rarely the condition that was checked.
* **Leases.** A build holds a lease of its candidate that may expire, be taken over, or
  vanish with its candidate, and whoever recorded late must not harm.
* **Lost answers.** A commit, a save or a provisioning is repeated by a client that never
  heard of its success.
* **Goroutines and channels.** Three or more goroutines per run, joined by unbuffered
  channels, each with a `select` that takes either branch when both are ready.
* **Crashes.** The server restarts with another safety policy, in the middle of runs, or
  in the middle of a schema migration, whose statements are transactions of their own;
  the worker restarts in the middle of builds.
* **Timeouts inside timeouts.** A call of a model is several requests with a timeout each,
  within a connection that may be written to only so long.
* **Sessions.** A token is resolved in one transaction and used in another, and its expiry
  is a comparison of texts.
* **Limits.** Credits, records per collection, build slots: each must hold and must come
  back, on every path.

`PROJECT.json` lists each hazard at the line where it bites, with the properties that
would catch it.

### What makes each part correct

* commit path: versions form one line; each is its candidate's content with a passing
  build on record; a candidate is committed once; what a client was told stays true; no
  evidence is lost; no candidate stays blocked.
* agent usage: the limit holds; an approval is spent by one build; rows, audit log and
  what the client was told agree, over crashes; every run ends.
* stream: one outcome and its end; the recorded verdict is what the client saw; nothing
  off its contract is handed out; no goroutine is left behind.
* catalog: no save loses another's that it could know of; a document holds only published
  versions and loses none to a save on top of a revision that was there when it was sent;
  metadata never turns the active version back.
* team: an owner is always left.
* identity: whoever acts as an account registered it; a session that ended admits nobody.
* AI client: a failing model is given up while its client can still be told.
* process: whatever an earlier start left, the server comes up, and no usage row is lost.
* runtime: records fit the schema; a version means one schema; the limit holds; only its
  owner touches a record.
* build worker: slots and children come back; announced artifacts stay; what is served
  is genuine.

## 2. The modules

| Module | Models | Extends / instantiates |
|---|---|---|
| `VersionHistory` | what the commit path promises: an append-only line of versions | - |
| `CandidateCommit` | the commit path | implements `VersionHistory` |
| `AgentUsage` | credits, approvals, the run goroutine and its row | - |
| `StreamPromise` | what a run's stream promises to its client | - |
| `ModelCall` | calls of a model: requests, timeouts, retries | - |
| `AgentStream` | orchestrator, race goroutines, service goroutine, handler, and the calls they make | implements `StreamPromise`, composes `ModelCall` |
| `ProjectDocument` | project metadata and document | - |
| `Membership` | memberships and invitations | - |
| `TextTime` | times as texts, and what their order says | - |
| `Sessions` | accounts and sessions, of the platform and of applications | extends `TextTime` |
| `Access` | the team's operations as requests behind sessions | extends `Sessions` and `Membership` |
| `SchemaUpgrade` | the start of the server over the database it finds | - |
| `AppRuntime` | schema and records of a provisioned backend | - |
| `BuildWorker` | the Node process | - |
| `CandidateCommitProofs`, `AgentUsageProofs`, `AgentStreamProofs`, `ProjectDocumentProofs`, `AccessProofs`, `SchemaUpgradeProofs`, `AppRuntimeProofs`, `BuildWorkerProofs` | the theorems | extend their component and `TLAPS` |
| `MC*` | constants and symmetry for TLC | extend their component |

Where components interact, each module keeps the part of the other that it depends on:
`AgentUsage` and `CandidateCommit` share `StoreCandidate` (in the one it is the effect on
the run, in the other the effect on older candidates and their leases); `AgentStream`
has in goroutines what is the single step `Stream` in `AgentUsage`, and each of its goroutines
that calls a model has a call of `ModelCall`; `Access` has each operation of `Membership` as the
last step of a request of `Sessions`; `ProjectDocument` has
`Publish` for the commits of `CandidateCommit`; `CandidateCommit` has the worker as the outcome of
`Compile`, and `BuildWorker` shows that such calls end; memberships come and go in every
module that reads them, more freely than in `Membership`.

### Conventions

A transaction is one action, as the single connection makes it. Reads that follow each
other without a write between them that matters are merged and said to be. A handler is
one program counter per request, with one action per transaction or blocking call; a
request may be lost at any point. A definition whose name says a slip (`ReleaseNever`,
`UsableAgain`, `Armed...`) is not used by the specification: it states a plausible error next to the
definition it would replace, and each property is shown to be broken by at least one of
them. Type invariants are proved, and no run spends its time on them.

### CandidateCommit

| Model | Code |
|---|---|
| `cand`, `lease`, `verification`, `attempts`, `versions`, `active` | tables `build_candidates` (joined with `safety_verifications`), `candidate_compile_leases`, `build_verifications`, `build_attempts`, `immutable_versions`, and `workspace_projects.active_version_id` |
| `StoreCandidate`, `RestageVersion` | a run stores a candidate, or a version is staged again; older pending ones are rejected and their leases dropped |
| `LoadCandidate`, `FindVerification`, `ClaimOrWait`/`ClaimCompilation`, `Compile`, `RecordVerification`, `RecordBuildFailure`, `VerifyArtifact`, `CommitCandidate` | the steps of the handler, in its order |
| `Disconnect`, `Restart`, `RegisterProject`, `ChangeMembership`, `Tick` | the client leaves, the server restarts (perhaps with another policy), the project's row appears, members come and go, time passes |

Time is relative (what is left of a lease, how long a timed step has lasted), so it needs no
bound; `ClaimDelay` bounds the wait between reading the clock and claiming. A version's
id is its index. A crash loses all requests at once. Left out: mismatches of prompt or
hash (the request ends in `LoadCandidate` and changes nothing); a server without a
compiler; the second policy check inside the commit, which repeats the first. The usage
row of a stored candidate is taken as given.

### AgentUsage

`usage`, `plan` and `audit` are the tables; `pc`, `outcome`, `toStore` the goroutine's
locals, reset when it ends; `told` is what the client's handler took from the channel.
`Reserve`, `ReserveApproved` and `ApprovePlan` are transactions; `Stream`, `StorePlan`,
`StoreCandidate`, `Offer`, `Finish`, `Complete` the goroutine. A refused reservation
changes nothing and is left out. A failing `Complete` leaves the row `"unrecorded"`
until `Restart`, whose recovery (`RecoverInterrupted`) runs before the server serves and
so is part of it. A scope stands for a project and a prompt; result codes are left out.
`Plans` is finite: when all are used, storing a plan can only fail.

### AgentStream

A send on an unbuffered channel is one step of both ends. `Send`, `CallModel`, `Use`,
`Elaborate`, `Fallback`, `Check`, `Gather` and so on are the orchestrator, `BuildCalls(d)` and
`Build(d)` a direction of a race,
`Forward` to `Complete` the service's goroutine, `HandlerCancelled` and `HandlerClosed`
the handler, whose return cancels the context. Every `select` that has a ready send and a
cancelled context may take either. `direct` is a run without a workspace, where the
handler reads the orchestrator's channel. Consecutive progress events are one. `told`
includes the event whose write failed. `open` counts the ticks that are left of the server's
`WriteTimeout`: once it is 0 a write is lost, whether the handler notices or only the context
ends, and `Heartbeat` is the keepalive that finds out. The template provider never errs.
Actions iterate, repair and polish are one.

### ModelCall

A call is at a request (with the ticks `left` of its timeout), at a pause before the next
one, answered or failed. `Reply` is an answer: refused with a status (`Denied`), a stream
that is cut or none (`Cut`), a whole stream that is or is not the object asked for
(`Decoded`), an object that lacks a part (`Lacking`, after `completeJSON` has returned).
`MayRetry` is the loop's condition. Time passes in ticks while a request is out (`Elapse`);
pauses are tenths of a second where a timeout is minutes, so they take none.

### ProjectDocument

`project` is the metadata row, `document` the saved document and its revision, `request`
each client's save with where it is: `Read` (compare with the document), `Trust` (compare
new versions with the published ones, and the active version with the project's), `Save`
(the transaction). A document's version is `"published"` (as it was) or `"altered"`. The versions of a document are a prefix sequence: each one's parent is the
one before it. Revisions only grow, so seeing the same revision twice is seeing the same
document. A save may name any revision (`httpapi/catalog.go` passes on what the body says, and
`SaveDocument` refuses only negative ones): one its client has seen, one of another's saves,
or one that nobody has saved yet. `base` keeps which of these it was when it was sent; it is a
history that no guard reads, for the properties to tell clients apart that follow the
protocol. Left out: title and status, the audit rows, the record of a resolved conflict,
the list of projects.

### AppRuntime

`AskProvision`, `Find`, `Provision` are the provisioning with its one retry; `AskRecord`,
`Context`, `Insert`, `Get`, `Update`, `Delete` the record handlers. Identifiers are never
reused (`spent`). A request comes with its user; how it got to be that user is in `Sessions`.
Left out: listing, keys, titles, time stamps. At `MaxVersion` a provisioning can only be lost.

### Membership

Each operation is one transaction; `Expire` is an invitation running out.

### TextTime, Sessions, Access

`Text` is a time as the tables keep it: RFC 3339 with a fraction whose trailing zeros are
dropped, of which only the seconds and the fraction vary here. `Lasts` is `expires_at > now`,
on texts. `Sessions` has one row per token (`session`), the password's owner of each address
(`holder`), who was told which token (`knows`), and the requests: `Register` and `Login` go on
to `Issue`; an application's registration looks (`Look`) before it inserts (`Insert`); `Resolve`
turns a token into an account, and `Act` or `Logout` follows in a transaction of its own.
`AppLogout` deletes by token and project without asking whose it is. A session that runs out
keeps its row: each `Resolve` picks any two times for which the comparison admits, and notes
whether it should have (`overdue`). `Access` has `TeamAct` in place of `Act`: an operation of
`Membership` by the account a request was resolved to. An account there is its
address here (`AddressAssumption`). Left out: names, passwords' hashes (a
person is a password), the list of workspaces. A row that is deleted is `"over"`, as tokens
are random and not given twice.

### SchemaUpgrade

`Steps` are the statements of `migrate` in their order that the properties are about, `pc` the next one; `Init` is a
new database or one of any earlier release. `Move` is `migrateAgentUsageActions`, whose five
statements are sent in one call but are transactions of their own (there is no `BEGIN`);
`UpToDate` and `ColumnThere` pass over what is not needed, on the word of the schema alone.
`Crash` may come before any statement, and `Fail` is a statement SQLite refuses; after either
the next `Start` begins at the first statement. `died` keeps where starts ended, for
`ServesWhole` to name the windows. Left out: tables and indexes that are only created.

### BuildWorker

Node runs one callback at a time: an action is what runs between two awaits. `Arrive` takes a slot or
answers busy; `Body` reads the body and prepares the workspace; `runVite`, `ChildEnds`,
`Timeout`, `Exit` run the child; `inspectArtifact`, `persistArtifact`, `Existing`,
`Clean` keep the result; `verifyArtifact` and `Stat`, `artifactManifest`,
`serveArtifact` answer for it. `Harm` is damage to the store from outside, `Forget` the eviction from
the manifest cache, `Restart` loses all requests and leaves workspaces behind. Left out:
graceful shutdown, health requests, HTTP caching, the checks of a snapshot's content (no
shared state), the plugins of the runner.

## 3. The runs

| Run | Instance | What it shows |
|---|---|---|
| `commit_race` | 2 accounts, 2 candidates, 2 snapshots, 2 requests, a claim may be 3 ticks late where the margin is 1 | `VersionsBacked`, `AnswersHold`, `NoLeakedLease`, `OneCurrentBuild`, `EvidenceKept`, `EvidenceFenced`, and the implementation of `VersionHistory` (`KeepsPromise`), over takeovers of expired leases and late recordings |
| `commit_live` | 1 candidate, 2 requests, 2 policies, margin 2 > delay 1, `FairSpec` | builds of a candidate never overlap when claims are in time (`OneBuildPerCandidate`); nothing the running policy refuses becomes a version (`SafeAtCommit`); requests are answered; leases stop blocking |
| `usage_runs` | 2 accounts, 2 scopes, 3 runs (2 at a time), 1 plan, limit 9 | `WithinLimit`, `OneBuildPerApproval`, `AuditTellsAll`, `NoRowForgotten`: a plan and two builds fit, and the second finds the approval spent |
| `usage_live` | 2 runs, limit 12, `FairSpec` | a race and a build fit; `ToldIsStored`, `SucceededDelivered`, `RunsEnd` |
| `stream` | 2 directions, every action, with and without a workspace, one retry, `WriteTimeout` 5, `FairSpec` | `ProtocolKept`, `SoundResults`, the implementation of `StreamPromise`, `EverythingEnds`, and `FallbackTold`: the template is used while the client can be told |
| `stream_deadline` | the same with the default times | violation, see section 6 |
| `document` | 2 clients, 1 note, 2 versions, 3 revisions, saves on top of any revision | `NewestActive` and `Trusted`, whatever clients send; `DocumentForward` for saves whose revision was there when they were sent, `NoBlindOverwrite` for those whose client had seen it |
| `access` | 2 addresses, 2 people, 2 tokens, 2 requests, 1 application | `OwnerRemains` (of `Membership`, behind sessions), `ActsForItself`, `LoggedOutStaysOut` |
| `runtime` | 2 requests, 2 users, 2 ids, a limit of 1 record, 6 schemas, 3 versions | `RecordsConform` (with the limit), `VersionsReliable`, `OwnersAlone` |
| `runtime_patch` | 2 requests, 1 record with 2 fields | violation, see section 6 |
| `worker` | 3 requests, 1 artifact, 2 slots, `FairSpec` | `BuildsSupervised` (with the slots), `AnnouncedStays`, `ServedGenuine`, `RequestsEnd` |
| `upgrade` | every database that can be told apart, 2 rows, 2 crashes, fairness of `Start` and `Migrate` | `ServesWhole`, `NothingDropped`, `ComesUp` |

### Why the bounds are enough

* `commit_race`: every interference is between two requests, on the same candidate
  (takeover, late recording, repeated commit) or on two (conflict on the parent); two
  accounts tell an owner's candidates from another's, and two snapshots their contents.
  `commit_live` needs a second policy but, for overlap and progress, only one candidate (two
  exceed the time of a run). So `SafeAtCommit` is checked there for candidates that a policy
  overtakes, not for versions staged again, which take a second candidate; `CommitsAreSafe`
  is proved of both.
* `usage_runs`: three runs are the least that let a plan be made, built and built again; 9
  credits pay for all three, so only the approval's status stops the second build, and two
  scopes and two accounts let it be tried for another prompt or by another account. At most
  two runs are under way, and one client or account gone, at a time (`TwoUnderWay`): the runs
  meet in single transactions, each of which concerns one or two of them.
* `stream`: a race has two directions in the code; one run's goroutines share nothing
  with another's. One retry tells a first request from a last. The most ticks a run's calls take is four, a team's plan
  making two calls of two requests each; with `WriteTimeout` 5 a write is still possible
  after that, and with 4 it need not be. The slip that retries once more breaks it.
* `access`: two people, addresses and requests let every two operations meet on one account
  or on two; two tokens let one be out while another lives. Digits are below 3, and two
  places are enough for a fraction to be absent, short or whole.
* `upgrade`: rows differ in being there before a migration or after it, so two are enough;
  a start may fail on what a failed start left, which two crashes allow (a refused statement
  is not a crash and is not bounded).
* `document`: three revisions leave room for a save, one that overtakes it, and one
  on top; two versions let one be published between a check and a save. Once the last revision
  is there no save is sent, nor is one on top of it (`SendBounded`), as it could not be
  written. Two notes (or three versions) exceed ten million states and add no new kind of interference, since a check
  compares with one document.
* `runtime`: six schemas hold one of each change `ensureCompatible` knows: an optional
  field more, a required one, another type, another access, a collection less.
* `worker`: two slots and three requests let one be refused. Artifacts meet only in the
  cache, whose eviction is `Forget`, so one is enough; two exceed the time of a run.

Symmetry is used only in runs without liveness properties. `CHECK_DEADLOCK FALSE` is set for
the streams, which end: that nothing stops too early is `EverythingEnds`.

### Fairness

* `CandidateCommit`: handlers run on and time passes. A handler's steps are
  statements of one process; the compiler client has a timeout. Nothing is promised of
  restarts, clients or members.
* `AgentUsage`: the goroutine runs on; its writes use `context.Background()` and its
  sends give way to the client's context; the orchestrator's stream ends because `AgentStream`
  shows so. No restart is promised: a run that could not be recorded stays so.
* `AgentStream`: each goroutine runs on when it can (Go's scheduler); time passes while a
  request is out (`Tick`), timeouts and pauses end (`ModelSilent`), and heartbeats come. A
  model need not answer and the client need not leave.
* `SchemaUpgrade`: a server that ended is started again (`compose.yml`: `restart:
  unless-stopped`) and executes its statements. Crashes are bounded; a server that never
  stops crashing never comes up.
* `BuildWorker`: callbacks run; a body arrives or Node's request timeout ends it; the
  timer fires; a killed process ends. A child that was not killed may run for ever, and a
  client need not leave.

## 4. The proofs

Each `*Proofs` module proves one inductive invariant (`Init => IInv`, one step per action for
`IInv /\ [Next]_vars => IInv'`), from which the theorems follow. All hold for
every value of the constants under the named assumptions of the component.

**`CandidateCommitProofs`** (from `NullAssumption`, `BoundAssumption`,
`GuardAssumption`): `TypeCorrect`, `HistoryIsLinear`, `VersionsAreBacked`, `CommitsOnce`,
`AnswersStayTrue`, `EvidenceIsKept`, `StatusIsFinal`, and `PromiseIsKept`: the commit
path implements `VersionHistory`. The invariant is `TypeOK /\ HistoryShape /\
EvidenceShape /\ \A r : AnswerShape(r)`. `HistoryShape` ties versions to their committed,
verified candidates in both directions (no two versions from one candidate, no committed
candidate without a version), which `CommitVersion` needs to know that a pending
candidate has none yet. `AnswerShape` carries what a request knows from step to step: from
`VerifyArtifact` on it reports the stored build. Leases play no part: history and evidence are safe even
when builds overlap, because a verification is stored at most once.

Leases have an invariant of their own, `LeaseInv`. `LeasesDoNotLeak` follows from who may
hold a lease (`Holding`); `BuildsDoNotOverlap` compares clocks: a build's timer and its lease
move at the same pace (`Leased`), and the lease starts with the compiler's timeout and the
margin, so it outlasts the build *provided that* `ClaimDelay < LeaseMargin`: the clock is read
(`service.go:335`) less than the margin before the claim. That is a hypothesis of the theorem and not an assumption of
the module, since nothing in the code enforces it (the margin is one minute, `service.go:91`). `EvidenceIsFenced` and
`CommitsAreSafe` follow step by step from what the statements compare, and `BuildsAreCurrent`
from what a stored candidate rejects in its own transaction: no other step makes one pending.

**`AgentUsageProofs`** (`NullAssumption`, `LimitAssumption`): `TypeCorrect`,
`CreditsWithinLimit`, `ApprovalsSpentOnce`, `AuditAgrees`, `RunningIsLive`,
`ResultsToldAreStored`, `SuccessIsDelivered`, `PlansAdvance`, `ClosedRowsStay`. The
invariant is `TypeOK`, for each run `Life` (row and audit log by program counter) and
`Stage` (what is stored and told at each step), `Approvals` (from the runs' side and from the
plans'), and `Budget`, which adds that finitely many runs have reserved: `Runs`
may be infinite, and a sum of credits is only meaningful over finitely many.

**`ProjectDocumentProofs`** (`DocumentAssumption`): `DocumentTypeCorrect`,
`ActiveIsNewest`, `DocumentsTrusted`, `DocumentsGrow`, `OverwritesAreSeen`. The
heart is what a save's check is worth once the transaction runs. What was found published
stays so, whatever else happens (`Sound`): versions are not taken back and the active one
only grows, so `Trusted` holds of every save, also of one that names a revision nobody had
saved when it was sent. What was *compared*, the versions of the document it extends, holds
only *as long as the document's revision is the one the request names* (`Current`, in `Checked`
and `Ready`): when another save comes between, the revision moves on, the condition lapses for
good, and the transaction refuses. "For good" is where a revision that is still to come would
break the argument, and so `DocumentsGrow` is about saves that name none (section 6 has what the
others do). `OverwritesAreSeen` says of saves with a seen revision that they overwrite no other.

**`AgentStreamProofs`** (`DirectionsAssumption`, `TimeAssumption`): `StreamTypeCorrect`,
`StreamKeepsProtocol`, `ResultsStaySound`, and `StreamIsPromised`: the stream implements
`StreamPromise`, for any number of directions, retries and ticks. The invariant `StreamInv`
relates the places of three goroutines: outside a workspace (`DirectInv`) what the client was
told is a function of where the orchestrator is, up to a cancelled context; in one, the
service has taken from the orchestrator what the latter has sent (`Followed`) and told the client
no more than what it knows (`Accounted`). The places where a `select` may give way to the
context are where `cancelled` enters; that a context is never taken back is what makes
"missing" mean "cancelled" later. The handler's own error for an interrupted stream turns out
never to be sent (`NotInterrupted`): a stream closes after its end, or after its context.

Two more results are the safety half of what the runs show as liveness. `StreamHasNoDeadlock`:
whoever sends finds its receiver ready, about to be, or the context done, and a race that
gathers waits only for results still being made. `CallsTakeBoundedTime`: what the calls of a run
may take is the time of their requests, one call's `(MaxRetries + 1) * Timeout`, twice that for
a team's plan, and once for each direction of a race (counted as if they did not overlap, since a
goroutine may start late); so `LongConnectionsLast`: with a `WriteTimeout` above that, a run can
write at any time, which is why the template's answer comes in time in `stream` and need not in
`stream_deadline`. The time of a race is a set of ticks (`Used`), one more at each `Tick`, as
sums over directions would need induction.

**`AccessProofs`** (`DigitsAssumption`, `NoneAssumption`, `AddressAssumption`):
`AccessTypeCorrect`, `PeopleActForThemselves`, `LogoutsHold`, `TextsOrderSeconds`, and
`TeamBehindSessions`: a request that was admitted by a token and acts later is still one
operation of `Membership`, so `AlwaysOwned`, proved of the team alone and of any number of
accounts, holds behind sessions as well (`AlwaysOwnedBehindSessions`). `TextOrder` is
arithmetic on texts of any base and any length of fractions: as texts, two times are in the
wrong order within one second only, and `LogoutsHold` rests on that for expiry.

**`SchemaUpgradeProofs`** (`CrashAssumption`): `UpgradeTypeCorrect`, `UpgradeServesWhole`,
`UpgradeDropsNothing`, over any number of crashes. The invariant says that what the server's
program counter is past has been done, on this start or on an earlier one, except in the windows
where an earlier start died and the later one takes the work for done (`Midway`, `died`).

**`AppRuntimeProofs`** (`RuntimeAssumption`, `BackendsAssumption`): `RuntimeTypeCorrect`, `RecordsAlwaysConform`,
`VersionsStayReliable`, `OwnersStayAlone`. What `ensureCompatible` allows is a preorder
under which a record that conforms goes on to conform and an owned collection stays owned. So
a request that holds an old schema, and checks or addresses a record by it, is right by
the current one.

**`BuildWorkerProofs`** (`WorkerAssumption`, the limits `server.mjs` accepts):
`WorkerTypeCorrect`, `BuildsStaySupervised`, `AnnouncedAlwaysStays`, `ServedAlwaysGenuine`. The
count of slots is the number of requests in the places where a slot is held, for any number of
clients; each way a build ends passes the handler's last clause once.

### Only model-checked

Liveness and everything about `ENABLED` is beyond the prover; so are `RequestsEnd`,
`LeaseFreed`, `RunsEnd`, `EverythingEnds`, `FallbackTold` and `ComesUp`. Every invariant and
every action property that a passing run checks, and both implementations, are proved. What
two runs refute (`PatchKeepsRest`, and `FallbackTold` with too little time) is not
provable.

## 5. What is not modelled

* **Guards and hashing.** Text checks without state; a relation `Accepted` in
  `CandidateCommit`, a verdict in `AgentStream`.
* **HTTP API** except the agent handler: decoding and encoding. The rate limiter counts
  requests per address and window under one lock, which leaves nothing to interleave.
* **Audit log** except the rows of runs: appended in the transactions of others, and
  paged.
* **Catalog** in part: titles, status, the list of projects, the record of a resolved
  conflict.
* **Process** in part: configuration, the order of a graceful shutdown, and the tables
  and indexes that are only created.
* **The connection itself.** `SaveDocumentForMember` writes its audit row before the rollback is deferred, so a failure there keeps the only connection until the
  request's context ends (`catalog_repository.go:160`). Transactions here just happen or do not.
* **Text order of leases and invitations.** `TextTime` shows for sessions what holds of
  them as well; in the other modules time is a number of ticks or a step of its own.

## 6. Where code, tests and documents disagree

Checked, each with a run that shows the disagreement:

* `runtime_patch`: a patch leaves other fields alone, says
  `runtime_repository_test.go:189-190` of one client. `UpdateRecord` merges into
  what it read before and writes the whole record, so the later of two patches takes
  back what the earlier one set.
* `stream_deadline`: `README.md:22` says that when the call of a model fails the template
  is used and the client is warned of it. With the defaults one request may take as long
  (`ai/config.go:32`: 5 minutes, up to three requests) as the connection may be written to
  at all (`appconfig/config.go:35`: 5 minutes), so of a model that does not answer the
  client hears nothing. With enough time left the sentence holds (`stream`).

Noted while modelling, without a run of their own:

* `vivatom.md:229` says a restored version's parent is the historical version. The commit
  demands the *active* version as the parent, so the restored version continues the line
  (`HistoryIsLinear` proves what the code does).
* `vivatom.md:273` says that when one direction of a race fails the other is kept and the
  template fills in. The template's summary is the whole prompt, which the contract limits
  to 2000 runes where prompts may have 12000; then the service rejects the race, the sound
  candidate included (`KeepsContract`). Nor does a race ever warn of its fallback.
* `vivatom.md:265` has 408, 429 and 529 tried once more, after `Retry-After` and with
  jitter. `completeJSON` tries up to `MaxRetries` (2) times more, after 100 ms, 200 ms, and
  reads no header.
* An `agent_usage` too old to have `approval_id` fails the first start at the copy; the next
  one finds the new table and serves, with the rows under `agent_usage_legacy`, and credits
  that were spent there no longer count. A kill between the rename and the drop does the
  same, one before the index leaves the new table without it, and one after a candidate's
  `prompt` column leaves it unfilled (the windows `ServesWhole` names).
* `migrateAgentUsageActions` looks for `iterate` and `race` but not for `polish`.
* The row a legacy build verification gets in `build_attempts` is inserted at every start,
  for verifications that had a regular attempt as well.
* `httpapi/catalog.go:165` tells clients that formal versions can only be appended, neither
  changed nor deleted. A save whose content is stored already passes over the comparison of
  revisions and versions (`catalog/service.go:76`), and the first save of a project over that
  of revisions. If it names a revision that is still to come, and that revision is another
  client's by the time of its transaction, it passes the only check that is left
  (`catalog_repository.go:182`) and puts the older document in the place of the newer one, whose
  later versions are gone from it (not from `immutable_versions`). It takes two clients and two
  saves: one repeats the document of revision 1 as a save on top of revision 2, which the other
  saves, with a version more, in between. `DocumentForward` has that case as its exception.
* A registration that is lost after its account was stored leaves the address taken; its
  owner has to log in instead.
* An application's log-out answers success for any token.
* Paging the audit log by `created_at <` skips rows of the same time as a page's last; and
  the times of events are read before their transactions, so they may be out of order.
* `vivatom.md:75` has a race run on the approved plan; `service.go:118` reserves it with
  credits alone.
* `vivatom.md:80` has one candidate of a race chosen; the other one stays pending and
  may be committed as well, on the chosen one's version.
* Outside a workspace, template candidates off their contract reach the client
  (`SoundResults` names the exception).
* A repair may run with an empty prompt, but its candidate can never be committed:
  `CommitCandidate` refuses an empty prompt (`service.go:305`).
* A run whose client left may be recorded `failed` rather than `cancelled`, as `select`
  picks either branch.
* The audit rows of saved documents record revision 0 (`catalog_repository.go:160`).
* Provisioning accepts reserved field names that `validateRecord` then refuses in every
  record.
* A damaged artifact is never replaced: the rename finds its place taken
  (`server.mjs:138`), so building the same content fails until someone removes it.

## 7. The plan

The order so far was: the commit path and its promise, credits and approvals, the
stream, the document, memberships, the runtime, the worker; then calls of models and their
deadline, sessions and the team behind them, and the upgrade of the schema; and proofs of every
invariant, action property and implementation that the runs check. What is left:

1. Facts of the kind of `StreamHasNoDeadlock` for the other parts with liveness runs: that
   each stage of a commit request, of a run's goroutine and of a worker's request has a way on
   (as conditions on the state; `ENABLED` itself is out of reach).
2. `CandidateCommit`: how long a lost request's lease can keep its candidate (`LeaseFreed`, as a
   bound on ticks).
3. `AgentStream` and `AgentUsage`: that what the latter takes for one step, `Stream`, is what
   the former's outcomes allow, as a theorem rather than a remark.

A run takes at most five minutes; a new question is asked by an existing run where it can be.
