----------------------------- MODULE AgentUsage -----------------------------
(***************************************************************************)
(* What an agent run costs and leaves behind: the usage service's Run, from *)
(* the reservation of its credits (for a build, against an approved plan)  *)
(* to the row's terminal status, with the plan or the candidates it stores *)
(* and what its client is told on the way.  Runs of all accounts of one    *)
(* workspace proceed side by side; members leave, clients go away, writes  *)
(* fail, and the server restarts.                                          *)
(*                                                                         *)
(* The events between the runner and the service are the concern of        *)
(* AgentStream; here a stream just ends well, badly or cancelled.          *)
(***************************************************************************)
EXTENDS Integers, Sequences, FiniteSets

CONSTANTS
    Accounts,        \* accounts that run agents
    Scopes,          \* what a plan is approved for: a project and a prompt
    Runs,            \* rows of agent_usage, each written by one run
    Plans,           \* rows of approved_plans
    None,            \* absence of an account, scope, run or plan
    Limit            \* the workspace's credit_limit

ASSUME NullAssumption == None \notin Accounts \cup Scopes \cup Runs \cup Plans
ASSUME LimitAssumption == Limit \in Nat

VARIABLES
    members,         \* memberships of the workspace
    usage,           \* agent_usage
    plan,            \* approved_plans
    stored,          \* how many build_candidates each run has stored
    audit,           \* the status in each audit event about a run, oldest first
    pc,              \* where each run's goroutine is
    outcome,         \* its status so far
    toStore,         \* how many candidates it has still to store
    told,            \* the kinds of event its client's handler has taken
    listening        \* its client has not gone away

tables == <<members, usage, plan, stored, audit>>
locals == <<pc, outcome, toStore, told, listening>>
vars   == <<tables, locals>>

Terminal == {"succeeded", "failed", "cancelled"}
Actions  == {"plan", "build", "race", "revise"}  \* iterate, repair and polish are alike
Steps    == {"stream", "store", "offer", "finish", "complete"}
MaxCandidates == 2                               \* a race has two directions

Usage   == [status: {"absent", "running"} \cup Terminal, owner: Accounts \cup {None},
            scope: Scopes \cup {None}, action: Actions \cup {"none"}, approval: Plans \cup {None}]
Plan    == [status: {"absent", "pending", "approved", "consumed"},
            owner: Accounts \cup {None}, scope: Scopes \cup {None}, run: Runs \cup {None}]

NoUsage == [status |-> "absent", owner |-> None, scope |-> None, action |-> "none",
            approval |-> None]
NoPlan  == [status |-> "absent", owner |-> None, scope |-> None, run |-> None]

Init ==
    /\ members = Accounts
    /\ usage = [u \in Runs |-> NoUsage]
    /\ plan = [p \in Plans |-> NoPlan]
    /\ stored = [u \in Runs |-> 0]
    /\ audit = [u \in Runs |-> <<>>]
    /\ pc = [u \in Runs |-> "idle"]
    /\ outcome = [u \in Runs |-> "succeeded"]
    /\ toStore = [u \in Runs |-> 0]
    /\ told = [u \in Runs |-> {}]
    /\ listening = [u \in Runs |-> TRUE]

-----------------------------------------------------------------------------
(* Reserving credits.  A refused reservation changes nothing.              *)

Cost(action) == CASE action = "plan" -> 1
                  [] action = "race" -> 8
                  [] OTHER -> 4

\* The rows of the workspace for one action, whatever came of them.
RowsOf(actions) == {u \in Runs : usage[u].action \in actions}

\* sum(credits): a run that failed or was cancelled is not refunded.
Used == Cost("plan") * Cardinality(RowsOf({"plan"}))
      + Cost("race") * Cardinality(RowsOf({"race"}))
      + Cost("build") * Cardinality(RowsOf({"build", "revise"}))

AffordableLast(action) == Used < Limit
Affordable(action) == Used + Cost(action) <= Limit

\* The row of a run that starts, and its first audit event.
Start(u, row) ==
    /\ usage' = [usage EXCEPT ![u] = row]
    /\ audit' = [audit EXCEPT ![u] = Append(@, "running")]
    /\ pc' = [pc EXCEPT ![u] = "stream"]

Reserve(u, a, s, action) ==
    /\ pc[u] = "idle"
    /\ a \in members
    /\ Affordable(action)
    /\ Start(u, [status |-> "running", owner |-> a, scope |-> s, action |-> action,
                 approval |-> None])
    /\ UNCHANGED <<members, plan, stored, outcome, toStore, told, listening>>

\* The plan an account may build in a scope.
UsableAgain(p, a, s) == /\ plan[p].status \in {"approved", "consumed"}
                        /\ plan[p].owner = a /\ plan[p].scope = s
Usable(p, a, s) == plan[p].status = "approved" /\ plan[p].owner = a /\ plan[p].scope = s

Consume(p) == [plan EXCEPT ![p].status = "consumed"]

ReserveApproved(u, a, s, p) ==
    /\ pc[u] = "idle"
    /\ a \in members
    /\ Affordable("build")
    /\ Usable(p, a, s)
    /\ plan' = Consume(p)
    /\ Start(u, [status |-> "running", owner |-> a, scope |-> s, action |-> "build",
                 approval |-> p])
    /\ UNCHANGED <<members, stored, outcome, toStore, told, listening>>

\* The owner approves a pending plan.
Approvable(p, a) == plan[p].status = "pending" /\ plan[p].owner = a

ApprovePlan(a, p) ==
    /\ a \in members
    /\ Approvable(p, a)
    /\ plan' = [plan EXCEPT ![p].status = "approved"]
    /\ UNCHANGED <<members, usage, stored, audit, locals>>

-----------------------------------------------------------------------------
(* The run's goroutine.  An event is either taken by the client's handler, *)
(* or the client's context is done and the run is cancelled; when both can *)
(* happen, select takes either.                                            *)

Goto(u, step) == pc' = [pc EXCEPT ![u] = step]
Fail(u) == outcome' = [outcome EXCEPT ![u] = "failed"]

\* What the run turns to when its client is gone.
KeptOutcome(u) == outcome[u]
Cancelled(u) == "cancelled"

EmitWhileListening(u, kind, next) ==
    /\ listening[u]
    /\ told' = [told EXCEPT ![u] = @ \cup {kind}]
    /\ Goto(u, next)
    /\ UNCHANGED outcome

Emit(u, kind, next) ==
    \/ /\ told' = [told EXCEPT ![u] = @ \cup {kind}]
       /\ Goto(u, next)
       /\ UNCHANGED outcome
    \/ /\ ~listening[u]
       /\ outcome' = [outcome EXCEPT ![u] = Cancelled(u)]
       /\ Goto(u, "complete")
       /\ UNCHANGED told

\* The runner refuses the request, or its stream ends: with a result that keeps
\* its contract, with a failure, or because the client is gone.
Stream(u) ==
    /\ pc[u] = "stream"
    /\ \/ Fail(u) /\ Goto(u, "complete") /\ UNCHANGED toStore
       \/ Fail(u) /\ Goto(u, "offer") /\ UNCHANGED toStore
       \/ /\ ~listening[u]
          /\ outcome' = [outcome EXCEPT ![u] = Cancelled(u)]
          /\ Goto(u, "complete")
          /\ UNCHANGED toStore
       \/ /\ \E n \in 1..(IF usage[u].action = "race" THEN MaxCandidates ELSE 1) :
                 toStore' = [toStore EXCEPT ![u] = n]
          /\ Goto(u, "store")
          /\ UNCHANGED outcome
    /\ UNCHANGED <<tables, told, listening>>

\* A plan is stored for its author, if still a member.
StorePlan(u) ==
    LET a == usage[u].owner
    IN  /\ pc[u] = "store"
        /\ usage[u].action = "plan"
        /\ \/ /\ a \in members
              /\ \E p \in Plans :
                     /\ plan[p].status = "absent"
                     /\ plan' = [plan EXCEPT ![p] = [status |-> "pending", owner |-> a,
                                                     scope |-> usage[u].scope, run |-> u]]
              /\ UNCHANGED outcome
           \/ Fail(u) /\ UNCHANGED plan
        /\ Goto(u, "offer")
        /\ toStore' = [toStore EXCEPT ![u] = 0]
        /\ UNCHANGED <<members, usage, stored, audit, told, listening>>

\* Candidates are stored one by one; the first that cannot be ends it.
Last(u) == toStore[u] = 1

StoreCandidate(u) ==
    /\ pc[u] = "store"
    /\ usage[u].action # "plan"
    /\ \/ /\ stored' = [stored EXCEPT ![u] = @ + 1]
          /\ toStore' = [toStore EXCEPT ![u] = @ - 1]
          /\ Goto(u, IF Last(u) THEN "offer" ELSE "store")
          /\ UNCHANGED outcome
       \/ /\ Fail(u)
          /\ toStore' = [toStore EXCEPT ![u] = 0]
          /\ Goto(u, "offer")
          /\ UNCHANGED stored
    /\ UNCHANGED <<members, usage, plan, audit, told, listening>>

\* The event that closes the run's work: its result, or the error in its place.
ResultAnyway(u) == "result"
Closing(u) == IF outcome[u] = "succeeded" THEN "result" ELSE "error"

Offer(u) ==
    /\ pc[u] = "offer"
    /\ Emit(u, Closing(u), "finish")
    /\ UNCHANGED <<tables, toStore, listening>>

Finish(u) ==
    /\ pc[u] = "finish"
    /\ Emit(u, "done", "complete")
    /\ UNCHANGED <<tables, toStore, listening>>

\* The row of a running run and its last audit event, in one transaction.
Close(u, status) ==
    /\ usage' = [usage EXCEPT ![u].status = status]
    /\ audit' = [audit EXCEPT ![u] = Append(@, status)]

\* The goroutine's variables go with it.
Leave(ended) ==
    /\ outcome' = [u \in Runs |-> IF u \in ended THEN "succeeded" ELSE outcome[u]]
    /\ toStore' = [u \in Runs |-> IF u \in ended THEN 0 ELSE toStore[u]]
    /\ listening' = [u \in Runs |-> u \in ended \/ listening[u]]

\* A transaction that fails is not reported to anyone: the row stays running.
Complete(u) ==
    /\ pc[u] = "complete"
    /\ \/ /\ usage[u].status = "running"
          /\ Close(u, outcome[u])
          /\ Goto(u, "done")
       \/ /\ usage[u].status # "running"
          /\ Goto(u, "done")
          /\ UNCHANGED <<usage, audit>>
       \/ Goto(u, "unrecorded") /\ UNCHANGED <<usage, audit>>
    /\ Leave({u})
    /\ UNCHANGED <<members, plan, stored, told>>

-----------------------------------------------------------------------------
(* The surroundings of a run.                                              *)

Disconnect(u) ==
    /\ pc[u] \in Steps /\ listening[u]
    /\ listening' = [listening EXCEPT ![u] = FALSE]
    /\ UNCHANGED <<tables, pc, outcome, toStore, told>>

\* The rows that were running when the server went down.
InterruptedAny == {u \in Runs : usage[u].status # "absent"}
InterruptedNone == {}
Interrupted == {u \in Runs : usage[u].status = "running"}

\* All goroutines are lost; before it serves again the server closes their rows.
Restart ==
    /\ pc' = [u \in Runs |-> IF pc[u] = "idle" THEN "idle" ELSE "done"]
    /\ usage' = [u \in Runs |-> IF u \in Interrupted
                                THEN [usage[u] EXCEPT !.status = "failed"] ELSE usage[u]]
    /\ audit' = [u \in Runs |-> IF u \in Interrupted
                                THEN Append(audit[u], "failed")
                                ELSE audit[u]]
    /\ Leave(Runs)
    /\ UNCHANGED <<members, plan, stored, told>>

ChangeMembership(a) ==
    /\ members' \in {members \ {a}, members \cup {a}}
    /\ UNCHANGED <<usage, plan, stored, audit, locals>>

Step(u) ==
    \/ Stream(u) \/ StorePlan(u) \/ StoreCandidate(u)
    \/ Offer(u) \/ Finish(u) \/ Complete(u)

Next ==
    \/ \E u \in Runs, a \in Accounts, s \in Scopes, action \in Actions \ {"build"} :
           Reserve(u, a, s, action)
    \/ \E u \in Runs, a \in Accounts, s \in Scopes, p \in Plans : ReserveApproved(u, a, s, p)
    \/ \E a \in Accounts, p \in Plans : ApprovePlan(a, p)
    \/ \E u \in Runs : Step(u)
    \/ \E u \in Runs : Disconnect(u)
    \/ Restart
    \/ \E a \in Accounts : ChangeMembership(a)

Spec == Init /\ [][Next]_vars

\* The runner's stream ends, and a goroutine runs on.
FairSpec == Spec /\ \A u \in Runs : WF_vars(Step(u))

-----------------------------------------------------------------------------
(* Properties.                                                             *)

\* Every row and goroutine has its shape.
TypeOK ==
    /\ members \subseteq Accounts
    /\ usage \in [Runs -> Usage]
    /\ plan \in [Plans -> Plan]
    /\ stored \in [Runs -> 0..MaxCandidates]
    /\ audit \in [Runs -> Seq({"running"} \cup Terminal)]
    /\ pc \in [Runs -> {"idle", "done", "unrecorded"} \cup Steps]
    /\ outcome \in [Runs -> Terminal]
    /\ toStore \in [Runs -> 0..MaxCandidates]
    /\ told \in [Runs -> SUBSET {"result", "error", "done"}]
    /\ listening \in [Runs -> BOOLEAN]

\* However reservations interleave, the workspace never spends beyond its limit.
WithinLimit == Used <= Limit

\* A build spends an approved plan of its own account and scope, and an approval
\* is spent by exactly one build.
OneBuildPerApproval ==
    /\ \A u \in RowsOf({"build"}) :
           LET p == usage[u].approval
           IN  /\ p # None
               /\ plan[p].status = "consumed"
               /\ plan[p].owner = usage[u].owner /\ plan[p].scope = usage[u].scope
    /\ \A p \in Plans :
           LET by == {u \in Runs : usage[u].approval = p}
           IN  IF plan[p].status = "consumed" THEN \E u \in by : by = {u} ELSE by = {}

\* Each run that was paid for has one start in the audit log and, once it ended,
\* exactly one end, which says what its row says, restarts or not.
AuditTellsAll ==
    \A u \in Runs :
        \/ usage[u].status = "absent" /\ audit[u] = <<>>
        \/ usage[u].status = "running" /\ audit[u] = <<"running">>
        \/ /\ usage[u].status \in Terminal
           /\ audit[u] = <<"running", usage[u].status>>

\* Only a live goroutine leaves its row running, or one whose last write failed.
NoRowForgotten ==
    \A u \in Runs : usage[u].status = "running" => pc[u] \in Steps \cup {"unrecorded"}

\* Everything the run was to store is stored.
ResultStored(u) == IF usage[u].action = "plan" THEN \E p \in Plans : plan[p].run = u
                                               ELSE stored[u] > 0 /\ toStore[u] = 0

\* A result handed to the client's handler is on record, and is not taken back.
ToldIsStored ==
    \A u \in Runs : "result" \in told[u] => ResultStored(u) /\ "error" \notin told[u]

\* A run is a success only if its client's handler took the result and the end of
\* the stream.
SucceededDelivered ==
    \A u \in Runs : usage[u].status = "succeeded" =>
                        told[u] = {"result", "done"} /\ ResultStored(u)

\* A plan goes from pending to approved to consumed, and never back.
PlanAdvances ==
    [][\A p \in Plans :
           \/ plan'[p] = plan[p]
           \/ <<plan[p].status, plan'[p].status>> \in
                  {<<"absent", "pending">>, <<"pending", "approved">>,
                   <<"approved", "consumed">>}]_vars

\* A row that was closed, by its run or by recovery, is not written again.
ClosedForGood ==
    [][\A u \in Runs : usage[u].status \in Terminal => usage'[u] = usage[u]]_vars

\* Every run ends and is recorded, unless the database refuses its last write.
RunsEnd ==
    \A u \in Runs :
        usage[u].status = "running" ~> usage[u].status \in Terminal \/ pc[u] = "unrecorded"
=============================================================================
