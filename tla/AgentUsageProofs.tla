-------------------------- MODULE AgentUsageProofs --------------------------
(* Proofs about AgentUsage, for every value of its constants. *)
EXTENDS AgentUsage, FiniteSetTheorems, SequenceTheorems, TLAPS

-----------------------------------------------------------------------------
(* The inductive invariant: how a run's row, audit events and messages     *)
(* follow its program counter, and who spends which approval.              *)

\* A row exists once the run has started, and runs while its goroutine lives.
Life(u) ==
    /\ pc[u] = "idle" => /\ usage[u] = NoUsage /\ audit[u] = <<>> /\ told[u] = {}
                         /\ stored[u] = 0 /\ toStore[u] = 0 /\ outcome[u] = "succeeded"
    /\ pc[u] # "idle" => usage[u].action \in Actions
    /\ pc[u] \in Steps \cup {"unrecorded"} =>
           usage[u].status = "running" /\ audit[u] = <<"running">>
    /\ pc[u] = "done" => /\ usage[u].status \in Terminal
                         /\ audit[u] = <<"running", usage[u].status>>

\* What is stored and told at each step.
Stage(u) ==
    /\ pc[u] = "stream" => told[u] = {} /\ outcome[u] = "succeeded" /\ stored[u] = 0
    /\ pc[u] = "store" => /\ told[u] = {} /\ outcome[u] = "succeeded"
                          /\ toStore[u] > 0 /\ stored[u] + toStore[u] <= MaxCandidates
    /\ pc[u] # "store" => toStore[u] = 0
    /\ pc[u] = "offer" => /\ told[u] = {} /\ outcome[u] \in {"succeeded", "failed"}
                          /\ outcome[u] = "succeeded" => ResultStored(u)
    /\ pc[u] = "finish" => /\ told[u] = {Closing(u)} /\ outcome[u] \in {"succeeded", "failed"}
                           /\ outcome[u] = "succeeded" => ResultStored(u)
    /\ pc[u] = "complete" /\ outcome[u] = "succeeded" =>
           told[u] = {"result", "done"} /\ ResultStored(u)
    /\ usage[u].status = "succeeded" => told[u] = {"result", "done"} /\ ResultStored(u)
    /\ "result" \in told[u] => ResultStored(u) /\ "error" \notin told[u]

\* Approvals, seen from the runs and from the plans.
Approvals ==
    /\ \A p \in Plans : plan[p].status = "absent" => plan[p] = NoPlan
    /\ \A u \in Runs : usage[u].action = "build" =>
           LET p == usage[u].approval
           IN  /\ p \in Plans /\ plan[p].status = "consumed"
               /\ plan[p].owner = usage[u].owner /\ plan[p].scope = usage[u].scope
    /\ \A u \in Runs : usage[u].action # "build" => usage[u].approval = None
    /\ \A u, w \in Runs : usage[u].approval = usage[w].approval /\ usage[u].approval # None
                              => u = w
    /\ \A p \in Plans : plan[p].status = "consumed" => \E u \in Runs : usage[u].approval = p

\* What was reserved fits into the limit.
Budget == IsFiniteSet(RowsOf(Actions)) /\ WithinLimit

IInv ==
    /\ TypeOK
    /\ \A u \in Runs : Life(u)
    /\ \A u \in Runs : Stage(u)
    /\ Approvals
    /\ Budget

-----------------------------------------------------------------------------
(* Types.                                                                  *)

\* Writing the status of one row keeps the type of the table, and its other fields.
LEMMA UsageStatusType ==
    ASSUME TypeOK, NEW u \in Runs, NEW status \in Terminal
    PROVE  /\ [usage EXCEPT ![u].status = status] \in [Runs -> Usage]
           /\ [usage EXCEPT ![u].status = status][u] = [usage[u] EXCEPT !.status = status]
           /\ [usage[u] EXCEPT !.status = status] \in Usage
  <1>1. usage[u] \in Usage
    BY DEF TypeOK
  <1>2. [usage[u] EXCEPT !.status = status] \in Usage
    BY <1>1 DEF Usage
  <1>3. [usage EXCEPT ![u].status = status] =
            [usage EXCEPT ![u] = [usage[u] EXCEPT !.status = status]]
    OBVIOUS
  <1>4. usage \in [Runs -> Usage]
    BY DEF TypeOK
  <1>5. QED
    BY <1>2, <1>3, <1>4

LEMMA PlanStatusType ==
    ASSUME TypeOK, NEW p \in Plans, NEW status \in {"approved", "consumed"}
    PROVE  [plan EXCEPT ![p].status = status] \in [Plans -> Plan]
  <1>1. plan[p] \in Plan
    BY DEF TypeOK
  <1>2. [plan[p] EXCEPT !.status = status] \in Plan
    BY <1>1 DEF Plan
  <1>3. [plan EXCEPT ![p].status = status] =
            [plan EXCEPT ![p] = [plan[p] EXCEPT !.status = status]]
    OBVIOUS
  <1>4. plan \in [Plans -> Plan]
    BY DEF TypeOK
  <1>5. QED
    BY <1>2, <1>3, <1>4

LEMMA TypeInit == Init => TypeOK
  <1>1. NoUsage \in Usage /\ NoPlan \in Plan
    BY DEF NoUsage, NoPlan, Usage, Plan
  <1>2. QED
    BY <1>1 DEF Init, TypeOK, MaxCandidates, Terminal

\* An audit log grows by statuses only.
LEMMA AuditType ==
    ASSUME TypeOK, NEW u \in Runs, NEW status \in {"running"} \cup Terminal
    PROVE  Append(audit[u], status) \in Seq({"running"} \cup Terminal)
  BY DEF TypeOK

LEMMA StartType ==
    ASSUME TypeOK, NEW u \in Runs, NEW row \in Usage, Start(u, row)
    PROVE  /\ usage' \in [Runs -> Usage]
           /\ audit' \in [Runs -> Seq({"running"} \cup Terminal)]
           /\ pc' \in [Runs -> {"idle", "done", "unrecorded"} \cup Steps]
  <1>1. Append(audit[u], "running") \in Seq({"running"} \cup Terminal)
    BY AuditType
  <1>2. QED
    BY <1>1 DEF Start, TypeOK, Steps

LEMMA GotoType ==
    ASSUME TypeOK, NEW u \in Runs, NEW step \in Steps, Goto(u, step)
    PROVE  pc' \in [Runs -> {"idle", "done", "unrecorded"} \cup Steps]
  BY DEF TypeOK, Goto

LEMMA OutcomeType ==
    ASSUME TypeOK, NEW u \in Runs, NEW status \in Terminal,
           outcome' = [outcome EXCEPT ![u] = status]
    PROVE  outcome' \in [Runs -> Terminal]
  BY DEF TypeOK

LEMMA EmitType ==
    ASSUME TypeOK, NEW u \in Runs, NEW kind \in {"result", "error", "done"},
           NEW next \in Steps, Emit(u, kind, next)
    PROVE  /\ pc' \in [Runs -> {"idle", "done", "unrecorded"} \cup Steps]
           /\ outcome' \in [Runs -> Terminal]
           /\ told' \in [Runs -> SUBSET {"result", "error", "done"}]
  <1>1. pc' \in [Runs -> {"idle", "done", "unrecorded"} \cup Steps]
    <2>1. "complete" \in Steps
      BY DEF Steps
    <2>2. QED
      BY <2>1, GotoType DEF Emit
  <1>2. outcome' \in [Runs -> Terminal]
    <2>1. Cancelled(u) \in Terminal
      BY DEF Cancelled, Terminal
    <2>2. CASE UNCHANGED outcome
      BY <2>2 DEF TypeOK
    <2>3. QED
      BY <2>1, <2>2, OutcomeType DEF Emit
  <1>3. told' \in [Runs -> SUBSET {"result", "error", "done"}]
    <2>1. told \in [Runs -> SUBSET {"result", "error", "done"}]
      BY DEF TypeOK
    <2>2. told[u] \cup {kind} \in SUBSET {"result", "error", "done"}
      BY <2>1
    <2>3. QED
      BY <2>1, <2>2 DEF Emit
  <1>4. QED
    BY <1>1, <1>2, <1>3

LEMMA LeaveType ==
    ASSUME TypeOK, NEW ended, Leave(ended)
    PROVE  /\ outcome' \in [Runs -> Terminal]
           /\ toStore' \in [Runs -> 0..MaxCandidates]
           /\ listening' \in [Runs -> BOOLEAN]
  BY DEF TypeOK, Leave, Terminal, MaxCandidates

LEMMA TypeStep == IInv /\ [Next]_vars => TypeOK'
  <1> SUFFICES ASSUME IInv, [Next]_vars PROVE TypeOK'
    OBVIOUS
  <1>0. TypeOK
    BY DEF IInv
  <1> DEFINE Places == {"idle", "done", "unrecorded"} \cup Steps
  <1>1. ASSUME NEW u \in Runs, NEW a \in Accounts, NEW s \in Scopes,
               NEW action \in Actions \ {"build"}, Reserve(u, a, s, action)
        PROVE  TypeOK'
    <2> DEFINE row == [status |-> "running", owner |-> a, scope |-> s, action |-> action,
                       approval |-> None]
    <2>1. row \in Usage
      BY DEF Usage
    <2>2. Start(u, row)
      BY <1>1 DEF Reserve
    <2>3. QED
      BY <1>0, <1>1, <2>1, <2>2, StartType DEF Reserve, TypeOK
  <1>2. ASSUME NEW u \in Runs, NEW a \in Accounts, NEW s \in Scopes, NEW p \in Plans,
               ReserveApproved(u, a, s, p)
        PROVE  TypeOK'
    <2> DEFINE row == [status |-> "running", owner |-> a, scope |-> s, action |-> "build",
                       approval |-> p]
    <2>1. row \in Usage
      BY DEF Usage, Actions
    <2>2. Start(u, row)
      BY <1>2 DEF ReserveApproved
    <2>3. plan' \in [Plans -> Plan]
      BY <1>0, <1>2, PlanStatusType DEF ReserveApproved, Consume
    <2>4. QED
      BY <1>0, <1>2, <2>1, <2>2, <2>3, StartType DEF ReserveApproved, TypeOK
  <1>3. ASSUME NEW a \in Accounts, NEW p \in Plans, ApprovePlan(a, p)
        PROVE  TypeOK'
    <2>1. plan' \in [Plans -> Plan]
      BY <1>0, <1>3, PlanStatusType DEF ApprovePlan
    <2>2. QED
      BY <1>0, <1>3, <2>1 DEF ApprovePlan, TypeOK, locals
  <1>4. ASSUME NEW u \in Runs, Stream(u)
        PROVE  TypeOK'
    <2>1. pc' \in [Runs -> Places]
      <3>1. {"complete", "offer", "store"} \subseteq Steps
        BY DEF Steps
      <3>2. QED
        BY <1>0, <1>4, <3>1, GotoType DEF Stream
    <2>2. outcome' \in [Runs -> Terminal]
      <3>1. "failed" \in Terminal /\ Cancelled(u) \in Terminal
        BY DEF Terminal, Cancelled
      <3>2. CASE UNCHANGED outcome
        BY <1>0, <3>2 DEF TypeOK
      <3>3. QED
        BY <1>0, <1>4, <3>1, <3>2, OutcomeType DEF Stream, Fail
    <2>3. toStore' \in [Runs -> 0..MaxCandidates]
      <3>1. toStore \in [Runs -> 0..MaxCandidates]
        BY <1>0 DEF TypeOK
      <3>2. CASE UNCHANGED toStore
        BY <3>1, <3>2
      <3>3. ASSUME NEW n \in 1..2, toStore' = [toStore EXCEPT ![u] = n]
            PROVE  toStore' \in [Runs -> 0..MaxCandidates]
        BY <3>1, <3>3 DEF MaxCandidates
      <3>4. QED
        BY <1>4, <3>2, <3>3 DEF Stream, MaxCandidates
    <2>4. QED
      BY <1>0, <1>4, <2>1, <2>2, <2>3 DEF Stream, TypeOK, tables
  <1>5. ASSUME NEW u \in Runs, StorePlan(u)
        PROVE  TypeOK'
    <2>1. plan' \in [Plans -> Plan]
      <3>1. CASE UNCHANGED plan
        BY <1>0, <3>1 DEF TypeOK
      <3>2. ASSUME NEW p \in Plans, usage[u].owner \in members,
                   plan' = [plan EXCEPT ![p] = [status |-> "pending", owner |-> usage[u].owner,
                                                scope |-> usage[u].scope, run |-> u]]
            PROVE  plan' \in [Plans -> Plan]
        <4>1. usage[u] \in Usage
          BY <1>0 DEF TypeOK
        <4>2. [status |-> "pending", owner |-> usage[u].owner,
               scope |-> usage[u].scope, run |-> u] \in Plan
          BY <4>1 DEF Usage, Plan
        <4>3. QED
          BY <1>0, <3>2, <4>2 DEF TypeOK
      <3>3. QED
        BY <1>5, <3>1, <3>2 DEF StorePlan
    <2>3. pc' \in [Runs -> Places]
      BY <1>0, <1>5, GotoType DEF StorePlan, Steps
    <2>4. outcome' \in [Runs -> Terminal]
      <3>1. "failed" \in Terminal
        BY DEF Terminal
      <3>2. CASE UNCHANGED outcome
        BY <1>0, <3>2 DEF TypeOK
      <3>3. QED
        BY <1>0, <1>5, <3>1, <3>2, OutcomeType DEF StorePlan, Fail
    <2>5. toStore' \in [Runs -> 0..MaxCandidates]
      BY <1>0, <1>5 DEF StorePlan, TypeOK, MaxCandidates
    <2>6. QED
      BY <1>0, <1>5, <2>1, <2>3, <2>4, <2>5 DEF StorePlan, TypeOK
  <1>6. ASSUME NEW u \in Runs, StoreCandidate(u)
        PROVE  TypeOK'
    <2>1. toStore[u] > 0 /\ stored[u] + toStore[u] <= MaxCandidates
      BY <1>6 DEF StoreCandidate, IInv, Stage
    <2>2. stored[u] + 1 \in 0..MaxCandidates /\ toStore[u] - 1 \in 0..MaxCandidates
      <3>1. stored[u] \in 0..2 /\ toStore[u] \in 0..2
        BY <1>0 DEF TypeOK, MaxCandidates
      <3>2. QED
        BY <2>1, <3>1 DEF MaxCandidates
    <2>3. pc' \in [Runs -> Places]
      <3>1. {"offer", "store"} \subseteq Steps
        BY DEF Steps
      <3>2. QED
        BY <1>0, <1>6, <3>1, GotoType DEF StoreCandidate
    <2>4. outcome' \in [Runs -> Terminal]
      <3>1. "failed" \in Terminal
        BY DEF Terminal
      <3>2. CASE UNCHANGED outcome
        BY <1>0, <3>2 DEF TypeOK
      <3>3. QED
        BY <1>0, <1>6, <3>1, <3>2, OutcomeType DEF StoreCandidate, Fail
    <2>5. /\ stored' \in [Runs -> 0..MaxCandidates]
          /\ toStore' \in [Runs -> 0..MaxCandidates]
      <3>1. 0 \in 0..MaxCandidates
        BY DEF MaxCandidates
      <3>2. QED
        BY <1>0, <1>6, <2>2, <3>1 DEF StoreCandidate, TypeOK
    <2>6. QED
      BY <1>0, <1>6, <2>3, <2>4, <2>5 DEF StoreCandidate, TypeOK
  <1>7. ASSUME NEW u \in Runs, Offer(u)
        PROVE  TypeOK'
    <2>1. Closing(u) \in {"result", "error", "done"} /\ "finish" \in Steps
      BY DEF Closing, Steps
    <2>2. QED
      BY <1>0, <1>7, <2>1, EmitType DEF Offer, TypeOK, tables
  <1>8. ASSUME NEW u \in Runs, Finish(u)
        PROVE  TypeOK'
    <2>1. "complete" \in Steps
      BY DEF Steps
    <2>2. QED
      BY <1>0, <1>8, <2>1, EmitType DEF Finish, TypeOK, tables
  <1>9. ASSUME NEW u \in Runs, Complete(u)
        PROVE  TypeOK'
    <2>1. pc' \in [Runs -> Places]
      BY <1>0, <1>9 DEF Complete, Goto, TypeOK
    <2>2. /\ usage' \in [Runs -> Usage]
          /\ audit' \in [Runs -> Seq({"running"} \cup Terminal)]
      <3>1. CASE Close(u, outcome[u])
        <4>1. outcome[u] \in Terminal
          BY <1>0 DEF TypeOK
        <4>2. Append(audit[u], outcome[u]) \in Seq({"running"} \cup Terminal)
          BY <1>0, <4>1, AuditType
        <4>3. usage' \in [Runs -> Usage]
          BY <1>0, <3>1, <4>1, UsageStatusType DEF Close
        <4>4. QED
          BY <1>0, <3>1, <4>2, <4>3 DEF Close, TypeOK
      <3>2. CASE UNCHANGED <<usage, audit>>
        BY <1>0, <3>2 DEF TypeOK
      <3>3. QED
        BY <1>9, <3>1, <3>2 DEF Complete
    <2>3. QED
      BY <1>0, <1>9, <2>1, <2>2, LeaveType DEF Complete, TypeOK
  <1>10. CASE Restart
    <2>1. \A u \in Runs : [usage[u] EXCEPT !.status = "failed"] \in Usage
      BY <1>0, UsageStatusType DEF Terminal
    <2>2. usage' \in [Runs -> Usage]
      BY <1>0, <1>10, <2>1 DEF Restart, TypeOK
    <2>3. \A u \in Runs : Append(audit[u], "failed") \in Seq({"running"} \cup Terminal)
      BY <1>0, AuditType DEF Terminal
    <2>4. audit' \in [Runs -> Seq({"running"} \cup Terminal)]
      BY <1>0, <1>10, <2>3 DEF Restart, TypeOK
    <2>5. QED
      BY <1>0, <1>10, <2>2, <2>4, LeaveType DEF Restart, TypeOK
  <1>11. QED
    BY <1>0, <1>1, <1>2, <1>3, <1>4, <1>5, <1>6, <1>7, <1>8, <1>9, <1>10
       DEF Next, Step, Disconnect, ChangeMembership, TypeOK, vars, tables, locals

-----------------------------------------------------------------------------
(* Runs.                                                                   *)

\* A step that leaves the run alone.
SameRun(w) ==
    /\ pc'[w] = pc[w] /\ usage'[w] = usage[w] /\ audit'[w] = audit[w]
    /\ told'[w] = told[w] /\ stored'[w] = stored[w]
    /\ toStore'[w] = toStore[w] /\ outcome'[w] = outcome[w]

\* No plan loses its run.
PlanRunsKept == \A p \in Plans : plan[p].run # None => plan'[p].run = plan[p].run

LEMMA ResultKept ==
    ASSUME NEW w \in Runs, PlanRunsKept, ResultStored(w),
           usage'[w].action = usage[w].action, stored'[w] = stored[w], toStore'[w] = toStore[w]
    PROVE  ResultStored(w)'
  BY NullAssumption DEF ResultStored, PlanRunsKept

LEMMA RunFrame ==
    ASSUME IInv, NEW w \in Runs, SameRun(w), PlanRunsKept
    PROVE  Life(w)' /\ Stage(w)'
  <1>1. Life(w)'
    BY DEF IInv, Life, SameRun
  <1>2. ResultStored(w) => ResultStored(w)'
    BY ResultKept DEF SameRun
  <1>3. Closing(w)' = Closing(w)
    BY DEF Closing, SameRun
  <1>4. Stage(w)'
    BY <1>2, <1>3 DEF IInv, Stage, SameRun
  <1>5. QED
    BY <1>1, <1>4

\* Only StorePlan writes a plan's run, and only where there was none.
LEMMA PlansKeepRuns == IInv /\ [Next]_vars => PlanRunsKept
  <1> SUFFICES ASSUME IInv, [Next]_vars, NEW p \in Plans, plan[p].run # None
               PROVE  plan'[p].run = plan[p].run
    BY DEF PlanRunsKept
  <1>1. plan \in [Plans -> Plan]
    BY DEF IInv, TypeOK
  <1>2. plan[p].status # "absent"
    BY DEF IInv, Approvals, NoPlan
  <1>3. ASSUME NEW u \in Runs, StorePlan(u)
        PROVE  plan'[p].run = plan[p].run
    BY <1>1, <1>2, <1>3 DEF StorePlan
  <1>4. ASSUME NEW a \in Accounts, NEW q \in Plans, ApprovePlan(a, q)
        PROVE  plan'[p].run = plan[p].run
    BY <1>1, <1>4 DEF ApprovePlan, Plan
  <1>5. ASSUME NEW u \in Runs, NEW a \in Accounts, NEW s \in Scopes, NEW q \in Plans,
               ReserveApproved(u, a, s, q)
        PROVE  plan'[p].run = plan[p].run
    BY <1>1, <1>5 DEF ReserveApproved, Consume, Plan
  <1>6. CASE UNCHANGED plan
    BY <1>6
  <1>7. QED
    BY <1>3, <1>4, <1>5, <1>6
       DEF Next, Step, Stream, StoreCandidate, Offer, Finish, Complete, Reserve, Restart,
           Disconnect, ChangeMembership, vars, tables

\* The step that starts a run.
LEMMA StartRun ==
    ASSUME IInv, NEW u \in Runs, NEW row \in Usage, pc[u] = "idle", Start(u, row),
           row.status = "running", row.action \in Actions, PlanRunsKept,
           UNCHANGED <<stored, outcome, toStore, told>>
    PROVE  \A w \in Runs : Life(w)' /\ Stage(w)'
  <1>1. /\ usage \in [Runs -> Usage] /\ pc \in [Runs -> {"idle", "done", "unrecorded"} \cup Steps]
        /\ DOMAIN audit = Runs
    BY DEF IInv, TypeOK
  <1>0. Life(u)
    BY DEF IInv
  <1>2. usage'[u] = row /\ pc'[u] = "stream" /\ audit'[u] = <<"running">>
    <2>1. audit[u] = <<>>
      BY <1>0 DEF Life
    <2>2. audit'[u] = Append(audit[u], "running")
      BY <1>1 DEF Start
    <2>3. QED
      BY <1>1, <2>1, <2>2 DEF Start
  <1>3. /\ told'[u] = {} /\ stored'[u] = 0 /\ toStore'[u] = 0 /\ outcome'[u] = "succeeded"
    BY <1>0 DEF Life
  <1>4. Life(u)'
    BY <1>2 DEF Life
  <1>5. Stage(u)'
    BY <1>2, <1>3 DEF Stage
  <1>6. ASSUME NEW w \in Runs, w # u
        PROVE  SameRun(w)
    BY <1>1, <1>6 DEF SameRun, Start
  <1>7. QED
    BY <1>4, <1>5, <1>6, RunFrame

LEMMA StreamRun ==
    ASSUME IInv, NEW u \in Runs, Stream(u), PlanRunsKept
    PROVE  \A w \in Runs : Life(w)' /\ Stage(w)'
  <1>1. /\ DOMAIN pc = Runs /\ DOMAIN outcome = Runs /\ DOMAIN toStore = Runs
        /\ pc[u] = "stream" /\ UNCHANGED <<tables, told>>
    BY DEF IInv, TypeOK, Stream
  <1>2. /\ usage[u].action \in Actions /\ usage[u].status = "running"
        /\ audit[u] = <<"running">> /\ told[u] = {} /\ stored[u] = 0 /\ toStore[u] = 0
        /\ outcome[u] = "succeeded"
    BY <1>1 DEF IInv, Life, Stage, Steps
  <1>3. \/ /\ pc'[u] = "complete" /\ outcome'[u] \in {"failed", "cancelled"}
           /\ toStore'[u] = toStore[u]
        \/ pc'[u] = "offer" /\ outcome'[u] = "failed" /\ toStore'[u] = toStore[u]
        \/ /\ pc'[u] = "store" /\ outcome'[u] = outcome[u]
           /\ toStore'[u] \in 1..MaxCandidates
    BY <1>1 DEF Stream, Goto, Fail, Cancelled, MaxCandidates
  <1>4. Life(u)'
    BY <1>1, <1>2, <1>3 DEF Life, Steps, tables
  <1>5. Stage(u)'
    BY <1>1, <1>2, <1>3 DEF Stage, tables, MaxCandidates
  <1>6. ASSUME NEW w \in Runs, w # u
        PROVE  SameRun(w)
    BY <1>1, <1>6 DEF SameRun, Stream, Goto, Fail, tables
  <1>7. QED
    BY <1>4, <1>5, <1>6, RunFrame

LEMMA StorePlanRun ==
    ASSUME IInv, NEW u \in Runs, StorePlan(u), PlanRunsKept
    PROVE  \A w \in Runs : Life(w)' /\ Stage(w)'
  <1>1. /\ DOMAIN pc = Runs /\ DOMAIN outcome = Runs /\ DOMAIN toStore = Runs
        /\ DOMAIN plan = Plans
        /\ pc[u] = "store" /\ usage[u].action = "plan"
        /\ UNCHANGED <<usage, stored, audit, told>>
    BY DEF IInv, TypeOK, StorePlan
  <1>2. /\ usage[u].status = "running" /\ audit[u] = <<"running">>
        /\ told[u] = {} /\ outcome[u] = "succeeded"
    BY <1>1 DEF IInv, Life, Stage, Steps
  <1>3. pc'[u] = "offer" /\ toStore'[u] = 0
    BY <1>1 DEF StorePlan, Goto
  <1>4. \/ outcome'[u] = "failed"
        \/ outcome'[u] = "succeeded" /\ \E p \in Plans : plan'[p].run = u
    BY <1>1, <1>2 DEF StorePlan, Fail
  <1>5. Life(u)'
    BY <1>1, <1>2, <1>3 DEF Life, Steps, Actions
  <1>6. Stage(u)'
    BY <1>1, <1>2, <1>3, <1>4 DEF Stage, ResultStored
  <1>7. ASSUME NEW w \in Runs, w # u
        PROVE  SameRun(w)
    BY <1>1, <1>7 DEF SameRun, StorePlan, Goto, Fail
  <1>8. QED
    BY <1>5, <1>6, <1>7, RunFrame

LEMMA StoreCandidateRun ==
    ASSUME IInv, NEW u \in Runs, StoreCandidate(u), PlanRunsKept
    PROVE  \A w \in Runs : Life(w)' /\ Stage(w)'
  <1>1. /\ DOMAIN pc = Runs /\ DOMAIN outcome = Runs /\ DOMAIN toStore = Runs
        /\ DOMAIN stored = Runs
        /\ pc[u] = "store" /\ usage[u].action # "plan"
        /\ UNCHANGED <<usage, audit, told, plan>>
    BY DEF IInv, TypeOK, StoreCandidate
  <1>2. /\ usage[u].status = "running" /\ audit[u] = <<"running">>
        /\ usage[u].action \in Actions /\ told[u] = {} /\ outcome[u] = "succeeded"
        /\ toStore[u] > 0 /\ stored[u] + toStore[u] <= 2
    BY <1>1 DEF IInv, Life, Stage, Steps, MaxCandidates
  <1>3. stored[u] \in 0..2 /\ toStore[u] \in 0..2
    BY DEF IInv, TypeOK, MaxCandidates
  <1>4. \/ /\ pc'[u] = "offer" /\ outcome'[u] = "failed" /\ toStore'[u] = 0
        \/ /\ pc'[u] = (IF toStore[u] = 1 THEN "offer" ELSE "store")
           /\ outcome'[u] = "succeeded"
           /\ toStore'[u] = toStore[u] - 1 /\ stored'[u] = stored[u] + 1
    BY <1>1, <1>2 DEF StoreCandidate, Goto, Fail, Last
  <1>5. Life(u)'
    BY <1>1, <1>2, <1>4 DEF Life, Steps
  <1>6. Stage(u)'
    <2>1. CASE pc'[u] = "offer" /\ outcome'[u] = "failed" /\ toStore'[u] = 0
      BY <1>1, <1>2, <2>1 DEF Stage
    <2>2. CASE /\ toStore[u] = 1 /\ pc'[u] = "offer" /\ outcome'[u] = "succeeded"
               /\ toStore'[u] = 0 /\ stored'[u] = stored[u] + 1
      BY <1>1, <1>2, <1>3, <2>2 DEF Stage, ResultStored
    <2>3. CASE /\ toStore[u] = 2 /\ pc'[u] = "store" /\ outcome'[u] = "succeeded"
               /\ toStore'[u] = 1 /\ stored'[u] = stored[u] + 1
      BY <1>1, <1>2, <1>3, <2>3 DEF Stage, MaxCandidates
    <2>4. QED
      BY <1>2, <1>3, <1>4, <2>1, <2>2, <2>3
  <1>7. ASSUME NEW w \in Runs, w # u
        PROVE  SameRun(w)
    BY <1>1, <1>7 DEF SameRun, StoreCandidate, Goto, Fail
  <1>8. QED
    BY <1>5, <1>6, <1>7, RunFrame

\* An event is taken, or the client is gone.
LEMMA EmitRun ==
    ASSUME IInv, NEW u \in Runs, NEW kind, NEW next, Emit(u, kind, next)
    PROVE  /\ \/ pc'[u] = next /\ told'[u] = told[u] \cup {kind} /\ outcome'[u] = outcome[u]
              \/ pc'[u] = "complete" /\ told'[u] = told[u] /\ outcome'[u] = "cancelled"
           /\ \A w \in Runs : w # u => /\ pc'[w] = pc[w] /\ told'[w] = told[w]
                                       /\ outcome'[w] = outcome[w]
  BY DEF IInv, TypeOK, Emit, Goto, Cancelled

LEMMA OfferRun ==
    ASSUME IInv, NEW u \in Runs, Offer(u), PlanRunsKept
    PROVE  \A w \in Runs : Life(w)' /\ Stage(w)'
  <1>1. pc[u] = "offer" /\ UNCHANGED <<tables, toStore>> /\ Emit(u, Closing(u), "finish")
    BY DEF Offer
  <1>2. /\ usage[u].status = "running" /\ audit[u] = <<"running">>
        /\ usage[u].action \in Actions /\ told[u] = {} /\ toStore[u] = 0
        /\ outcome[u] \in {"succeeded", "failed"}
        /\ outcome[u] = "succeeded" => ResultStored(u)
    BY <1>1 DEF IInv, Life, Stage, Steps
  <1>3. ResultStored(u)' = ResultStored(u)
    BY <1>1 DEF ResultStored, tables
  <1>4. \/ pc'[u] = "finish" /\ told'[u] = {Closing(u)} /\ outcome'[u] = outcome[u]
        \/ pc'[u] = "complete" /\ told'[u] = {} /\ outcome'[u] = "cancelled"
    BY <1>1, <1>2, EmitRun
  <1>5. Life(u)'
    BY <1>1, <1>2, <1>4 DEF Life, Steps, tables
  <1>6. Stage(u)'
    BY <1>1, <1>2, <1>3, <1>4 DEF Stage, Closing, tables
  <1>7. ASSUME NEW w \in Runs, w # u
        PROVE  SameRun(w)
    BY <1>1, <1>7, EmitRun DEF SameRun, tables
  <1>8. QED
    BY <1>5, <1>6, <1>7, RunFrame

LEMMA FinishRun ==
    ASSUME IInv, NEW u \in Runs, Finish(u), PlanRunsKept
    PROVE  \A w \in Runs : Life(w)' /\ Stage(w)'
  <1>1. pc[u] = "finish" /\ UNCHANGED <<tables, toStore>> /\ Emit(u, "done", "complete")
    BY DEF Finish
  <1>2. /\ usage[u].status = "running" /\ audit[u] = <<"running">>
        /\ usage[u].action \in Actions /\ told[u] = {Closing(u)} /\ toStore[u] = 0
        /\ outcome[u] \in {"succeeded", "failed"}
        /\ outcome[u] = "succeeded" => ResultStored(u)
    BY <1>1 DEF IInv, Life, Stage, Steps
  <1>3. ResultStored(u)' = ResultStored(u)
    BY <1>1 DEF ResultStored, tables
  <1>4. \/ pc'[u] = "complete" /\ told'[u] = {Closing(u), "done"} /\ outcome'[u] = outcome[u]
        \/ pc'[u] = "complete" /\ told'[u] = {Closing(u)} /\ outcome'[u] = "cancelled"
    BY <1>1, <1>2, EmitRun
  <1>5. Life(u)'
    BY <1>1, <1>2, <1>4 DEF Life, Steps, tables
  <1>6. Stage(u)'
    BY <1>1, <1>2, <1>3, <1>4 DEF Stage, Closing, tables
  <1>7. ASSUME NEW w \in Runs, w # u
        PROVE  SameRun(w)
    BY <1>1, <1>7, EmitRun DEF SameRun, tables
  <1>8. QED
    BY <1>5, <1>6, <1>7, RunFrame

\* Appending to a log with one entry.
LEMMA AppendToOne ==
    ASSUME NEW S, NEW x \in S, NEW y \in S
    PROVE  Append(<<x>>, y) = <<x, y>>
  <1> DEFINE s == Append(<<x>>, y)
             t == <<x, y>>
  <1>1. <<x>> \in Seq(S) /\ Len(<<x>>) = 1
    OBVIOUS
  <1>2. s \in Seq(S) /\ Len(s) = 2 /\ s[1] = x /\ s[2] = y
    BY <1>1
  <1>3. t \in Seq(S) /\ Len(t) = 2 /\ t[1] = x /\ t[2] = y
    OBVIOUS
  <1> HIDE DEF s, t
  <1>4. \A i \in 1..Len(s) : s[i] = t[i]
    BY <1>2, <1>3
  <1>5. s = t
    BY <1>2, <1>3, <1>4, SeqEqual
  <1>6. QED
    BY <1>5 DEF s, t

\* The audit log of a run that ends.
LEMMA LogEnds ==
    ASSUME NEW status \in Terminal
    PROVE  Append(<<"running">>, status) = <<"running", status>>
  <1> DEFINE S == {"running"} \cup Terminal
  <1>1. "running" \in S /\ status \in S
    OBVIOUS
  <1> HIDE DEF S
  <1>2. QED
    BY <1>1, AppendToOne

LEMMA CompleteRun ==
    ASSUME IInv, NEW u \in Runs, Complete(u), PlanRunsKept
    PROVE  \A w \in Runs : Life(w)' /\ Stage(w)'
  <1>1. /\ DOMAIN pc = Runs /\ DOMAIN audit = Runs /\ usage[u] \in Usage
        /\ outcome[u] \in Terminal
        /\ pc[u] = "complete" /\ UNCHANGED <<plan, stored, told>> /\ Leave({u})
    BY DEF IInv, TypeOK, Complete
  <1>2. /\ usage[u].action \in Actions /\ usage[u].status = "running"
        /\ audit[u] = <<"running">> /\ toStore[u] = 0
        /\ outcome[u] = "succeeded" => told[u] = {"result", "done"} /\ ResultStored(u)
        /\ "result" \in told[u] => ResultStored(u) /\ "error" \notin told[u]
    BY <1>1 DEF IInv, Life, Stage, Steps
  <1>3. toStore'[u] = 0 /\ outcome'[u] = "succeeded"
    BY DEF Leave, Complete
  <1>4. \/ /\ pc'[u] = "done" /\ usage'[u] = [usage[u] EXCEPT !.status = outcome[u]]
           /\ audit'[u] = <<"running", outcome[u]>>
        \/ pc'[u] = "unrecorded" /\ usage'[u] = usage[u] /\ audit'[u] = audit[u]
    <2>1. CASE Close(u, outcome[u]) /\ Goto(u, "done")
      <3>1. usage'[u] = [usage[u] EXCEPT !.status = outcome[u]]
        BY <1>1, <2>1, UsageStatusType DEF Close, IInv
      <3>2. audit'[u] = Append(<<"running">>, outcome[u])
        BY <1>1, <1>2, <2>1 DEF Close
      <3>3. audit'[u] = <<"running", outcome[u]>>
        BY <1>1, <3>2, LogEnds
      <3>4. QED
        BY <1>1, <2>1, <3>1, <3>3 DEF Goto
    <2>2. CASE Goto(u, "unrecorded") /\ UNCHANGED <<usage, audit>>
      BY <1>1, <2>2 DEF Goto
    <2>3. QED
      BY <1>2, <2>1, <2>2 DEF Complete
  <1>5. usage'[u].action = usage[u].action
    BY <1>1, <1>4 DEF Usage
  <1>6. ResultStored(u) => ResultStored(u)'
    BY <1>1, <1>2, <1>3, <1>5, ResultKept
  <1>7. \/ /\ pc'[u] = "done" /\ usage'[u].status = outcome[u]
           /\ audit'[u] = <<"running", usage'[u].status>>
        \/ pc'[u] = "unrecorded" /\ usage'[u].status = "running" /\ audit'[u] = <<"running">>
    BY <1>1, <1>2, <1>4 DEF Usage
  <1>8. Life(u)'
    BY <1>1, <1>2, <1>5, <1>7 DEF Life, Steps
  <1>9. Stage(u)'
    BY <1>1, <1>2, <1>3, <1>6, <1>7 DEF Stage
  <1>10. ASSUME NEW w \in Runs, w # u
         PROVE  SameRun(w)
    BY <1>10 DEF SameRun, Complete, Close, Goto, Leave, IInv, TypeOK
  <1>11. QED
    BY <1>8, <1>9, <1>10, RunFrame

LEMMA RestartRun ==
    ASSUME IInv, Restart, PlanRunsKept
    PROVE  \A w \in Runs : Life(w)' /\ Stage(w)'
  <1> SUFFICES ASSUME NEW w \in Runs
               PROVE  Life(w)' /\ Stage(w)'
    OBVIOUS
  <1>1. /\ pc[w] \in {"idle", "done", "unrecorded"} \cup Steps /\ usage[w] \in Usage
        /\ Life(w) /\ Stage(w) /\ UNCHANGED <<plan, stored, told>>
    BY DEF IInv, TypeOK, Restart
  <1>2. toStore'[w] = 0 /\ outcome'[w] = "succeeded"
    BY DEF Restart, Leave
  <1>3. CASE pc[w] = "idle"
    <2>1. usage[w].status # "running"
      BY <1>1, <1>3 DEF Life, NoUsage
    <2>2. SameRun(w)
      BY <1>1, <1>2, <1>3, <2>1 DEF SameRun, Restart, Life, Interrupted
    <2>3. QED
      BY <2>2, RunFrame
  <1>4. CASE pc[w] # "idle"
    <2>1. usage[w].action \in Actions /\ pc'[w] = "done"
      BY <1>1, <1>4 DEF Life, Restart
    <2>2. /\ usage'[w].action = usage[w].action
          /\ audit'[w] = <<"running", usage'[w].status>>
          /\ \/ usage'[w].status = "failed"
             \/ usage'[w].status = usage[w].status /\ usage[w].status \in Terminal
      <3>1. CASE usage[w].status = "running"
        <4>1. usage'[w].status = "failed" /\ usage'[w].action = usage[w].action
          BY <1>1, <3>1 DEF Restart, Interrupted, Usage
        <4>2. audit[w] = <<"running">>
          <5>1. pc[w] # "done"
            BY <1>1, <3>1 DEF Life, Terminal
          <5>2. QED
            BY <1>1, <1>4, <5>1 DEF Life
        <4>3. audit'[w] = Append(<<"running">>, "failed")
          BY <3>1, <4>2 DEF Restart, Interrupted
        <4>4. audit'[w] = <<"running", "failed">>
          BY <4>3, LogEnds DEF Terminal
        <4>5. QED
          BY <4>1, <4>4
      <3>2. CASE usage[w].status # "running"
        <4>1. pc[w] = "done"
          BY <1>1, <1>4, <3>2 DEF Life
        <4>2. usage'[w] = usage[w] /\ audit'[w] = audit[w]
          BY <3>2 DEF Restart, Interrupted
        <4>3. QED
          BY <1>1, <4>1, <4>2 DEF Life
      <3>3. QED
        BY <3>1, <3>2
    <2>3. Life(w)'
      BY <2>1, <2>2 DEF Life, Steps, Terminal
    <2>4. ResultStored(w) => ResultStored(w)'
      BY <1>1, <1>2, <2>2 DEF ResultStored
    <2>5. Stage(w)'
      BY <1>1, <1>2, <2>1, <2>2, <2>4 DEF Stage
    <2>6. QED
      BY <2>3, <2>5
  <1>5. QED
    BY <1>3, <1>4

\* Every run keeps its part of the invariant, whoever moves.
LEMMA RunStep ==
    ASSUME IInv, [Next]_vars
    PROVE  \A w \in Runs : Life(w)' /\ Stage(w)'
  <1>0. PlanRunsKept
    BY PlansKeepRuns
  <1>1. ASSUME NEW u \in Runs, NEW a \in Accounts, NEW s \in Scopes,
               NEW action \in Actions \ {"build"}, Reserve(u, a, s, action)
        PROVE  \A w \in Runs : Life(w)' /\ Stage(w)'
    <2> DEFINE row == [status |-> "running", owner |-> a, scope |-> s, action |-> action,
                       approval |-> None]
    <2>1. row \in Usage /\ row.status = "running" /\ row.action \in Actions
      BY DEF Usage
    <2>2. Start(u, row) /\ pc[u] = "idle" /\ UNCHANGED <<stored, outcome, toStore, told>>
      BY <1>1 DEF Reserve
    <2> HIDE DEF row
    <2>3. QED
      BY <1>0, <2>1, <2>2, StartRun
  <1>2. ASSUME NEW u \in Runs, NEW a \in Accounts, NEW s \in Scopes, NEW p \in Plans,
               ReserveApproved(u, a, s, p)
        PROVE  \A w \in Runs : Life(w)' /\ Stage(w)'
    <2> DEFINE row == [status |-> "running", owner |-> a, scope |-> s, action |-> "build",
                       approval |-> p]
    <2>1. row \in Usage /\ row.status = "running" /\ row.action \in Actions
      BY DEF Usage, Actions
    <2>2. Start(u, row) /\ pc[u] = "idle" /\ UNCHANGED <<stored, outcome, toStore, told>>
      BY <1>2 DEF ReserveApproved
    <2> HIDE DEF row
    <2>3. QED
      BY <1>0, <2>1, <2>2, StartRun
  <1>3. CASE UNCHANGED <<pc, usage, audit, told, stored, toStore, outcome>>
    BY <1>0, <1>3, RunFrame DEF SameRun
  <1>4. QED
    BY <1>0, <1>1, <1>2, <1>3, StreamRun, StorePlanRun, StoreCandidateRun, OfferRun,
       FinishRun, CompleteRun, RestartRun
       DEF Next, Step, ApprovePlan, Disconnect, ChangeMembership, vars, tables, locals

-----------------------------------------------------------------------------
(* Approvals.                                                              *)

\* A step that leaves what a run was reserved for.
SameReservation(u) ==
    /\ usage'[u].action = usage[u].action /\ usage'[u].owner = usage[u].owner
    /\ usage'[u].scope = usage[u].scope /\ usage'[u].approval = usage[u].approval

\* Only the two reservations write what a run was reserved for.
LEMMA ReservationsKept ==
    ASSUME IInv, NEW u \in Runs,
           \/ UNCHANGED usage
           \/ Restart
           \/ \E w \in Runs : Complete(w)
    PROVE  SameReservation(u)
  <1>1. usage \in [Runs -> Usage] /\ usage[u] \in Usage
    BY DEF IInv, TypeOK
  <1>2. CASE UNCHANGED usage
    BY <1>2 DEF SameReservation
  <1>3. CASE Restart
    BY <1>1, <1>3 DEF SameReservation, Restart, Usage
  <1>4. ASSUME NEW w \in Runs, Complete(w)
        PROVE  SameReservation(u)
    BY <1>1, <1>4 DEF SameReservation, Complete, Close, Usage
  <1>5. QED
    BY <1>2, <1>3, <1>4

\* A plan that is not consumed was not spent.
LEMMA Unspent ==
    ASSUME IInv, NEW p \in Plans, plan[p].status # "consumed", NEW u \in Runs
    PROVE  usage[u].approval # p
  BY NullAssumption DEF IInv, Approvals

LEMMA ApprovalsStep == IInv /\ [Next]_vars => Approvals'
  <1> SUFFICES ASSUME IInv, [Next]_vars PROVE Approvals'
    OBVIOUS
  <1>0. Approvals /\ plan \in [Plans -> Plan] /\ usage \in [Runs -> Usage]
    BY DEF IInv, TypeOK
  <1>1. ASSUME NEW u \in Runs, NEW a \in Accounts, NEW s \in Scopes,
               NEW action \in Actions \ {"build"}, Reserve(u, a, s, action)
        PROVE  Approvals'
    <2>1. /\ usage'[u].approval = None /\ usage'[u].action # "build" /\ plan' = plan
          /\ \A w \in Runs \ {u} : usage'[w] = usage[w]
      BY <1>0, <1>1 DEF Reserve, Start
    <2>2. usage[u].approval = None
      BY <1>1 DEF Reserve, IInv, Life, NoUsage
    <2>3. QED
      BY <1>0, <2>1, <2>2, NullAssumption DEF Approvals
  <1>2. ASSUME NEW u \in Runs, NEW a \in Accounts, NEW s \in Scopes, NEW p \in Plans,
               ReserveApproved(u, a, s, p)
        PROVE  Approvals'
    <2>1. /\ usage'[u].approval = p /\ usage'[u].action = "build"
          /\ usage'[u].owner = a /\ usage'[u].scope = s
          /\ \A w \in Runs \ {u} : usage'[w] = usage[w]
      BY <1>0, <1>2 DEF ReserveApproved, Start
    <2>2. /\ plan'[p].status = "consumed" /\ plan'[p].owner = a /\ plan'[p].scope = s
          /\ \A q \in Plans \ {p} : plan'[q] = plan[q]
      BY <1>0, <1>2 DEF ReserveApproved, Consume, Usable, Plan
    <2>3. plan[p].status = "approved"
      BY <1>2 DEF ReserveApproved, Usable
    <2>4. usage[u].approval = None
      BY <1>2 DEF ReserveApproved, IInv, Life, NoUsage
    <2>5. \A w \in Runs : usage[w].approval # p
      BY <2>3, Unspent
    <2>6. QED
      BY <1>0, <2>1, <2>2, <2>4, <2>5, NullAssumption DEF Approvals
  <1>3. ASSUME NEW a \in Accounts, NEW p \in Plans, ApprovePlan(a, p)
        PROVE  Approvals'
    <2>1. plan'[p].status = "approved" /\ \A q \in Plans \ {p} : plan'[q] = plan[q]
      BY <1>0, <1>3 DEF ApprovePlan, Plan
    <2>2. \A w \in Runs : usage[w].approval # p
      BY <1>3, Unspent DEF ApprovePlan, Approvable
    <2>3. usage' = usage
      BY <1>3 DEF ApprovePlan
    <2>4. QED
      BY <1>0, <2>1, <2>2, <2>3 DEF Approvals
  <1>4. ASSUME NEW u \in Runs, StorePlan(u)
        PROVE  Approvals'
    <2>1. usage' = usage
      BY <1>4 DEF StorePlan
    <2>2. CASE UNCHANGED plan
      BY <1>0, <2>1, <2>2 DEF Approvals
    <2>3. ASSUME NEW p \in Plans, plan[p].status = "absent",
                 plan' = [plan EXCEPT ![p] = [status |-> "pending", owner |-> usage[u].owner,
                                              scope |-> usage[u].scope, run |-> u]]
          PROVE  Approvals'
      <3>1. plan'[p].status = "pending" /\ \A q \in Plans \ {p} : plan'[q] = plan[q]
        BY <1>0, <2>3
      <3>2. \A w \in Runs : usage[w].approval # p
        BY <2>3, Unspent
      <3>3. QED
        BY <1>0, <2>1, <3>1, <3>2 DEF Approvals
    <2>4. QED
      BY <1>4, <2>2, <2>3 DEF StorePlan
  <1>5. ASSUME UNCHANGED plan, \A u \in Runs : SameReservation(u)
        PROVE  Approvals'
    BY <1>0, <1>5 DEF Approvals, SameReservation
  <1>6. QED
    BY <1>1, <1>2, <1>3, <1>4, <1>5, ReservationsKept
       DEF Next, Step, Stream, StoreCandidate, Offer, Finish, Complete, Restart, Disconnect,
           ChangeMembership, vars, tables

-----------------------------------------------------------------------------
(* The budget.                                                             *)

\* A set of rows is finite, as part of the rows that exist.
LEMMA RowsFinite ==
    ASSUME IInv, NEW A \in SUBSET Actions
    PROVE  IsFiniteSet(RowsOf(A)) /\ Cardinality(RowsOf(A)) \in Nat
  <1>1. RowsOf(A) \subseteq RowsOf(Actions)
    BY DEF RowsOf
  <1>2. IsFiniteSet(RowsOf(Actions))
    BY DEF IInv, Budget
  <1>3. QED
    BY <1>1, <1>2, FS_Subset, FS_CardinalityType

\* A reservation adds its row to the rows of its action, and to no others.
LEMMA StartRows ==
    ASSUME IInv, NEW u \in Runs, NEW row, pc[u] = "idle", Start(u, row),
           NEW A \in SUBSET Actions
    PROVE  /\ RowsOf(A)' = IF row.action \in A THEN RowsOf(A) \cup {u} ELSE RowsOf(A)
           /\ u \notin RowsOf(A)
  <1>1. usage'[u] = row /\ \A w \in Runs \ {u} : usage'[w] = usage[w]
    BY DEF IInv, TypeOK, Start
  <1>2. usage[u].action \notin A
    BY DEF IInv, Life, NoUsage, Actions
  <1>3. QED
    BY <1>1, <1>2 DEF RowsOf

\* Its cost is what the workspace has used more.
LEMMA StartUsed ==
    ASSUME IInv, NEW u \in Runs, NEW row, row.action \in Actions, pc[u] = "idle", Start(u, row)
    PROVE  /\ IsFiniteSet(RowsOf(Actions))'
           /\ Used \in Nat /\ Used' = Used + Cost(row.action)
  <1> DEFINE Count(A) == Cardinality(RowsOf(A))
             Own(A) == IF row.action \in A THEN 1 ELSE 0
  <1>1. ASSUME NEW A \in SUBSET Actions
        PROVE  /\ IsFiniteSet(RowsOf(A)') /\ Count(A) \in Nat
               /\ Cardinality(RowsOf(A)') = Count(A) + Own(A)
    <2>1. IsFiniteSet(RowsOf(A)) /\ Count(A) \in Nat
      BY RowsFinite
    <2>2. /\ RowsOf(A)' = IF row.action \in A THEN RowsOf(A) \cup {u} ELSE RowsOf(A)
          /\ u \notin RowsOf(A)
      BY StartRows
    <2>3. /\ IsFiniteSet(RowsOf(A) \cup {u})
          /\ Cardinality(RowsOf(A) \cup {u}) = Count(A) + 1
      BY <2>1, <2>2, FS_AddElement
    <2>4. QED
      BY <2>1, <2>2, <2>3
  <1>2. {"plan"} \in SUBSET Actions /\ {"race"} \in SUBSET Actions
        /\ {"build", "revise"} \in SUBSET Actions /\ Actions \in SUBSET Actions
    BY DEF Actions
  <1>3. Cost("plan") = 1 /\ Cost("race") = 8 /\ Cost("build") = 4 /\ Cost("revise") = 4
    BY DEF Cost
  <1>4. /\ Count({"plan"}) \in Nat /\ Count({"race"}) \in Nat
        /\ Count({"build", "revise"}) \in Nat
        /\ Own({"plan"}) \in Nat /\ Own({"race"}) \in Nat /\ Own({"build", "revise"}) \in Nat
    BY <1>1, <1>2
  <1>5. Used = Count({"plan"}) + 8 * Count({"race"}) + 4 * Count({"build", "revise"})
    BY <1>3, <1>4 DEF Used
  <1>6. Used' = Count({"plan"}) + Own({"plan"}) + 8 * (Count({"race"}) + Own({"race"}))
                + 4 * (Count({"build", "revise"}) + Own({"build", "revise"}))
    <2>1. Used' = Cost("plan") * Cardinality(RowsOf({"plan"})')
                  + Cost("race") * Cardinality(RowsOf({"race"})')
                  + Cost("build") * Cardinality(RowsOf({"build", "revise"})')
      BY DEF Used
    <2>2. /\ Cardinality(RowsOf({"plan"})') = Count({"plan"}) + Own({"plan"})
          /\ Cardinality(RowsOf({"race"})') = Count({"race"}) + Own({"race"})
          /\ Cardinality(RowsOf({"build", "revise"})') =
                 Count({"build", "revise"}) + Own({"build", "revise"})
      BY <1>1, <1>2
    <2> HIDE DEF Count, Own
    <2>3. QED
      BY <1>3, <1>4, <2>1, <2>2
  <1>7. Cost(row.action) = Own({"plan"}) + 8 * Own({"race"}) + 4 * Own({"build", "revise"})
    <2>1. CASE row.action = "plan"
      BY <1>3, <2>1
    <2>2. CASE row.action = "race"
      BY <1>3, <2>2
    <2>3. CASE row.action = "build"
      BY <1>3, <2>3
    <2>4. CASE row.action = "revise"
      BY <1>3, <2>4
    <2>5. QED
      BY <2>1, <2>2, <2>3, <2>4 DEF Actions
  <1>8. IsFiniteSet(RowsOf(Actions))'
    BY <1>1, <1>2
  <1> HIDE DEF Count, Own
  <1>9. QED
    BY <1>4, <1>5, <1>6, <1>7, <1>8

LEMMA BudgetStep == IInv /\ [Next]_vars => Budget'
  <1> SUFFICES ASSUME IInv, [Next]_vars PROVE Budget'
    OBVIOUS
  <1>0. Budget /\ usage \in [Runs -> Usage]
    BY DEF IInv, TypeOK
  <1>1. ASSUME NEW u \in Runs, NEW a \in Accounts, NEW s \in Scopes,
               NEW action \in Actions \ {"build"}, Reserve(u, a, s, action)
        PROVE  Budget'
    <2> DEFINE row == [status |-> "running", owner |-> a, scope |-> s, action |-> action,
                       approval |-> None]
    <2>1. row.action = action /\ action \in Actions /\ Start(u, row) /\ pc[u] = "idle"
      BY <1>1 DEF Reserve
    <2> HIDE DEF row
    <2>2. /\ IsFiniteSet(RowsOf(Actions))'
          /\ Used \in Nat /\ Used' = Used + Cost(action)
      BY <2>1, StartUsed
    <2>3. Used + Cost(action) <= Limit
      BY <1>1 DEF Reserve, Affordable
    <2>4. QED
      BY <2>2, <2>3 DEF Budget, WithinLimit
  <1>2. ASSUME NEW u \in Runs, NEW a \in Accounts, NEW s \in Scopes, NEW p \in Plans,
               ReserveApproved(u, a, s, p)
        PROVE  Budget'
    <2> DEFINE row == [status |-> "running", owner |-> a, scope |-> s, action |-> "build",
                       approval |-> p]
    <2>1. row.action = "build" /\ row.action \in Actions /\ Start(u, row) /\ pc[u] = "idle"
      BY <1>2 DEF ReserveApproved, Actions
    <2> HIDE DEF row
    <2>2. /\ IsFiniteSet(RowsOf(Actions))'
          /\ Used \in Nat /\ Used' = Used + Cost("build")
      BY <2>1, StartUsed
    <2>3. Used + Cost("build") <= Limit
      BY <1>2 DEF ReserveApproved, Affordable
    <2>4. QED
      BY <2>2, <2>3 DEF Budget, WithinLimit
  <1>3. ASSUME \A u \in Runs : SameReservation(u)
        PROVE  Budget'
    <2>1. \A A : RowsOf(A)' = RowsOf(A)
      BY <1>3 DEF RowsOf, SameReservation
    <2>2. Used' = Used
      BY <2>1 DEF Used
    <2>3. QED
      BY <1>0, <2>1, <2>2 DEF Budget, WithinLimit
  <1>4. QED
    BY <1>1, <1>2, <1>3, ReservationsKept
       DEF Next, Step, ApprovePlan, Stream, StorePlan, StoreCandidate, Offer, Finish,
           Disconnect, ChangeMembership, vars, tables

-----------------------------------------------------------------------------
(* The theorems.                                                           *)

LEMMA InvInit == Init => IInv
  <1> SUFFICES ASSUME Init PROVE IInv
    OBVIOUS
  <1>1. TypeOK
    BY TypeInit
  <1>2. ASSUME NEW u \in Runs
        PROVE  Life(u) /\ Stage(u)
    <2>1. /\ pc[u] = "idle" /\ usage[u] = NoUsage /\ audit[u] = <<>> /\ told[u] = {}
          /\ stored[u] = 0 /\ toStore[u] = 0 /\ outcome[u] = "succeeded"
      BY DEF Init
    <2>2. Life(u)
      BY <2>1 DEF Life, Steps
    <2>3. Stage(u)
      BY <2>1 DEF Stage, NoUsage
    <2>4. QED
      BY <2>2, <2>3
  <1>3. Approvals
    BY DEF Init, Approvals, NoUsage, NoPlan
  <1>4. Budget
    <2>1. \A A \in SUBSET Actions : RowsOf(A) = {}
      BY DEF Init, RowsOf, NoUsage, Actions
    <2>2. {"plan"} \in SUBSET Actions /\ {"race"} \in SUBSET Actions
          /\ {"build", "revise"} \in SUBSET Actions /\ Actions \in SUBSET Actions
      BY DEF Actions
    <2>3. IsFiniteSet({}) /\ Cardinality({}) = 0
      BY FS_EmptySet
    <2>4. Cost("plan") = 1 /\ Cost("race") = 8 /\ Cost("build") = 4
      BY DEF Cost
    <2>5. Used = 0
      BY <2>1, <2>2, <2>3, <2>4 DEF Used
    <2>6. QED
      BY <2>1, <2>2, <2>3, <2>5, LimitAssumption DEF Budget, WithinLimit
  <1>5. QED
    BY <1>1, <1>2, <1>3, <1>4 DEF IInv

\* In every behaviour of the service each run's row, audit events, stored results
\* and messages keep to its program counter, and approvals and credits to the rows.
THEOREM Invariance == Spec => []IInv
  <1>1. IInv /\ [Next]_vars => IInv'
    BY TypeStep, RunStep, ApprovalsStep, BudgetStep DEF IInv
  <1>2. QED
    BY InvInit, <1>1, PTL DEF Spec

\* Every row of the usage, plan and audit tables, and every goroutine, keeps its shape.
THEOREM TypeCorrect == Spec => []TypeOK
  <1>1. IInv => TypeOK
    BY DEF IInv
  <1>2. QED
    BY Invariance, <1>1, PTL

\* However many reservations interleave, and whatever becomes of the runs, a
\* workspace's reserved credits never exceed its credit limit.
THEOREM CreditsWithinLimit == Spec => []WithinLimit
  <1>1. IInv => WithinLimit
    BY DEF IInv, Budget
  <1>2. QED
    BY Invariance, <1>1, PTL

\* A build spends an approved plan of its own account and scope, and no approval is
\* spent by two builds.
THEOREM ApprovalsSpentOnce == Spec => []OneBuildPerApproval
  <1>1. ASSUME IInv
        PROVE  OneBuildPerApproval
    <2>1. Approvals
      BY <1>1 DEF IInv
    <2>2. ASSUME NEW u \in RowsOf({"build"})
          PROVE  LET p == usage[u].approval
                 IN  /\ p # None
                     /\ plan[p].status = "consumed"
                     /\ plan[p].owner = usage[u].owner /\ plan[p].scope = usage[u].scope
      BY <2>1, <2>2, NullAssumption DEF Approvals, RowsOf
    <2>3. ASSUME NEW p \in Plans
          PROVE  LET by == {u \in Runs : usage[u].approval = p}
                 IN  IF plan[p].status = "consumed" THEN \E u \in by : by = {u} ELSE by = {}
      <3>1. CASE plan[p].status = "consumed"
        <4>1. PICK u \in Runs : usage[u].approval = p
          BY <2>1, <3>1 DEF Approvals
        <4>2. \A w \in Runs : usage[w].approval = p => w = u
          BY <2>1, <4>1, NullAssumption DEF Approvals
        <4>3. QED
          BY <3>1, <4>1, <4>2
      <3>2. CASE plan[p].status # "consumed"
        BY <1>1, <3>2, Unspent
      <3>3. QED
        BY <3>1, <3>2
    <2>4. QED
      BY <2>2, <2>3 DEF OneBuildPerApproval
  <1>2. QED
    BY Invariance, <1>1, PTL

\* The audit log has one start for each run and, once it ended, the one end that its
\* row has, whether the run, its failure or a restart closed it.
THEOREM AuditAgrees == Spec => []AuditTellsAll
  <1>1. ASSUME IInv
        PROVE  AuditTellsAll
    <2>1. ASSUME NEW u \in Runs
          PROVE  \/ usage[u].status = "absent" /\ audit[u] = <<>>
                 \/ usage[u].status = "running" /\ audit[u] = <<"running">>
                 \/ usage[u].status \in Terminal /\ audit[u] = <<"running", usage[u].status>>
      <3>1. Life(u) /\ pc[u] \in {"idle", "done", "unrecorded"} \cup Steps
        BY <1>1 DEF IInv, TypeOK
      <3>2. CASE pc[u] = "idle"
        BY <3>1, <3>2 DEF Life, NoUsage
      <3>3. CASE pc[u] = "done"
        BY <3>1, <3>3 DEF Life
      <3>4. CASE pc[u] \in Steps \cup {"unrecorded"}
        BY <3>1, <3>4 DEF Life
      <3>5. QED
        BY <3>1, <3>2, <3>3, <3>4
    <2>2. QED
      BY <2>1 DEF AuditTellsAll
  <1>2. QED
    BY Invariance, <1>1, PTL

\* A row that says running belongs to a live goroutine, or to one whose last write
\* the database refused.
THEOREM RunningIsLive == Spec => []NoRowForgotten
  <1>1. ASSUME IInv, NEW u \in Runs, usage[u].status = "running"
        PROVE  pc[u] \in Steps \cup {"unrecorded"}
    <2>1. Life(u) /\ pc[u] \in {"idle", "done", "unrecorded"} \cup Steps
      BY <1>1 DEF IInv, TypeOK
    <2>2. QED
      BY <1>1, <2>1 DEF Life, NoUsage, Terminal
  <1>2. IInv => NoRowForgotten
    BY <1>1 DEF NoRowForgotten
  <1>3. QED
    BY Invariance, <1>2, PTL

\* A result that the client was told of is in the database, and no error follows it.
THEOREM ResultsToldAreStored == Spec => []ToldIsStored
  <1>1. IInv => ToldIsStored
    BY DEF IInv, Stage, ToldIsStored
  <1>2. QED
    BY Invariance, <1>1, PTL

\* A run is recorded as a success only if its client was sent the stored result and
\* the end of the stream.
THEOREM SuccessIsDelivered == Spec => []SucceededDelivered
  <1>1. IInv => SucceededDelivered
    BY DEF IInv, Stage, SucceededDelivered
  <1>2. QED
    BY Invariance, <1>1, PTL

\* No step takes a plan back, or past its approval.
THEOREM PlansAdvance == Spec => PlanAdvances
  <1> DEFINE Moved(p) == \/ plan'[p] = plan[p]
                         \/ <<plan[p].status, plan'[p].status>> \in
                                {<<"absent", "pending">>, <<"pending", "approved">>,
                                 <<"approved", "consumed">>}
  <1>1. ASSUME IInv, [Next]_vars, NEW p \in Plans
        PROVE  Moved(p)
    <2>1. plan \in [Plans -> Plan] /\ plan[p] \in Plan
      BY <1>1 DEF IInv, TypeOK
    <2>2. ASSUME NEW u \in Runs, StorePlan(u)
          PROVE  Moved(p)
      BY <2>1, <2>2 DEF StorePlan
    <2>3. ASSUME NEW a \in Accounts, NEW q \in Plans, ApprovePlan(a, q)
          PROVE  Moved(p)
      BY <2>1, <2>3 DEF ApprovePlan, Approvable, Plan
    <2>4. ASSUME NEW u \in Runs, NEW a \in Accounts, NEW s \in Scopes, NEW q \in Plans,
                 ReserveApproved(u, a, s, q)
          PROVE  Moved(p)
      BY <2>1, <2>4 DEF ReserveApproved, Consume, Usable, Plan
    <2>5. CASE UNCHANGED plan
      BY <2>5
    <2>6. QED
      BY <1>1, <2>2, <2>3, <2>4, <2>5
         DEF Next, Step, Stream, StoreCandidate, Offer, Finish, Complete, Reserve, Restart,
             Disconnect, ChangeMembership, vars, tables
  <1>2. IInv /\ [Next]_vars => [\A p \in Plans : Moved(p)]_vars
    BY <1>1
  <1>3. QED
    BY Invariance, <1>2, PTL DEF Spec, PlanAdvances

\* No step writes a row that was closed: neither a late goroutine nor recovery.
THEOREM ClosedRowsStay == Spec => ClosedForGood
  <1> DEFINE Kept == \A u \in Runs : usage[u].status \in Terminal => usage'[u] = usage[u]
  <1>1. ASSUME IInv, [Next]_vars, NEW u \in Runs, usage[u].status \in Terminal
        PROVE  usage'[u] = usage[u]
    <2>1. usage \in [Runs -> Usage] /\ usage[u].status # "running" /\ pc[u] # "idle"
      BY <1>1 DEF IInv, TypeOK, Life, NoUsage, Terminal
    <2>2. ASSUME NEW w \in Runs, NEW row, Start(w, row), pc[w] = "idle"
          PROVE  usage'[u] = usage[u]
      BY <2>1, <2>2 DEF Start
    <2>3. ASSUME NEW w \in Runs, Complete(w)
          PROVE  usage'[u] = usage[u]
      BY <1>1, <2>1, <2>3 DEF Complete, Close, IInv, Life, Steps
    <2>4. CASE Restart
      BY <2>1, <2>4 DEF Restart, Interrupted
    <2>5. CASE UNCHANGED usage
      BY <2>5
    <2>6. QED
      BY <1>1, <2>2, <2>3, <2>4, <2>5
         DEF Next, Step, Stream, StorePlan, StoreCandidate, Offer, Finish, Reserve,
             ReserveApproved, ApprovePlan, Disconnect, ChangeMembership, vars, tables
  <1>2. IInv /\ [Next]_vars => [Kept]_vars
    BY <1>1
  <1>3. QED
    BY Invariance, <1>2, PTL DEF Spec, ClosedForGood
=============================================================================
