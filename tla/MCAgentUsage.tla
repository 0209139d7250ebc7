---------------------------- MODULE MCAgentUsage ----------------------------
(* Small instances of AgentUsage. *)
EXTENDS AgentUsage, TLC

\* Nothing tells two runs, two plans, two accounts or two scopes apart.
Interchangeable == Permutations(Runs) \cup Permutations(Plans)
              \cup Permutations(Accounts) \cup Permutations(Scopes)

\* Bound: at most two runs are under way, and one client or account is gone, at a time.
TwoUnderWay ==
    /\ Cardinality({u \in Runs : pc[u] \in Steps}) <= 2
    /\ Cardinality({u \in Runs : ~listening[u]}) + Cardinality(Accounts \ members) <= 1
=============================================================================
