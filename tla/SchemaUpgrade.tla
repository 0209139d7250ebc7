---------------------------- MODULE SchemaUpgrade ----------------------------
(***************************************************************************)
(* The start of the server over the database it finds: missing tables and  *)
(* indexes are created, and tables of earlier releases are brought up to   *)
(* date.  Every statement is a transaction of its own, so a server that    *)
(* stops, on an error or otherwise, leaves what it had done, and the next  *)
(* start begins again from the first statement.                            *)
(*                                                                         *)
(* Followed here are the rows of agent_usage, which one migration moves    *)
(* to a table of the same name; its two indexes, whose names belong to     *)
(* the database and move with a table that is renamed; the columns that    *)
(* other tables lacked; and what earlier candidates lack.                  *)
(***************************************************************************)
EXTENDS Naturals, Sequences

CONSTANTS Rows,          \* the rows of agent_usage there can be
          MaxCrashes     \* bounds how often the server is killed

ASSUME CrashAssumption == MaxCrashes \in Nat

VARIABLES
    usage, legacy,       \* the tables agent_usage and agent_usage_legacy
    index,               \* the table each index of agent_usage is on
    columns,             \* the columns that other tables may lack
    policies,            \* every candidate has a safety policy on record
    prompts,             \* the committed candidates carry their versions' prompts
    pc,                  \* the statement the server is about to execute
    died,                \* the statements before which an earlier start ended
    crashes

tables == <<usage, legacy, index>>
others == <<columns, policies, prompts>>
vars   == <<tables, others, pc, died, crashes>>

Indexes == {"agent_usage_workspace", "agent_usage_approval"}
Columns == {"credit_limit", "plan_prompt", "candidate_prompt", "artifact_id"}

\* A table's actions are those its CHECK admits; the old ones lack iterate or race.
Table    == [actions: {"no table", "old", "new"}, approval: BOOLEAN, rows: SUBSET Rows]
NoTable  == [actions |-> "no table", approval |-> FALSE, rows |-> {}]
NewTable == [actions |-> "new", approval |-> TRUE, rows |-> {}]

\* The statements in their order; a migration that is not needed is passed over.
Creations == <<"workspaces", "agent_usage", "agent_usage_workspace", "approved_plans",
               "build_candidates", "policies", "build_verifications">>
DropFirst == <<"rename", "create", "drop", "copy", "index">>
Move      == <<"rename", "create", "copy", "drop", "index">>
Approvals == <<"approval_id", "agent_usage_approval">>
ApprovalsFirst == Approvals \o Move \o <<"credit_limit">>
Upgrades  == Move \o <<"credit_limit">> \o Approvals
Steps     == Creations \o Upgrades \o
             <<"plan_prompt", "candidate_prompt", "backfill", "artifact_id", "serving">>

After(step) == Steps[1 + CHOOSE i \in DOMAIN Steps : Steps[i] = step]

\* The table that a column belongs to is created whole.
Home == [credit_limit |-> "workspaces", plan_prompt |-> "approved_plans",
         candidate_prompt |-> "build_candidates", artifact_id |-> "build_verifications"]

\* A new database, or one of an earlier release.
Init ==
    /\ usage \in {NoTable} \cup [actions: {"old", "new"}, approval: BOOLEAN, rows: SUBSET Rows]
    /\ legacy = NoTable
    /\ index \in [Indexes -> {"none", "usage"}]
    /\ usage = NoTable => index["agent_usage_workspace"] = "none"
    /\ ~usage.approval => index["agent_usage_approval"] = "none"
    /\ columns \in [Columns -> {"no table", "missing", "there"}]
    /\ policies \in BOOLEAN /\ prompts \in BOOLEAN
    /\ columns["candidate_prompt"] = "no table" => policies
    /\ prompts <=> columns["candidate_prompt"] # "missing"
    /\ pc = "down" /\ died = {} /\ crashes = 0

-----------------------------------------------------------------------------
(* Statements.  A column that is there cannot be added, nor a table or an  *)
(* index made whose name is taken; and copying the rows of agent_usage     *)
(* names a column that an old table need not have.                         *)

LacksAlways(c) == TRUE
Lacks(c) == columns[c] = "missing"

Executable ==
    CASE pc = "rename"   -> usage.actions = "old" => legacy = NoTable
      [] pc = "copy"     -> legacy # NoTable => legacy.approval
      [] pc = "index"    -> index["agent_usage_workspace"] = "none"
      [] pc \in Columns  -> Lacks(pc) => columns[pc] = "missing"
      [] OTHER           -> TRUE

Proceed == Executable /\ pc' = After(pc) /\ UNCHANGED <<died, crashes>>

Fail ==
    /\ ~Executable
    /\ pc' = "down" /\ died' = died \cup {pc}
    /\ UNCHANGED <<tables, others, crashes>>

-----------------------------------------------------------------------------
(* Creating what is missing.                                               *)

CreateTable ==
    /\ \E c \in Columns : Home[c] = pc
    /\ columns' = [c \in Columns |-> IF Home[c] = pc /\ columns[c] = "no table"
                                      THEN "there" ELSE columns[c]]
    /\ Proceed
    /\ UNCHANGED <<tables, policies, prompts>>

CreateUsage ==
    /\ pc = "agent_usage"
    /\ usage' = IF usage = NoTable THEN NewTable ELSE usage
    /\ Proceed
    /\ UNCHANGED <<legacy, index, others>>

\* An index that exists, on whatever table, is left where it is.
CreateIndex ==
    /\ pc \in Indexes
    /\ index' = [index EXCEPT ![pc] = IF @ = "none" THEN "usage" ELSE @]
    /\ Proceed
    /\ UNCHANGED <<usage, legacy, others>>

RecordPolicies ==
    /\ pc = "policies"
    /\ policies' = TRUE
    /\ Proceed
    /\ UNCHANGED <<tables, columns, prompts>>

-----------------------------------------------------------------------------
(* The rows of agent_usage move to a table that admits more actions.       *)

IndexesMove(from, to) == [i \in Indexes |-> IF index[i] = from THEN to ELSE index[i]]

UpToDate ==
    /\ pc = "rename" /\ usage.actions = "new"
    /\ pc' = After("index")
    /\ UNCHANGED <<tables, others, died, crashes>>

Rename ==
    /\ pc = "rename" /\ usage.actions = "old"
    /\ legacy' = usage /\ usage' = NoTable
    /\ index' = IndexesMove("usage", "legacy")
    /\ Proceed
    /\ UNCHANGED others

Create ==
    /\ pc = "create"
    /\ usage' = NewTable
    /\ Proceed
    /\ UNCHANGED <<legacy, index, others>>

Copy ==
    /\ pc = "copy"
    /\ usage' = [usage EXCEPT !.rows = @ \cup legacy.rows]
    /\ Proceed
    /\ UNCHANGED <<legacy, index, others>>

Drop ==
    /\ pc = "drop"
    /\ legacy' = NoTable
    /\ index' = IndexesMove("legacy", "none")
    /\ Proceed
    /\ UNCHANGED <<usage, others>>

Index ==
    /\ pc = "index"
    /\ index' = [index EXCEPT !["agent_usage_workspace"] = "usage"]
    /\ Proceed
    /\ UNCHANGED <<usage, legacy, others>>

-----------------------------------------------------------------------------
(* Columns that were added later.                                          *)

AddColumn ==
    /\ pc \in Columns /\ Lacks(pc)
    /\ columns' = [columns EXCEPT ![pc] = "there"]
    /\ Proceed
    /\ UNCHANGED <<tables, policies, prompts>>

ColumnThere ==
    /\ pc \in Columns /\ ~Lacks(pc)
    /\ pc' = IF pc = "candidate_prompt" THEN After("backfill") ELSE After(pc)
    /\ UNCHANGED <<tables, others, died, crashes>>

AddApproval ==
    /\ pc = "approval_id"
    /\ usage' = [usage EXCEPT !.approval = TRUE]
    /\ Proceed
    /\ UNCHANGED <<legacy, index, others>>

Backfill ==
    /\ pc = "backfill"
    /\ prompts' = TRUE
    /\ Proceed
    /\ UNCHANGED <<tables, columns, policies>>

-----------------------------------------------------------------------------
(* The server.                                                             *)

Start ==
    /\ pc = "down" /\ pc' = Steps[1]
    /\ UNCHANGED <<tables, others, died, crashes>>

\* A run reserves credits.
Reserve ==
    /\ pc = "serving"
    /\ \E r \in Rows \ (usage.rows \cup legacy.rows) :
          usage' = [usage EXCEPT !.rows = @ \cup {r}]
    /\ UNCHANGED <<legacy, index, others, pc, died, crashes>>

Shutdown ==
    /\ pc = "serving" /\ pc' = "down"
    /\ UNCHANGED <<tables, others, died, crashes>>

Crash ==
    /\ pc \notin {"down", "serving"} /\ crashes < MaxCrashes
    /\ pc' = "down" /\ died' = died \cup {pc} /\ crashes' = crashes + 1
    /\ UNCHANGED <<tables, others>>

Migrate == CreateTable \/ CreateUsage \/ CreateIndex \/ RecordPolicies \/ UpToDate \/
           Rename \/ Create \/ Copy \/ Drop \/ Index \/ AddColumn \/ ColumnThere \/ AddApproval \/
           Backfill \/ Fail

Next == Start \/ Migrate \/ Reserve \/ Shutdown \/ Crash

\* Containers restart the server when it ends, and a server executes its statements.
Spec == Init /\ [][Next]_vars /\ WF_vars(Start) /\ WF_vars(Migrate)

-----------------------------------------------------------------------------
(* Properties.                                                             *)

TypeOK ==
    /\ usage \in Table /\ legacy \in Table
    /\ index \in [Indexes -> {"none", "usage", "legacy"}]
    /\ columns \in [Columns -> {"no table", "missing", "there"}]
    /\ policies \in BOOLEAN /\ prompts \in BOOLEAN
    /\ pc \in {"down"} \cup {Steps[i] : i \in DOMAIN Steps}
    /\ died \subseteq {Steps[i] : i \in DOMAIN Steps}
    /\ crashes \in 0..MaxCrashes

\* Wherever a start ends and whatever the next one makes of it, a row of agent_usage
\* stays in one of the two tables.
NothingDropped ==
    [][usage.rows \cup legacy.rows \subseteq usage'.rows \cup legacy'.rows]_vars

\* A server that serves has every table and column its queries name.  Its rows and
\* indexes are where it looks for them unless a start ended while they were moved, and the
\* prompts are filled in unless one ended right after their column was added: the next
\* start takes what it finds for finished.
Midway == {"create", "copy", "drop"}

ServesWhole ==
    pc = "serving" =>
        /\ usage.actions = "new" /\ usage.approval /\ policies
        /\ \A c \in Columns : columns[c] = "there"
        /\ died \cap Midway = {} =>
              legacy = NoTable /\ \A i \in Indexes : index[i] = "usage"
        /\ "backfill" \notin died => prompts

\* Whatever database it finds and whatever an earlier start left of it, the server comes up.
ComesUp == pc = "down" ~> pc = "serving"
=============================================================================
