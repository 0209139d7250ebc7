-------------------------- MODULE SchemaUpgradeProofs --------------------------
(***************************************************************************)
(* A server that starts over any database of an earlier release, any rows  *)
(* in it, and any number of starts that were killed or failed before: what *)
(* it is past has been done, except for what an earlier start left midway. *)
(***************************************************************************)
EXTENDS SchemaUpgrade, FiniteSets, TLAPS

-----------------------------------------------------------------------------
(* The order of the statements.                                            *)

Place(step) == CHOOSE i \in DOMAIN Steps : Steps[i] = step

LEMMA InOrder ==
    /\ DOMAIN Steps = 1..20
    /\ Steps[1] = "workspaces" /\ Steps[2] = "agent_usage"
    /\ Steps[3] = "agent_usage_workspace" /\ Steps[4] = "approved_plans"
    /\ Steps[5] = "build_candidates" /\ Steps[6] = "policies"
    /\ Steps[7] = "build_verifications" /\ Steps[8] = "rename"
    /\ Steps[9] = "create" /\ Steps[10] = "copy"
    /\ Steps[11] = "drop" /\ Steps[12] = "index"
    /\ Steps[13] = "credit_limit" /\ Steps[14] = "approval_id"
    /\ Steps[15] = "agent_usage_approval" /\ Steps[16] = "plan_prompt"
    /\ Steps[17] = "candidate_prompt" /\ Steps[18] = "backfill"
    /\ Steps[19] = "artifact_id" /\ Steps[20] = "serving"
BY SMT DEF Steps, Creations, Upgrades, Move, Approvals

\* Each has one place, and is followed by the next.
LEMMA OnePlace == ASSUME NEW i \in 1..20 PROVE Place(Steps[i]) = i
<1>1. \A j \in 1..20 : Steps[j] = Steps[i] => j = i
    BY InOrder, SMT
<1> QED
    BY <1>1, InOrder DEF Place

LEMMA Places ==
    /\ Place("workspaces") = 1 /\ Place("agent_usage") = 2
    /\ Place("agent_usage_workspace") = 3 /\ Place("approved_plans") = 4
    /\ Place("build_candidates") = 5 /\ Place("policies") = 6
    /\ Place("build_verifications") = 7 /\ Place("rename") = 8 /\ Place("create") = 9
    /\ Place("copy") = 10 /\ Place("drop") = 11 /\ Place("index") = 12
    /\ Place("credit_limit") = 13 /\ Place("approval_id") = 14
    /\ Place("agent_usage_approval") = 15 /\ Place("plan_prompt") = 16
    /\ Place("candidate_prompt") = 17 /\ Place("backfill") = 18
    /\ Place("artifact_id") = 19 /\ Place("serving") = 20
<1>1. \A i \in 1..20 : Place(Steps[i]) = i
    BY OnePlace
<1> QED
    BY <1>1, InOrder, SMT

LEMMA Afters ==
    /\ After("workspaces") = "agent_usage"
    /\ After("agent_usage") = "agent_usage_workspace"
    /\ After("agent_usage_workspace") = "approved_plans"
    /\ After("approved_plans") = "build_candidates"
    /\ After("build_candidates") = "policies"
    /\ After("policies") = "build_verifications"
    /\ After("build_verifications") = "rename" /\ After("rename") = "create"
    /\ After("create") = "copy" /\ After("copy") = "drop" /\ After("drop") = "index"
    /\ After("index") = "credit_limit" /\ After("credit_limit") = "approval_id"
    /\ After("approval_id") = "agent_usage_approval"
    /\ After("agent_usage_approval") = "plan_prompt"
    /\ After("plan_prompt") = "candidate_prompt"
    /\ After("candidate_prompt") = "backfill" /\ After("backfill") = "artifact_id"
    /\ After("artifact_id") = "serving"
<1>1. ASSUME NEW i \in 1..19 PROVE After(Steps[i]) = Steps[i + 1]
    <2>1. Place(Steps[i]) = i
        BY OnePlace, SMT
    <2>2. After(Steps[i]) = Steps[1 + Place(Steps[i])]
        BY Zenon DEF After, Place
    <2> QED
        BY <2>1, <2>2, SMT
<1>2. \A i \in 1..19 : After(Steps[i]) = Steps[i + 1]
    BY <1>1
<1> QED
    BY <1>2, InOrder, SMT

-----------------------------------------------------------------------------
(* The inductive invariant.                                                *)

Past(at, step) == at # "down" /\ Place(at) > Place(step)
Passed(step) == Past(pc, step)

\* A column is there once its table and then itself were seen to.
ColumnsDone ==
    \A c \in Columns : /\ Passed(Home[c]) => columns[c] # "no table"
                       /\ Passed(c) => columns[c] = "there"

\* The new table takes the place of none, and has every row before the old one goes.
UsageDone ==
    /\ Passed("create") => usage.actions = "new"
    /\ Passed("approval_id") => usage.approval
    /\ pc = "create" => usage = NoTable
    /\ pc = "drop" => legacy.rows \subseteq usage.rows

\* Unless a start ended while the rows were moved, only a move that is under way has a
\* second table or an index on it.
LegacyGone == pc \notin Midway => legacy = NoTable /\ \A i \in Indexes : index[i] # "legacy"
IndexesDone ==
    /\ Passed("agent_usage_workspace") /\ pc \notin Midway \cup {"index"} =>
           index["agent_usage_workspace"] = "usage"
    /\ Passed("agent_usage_approval") => index["agent_usage_approval"] = "usage"

\* Unless one ended before they were filled in, the prompts are, or will be.
PromptsDone == prompts \/ columns["candidate_prompt"] = "missing" \/ pc = "backfill"

UpgradeInv ==
    /\ TypeOK
    /\ ColumnsDone
    /\ Passed("policies") => policies
    /\ UsageDone
    /\ died \cap Midway = {} => LegacyGone /\ IndexesDone
    /\ "backfill" \notin died => PromptsDone

-----------------------------------------------------------------------------
(* What a statement does to what was passed.                               *)

Names == {Steps[i] : i \in DOMAIN Steps}

LEMMA NamesListed ==
    Names = {"workspaces", "agent_usage", "agent_usage_workspace", "approved_plans",
             "build_candidates", "policies", "build_verifications", "rename", "create",
             "copy", "drop", "index", "credit_limit", "approval_id", "agent_usage_approval",
             "plan_prompt", "candidate_prompt", "backfill", "artifact_id", "serving"}
<1>1. \A i \in 1..20 : i \in {1, 2, 3, 4, 5, 6, 7, 8, 9, 10, 11, 12, 13, 14, 15, 16, 17, 18, 19, 20}
    BY SMT
<1> QED
    BY <1>1, InOrder, SMT DEF Names

LEMMA HomesListed ==
    \A c \in Columns : /\ c \in Names /\ Home[c] \in Names
                       /\ Home[c] \in {"workspaces", "approved_plans", "build_candidates",
                                      "build_verifications"}
BY NamesListed, SMT DEF Columns, Home

LEMMA NoTableTyped == NoTable \in Table /\ NewTable \in Table
BY SMT DEF NoTable, NewTable, Table

LEMMA NoRows == NoTable.rows = {} /\ NewTable.rows = {}
BY DEF NoTable, NewTable

LEMMA Fields == ASSUME NEW t \in Table PROVE t.rows \subseteq Rows
BY Zenon DEF Table

LEMMA Filled ==
    ASSUME NEW t \in Table, NEW rows \in SUBSET Rows
    PROVE  LET u == [t EXCEPT !.rows = rows]
           IN  /\ u \in Table /\ u.rows = rows
               /\ u.actions = t.actions /\ u.approval = t.approval
BY Zenon DEF Table

LEMMA Extended ==
    ASSUME NEW t \in Table
    PROVE  LET u == [t EXCEPT !.approval = TRUE]
           IN  /\ u \in Table /\ u.rows = t.rows
               /\ u.actions = t.actions /\ u.approval = TRUE
BY Zenon DEF Table

Tables == /\ usage \in Table /\ legacy \in Table
          /\ index \in [Indexes -> {"none", "usage", "legacy"}]
Others == /\ columns \in [Columns -> {"no table", "missing", "there"}]
          /\ policies \in BOOLEAN /\ prompts \in BOOLEAN
Server == /\ pc \in {"down"} \cup Names /\ died \subseteq Names /\ crashes \in 0..MaxCrashes

LEMMA TypeParts == TypeOK <=> Tables /\ Others /\ Server
BY Zenon DEF TypeOK, Tables, Others, Server, Names

LEMMA OnlyMoves ==
    ASSUME TypeOK, UNCHANGED <<tables, others>>, pc' \in {"down"} \cup Names,
           died' \subseteq Names, crashes' \in 0..MaxCrashes
    PROVE  TypeOK'
<1>1. Tables /\ Others
    BY TypeParts
<1>2. Tables' /\ Others' /\ Server'
    BY <1>1 DEF Tables, Others, Server, tables, others
<1>3. TypeOK' <=> Tables' /\ Others' /\ Server'
    BY TypeParts, PTL
<1> QED
    BY <1>2, <1>3

\* What the next statement is past, this one was past, or it is this one.
Onward == /\ pc' \in Names /\ pc' # "down"
          /\ \A step \in Names : Past(pc', step) => Past(pc, step) \/ pc = step

LEMMA OneOnward == ASSUME pc \in Names \ {"serving"}, pc' = After(pc) PROVE Onward
<1>1. /\ pc' \in Names /\ pc' # "down" /\ pc # "down"
      /\ Place(pc) \in Nat /\ Place(pc') = Place(pc) + 1
    BY NamesListed, Places, Afters, SMT
<1>2. \A step \in Names : Place(step) \in Nat /\ (Place(step) = Place(pc) => step = pc)
    BY NamesListed, Places, SMT
<1> QED
    BY <1>1, <1>2, SMT DEF Past, Onward

\* Where no row, index or column is moved or made.
LEMMA SameColumns ==
    ASSUME ColumnsDone, Onward, UNCHANGED columns, pc \notin Columns,
           pc \notin {"workspaces", "approved_plans", "build_candidates", "build_verifications"}
    PROVE  ColumnsDone'
<1> SUFFICES ASSUME NEW c \in Columns
             PROVE  /\ Past(pc', Home[c]) => columns[c] # "no table"
                    /\ Past(pc', c) => columns[c] = "there"
    BY DEF ColumnsDone, Passed
<1> QED
    BY HomesListed DEF Onward, ColumnsDone, Passed

LEMMA SameUsage ==
    ASSUME UsageDone, Onward, UNCHANGED <<usage, legacy>>, pc \notin {"create", "approval_id"},
           pc' \notin {"create", "drop"}
    PROVE  UsageDone'
BY NamesListed, SMT DEF Onward, UsageDone, Passed

LEMMA SameMove ==
    ASSUME LegacyGone, IndexesDone, Onward, UNCHANGED <<legacy, index>>,
           pc \notin {"agent_usage_workspace", "agent_usage_approval", "index"} \cup Midway,
           pc' \notin {"index"} \cup Midway
    PROVE  LegacyGone' /\ IndexesDone'
<1>1. LegacyGone'
    BY SMT DEF LegacyGone
<1>2. IndexesDone'
    BY NamesListed, SMT DEF Onward, IndexesDone, Passed
<1> QED
    BY <1>1, <1>2

-----------------------------------------------------------------------------
(* The statements.                                                         *)

LEMMA StepCreateUsage == ASSUME UpgradeInv, CreateUsage PROVE UpgradeInv'
<1>1. pc = "agent_usage" /\ pc' = After(pc) /\ UNCHANGED <<died, crashes>>
    BY DEF CreateUsage, Proceed
<1>2. Onward
    BY <1>1, NamesListed, OneOnward, SMT
<1>3. TypeOK'
    <2>1. Tables /\ Others /\ Server
        BY TypeParts DEF UpgradeInv
    <2>2. Tables'
        <3>1. usage' \in Table
            BY <1>1, <2>1, NoTableTyped, SMT DEF CreateUsage, Tables
        <3>2. legacy' \in Table
            BY <1>1, <2>1, NoTableTyped, SMT DEF CreateUsage, Tables
        <3>3. index' \in [Indexes -> {"none", "usage", "legacy"}]
            BY <1>1, <2>1, SMT DEF CreateUsage, Tables
        <3> QED
            BY <3>1, <3>2, <3>3 DEF Tables
    <2>3. Others'
        BY <2>1 DEF CreateUsage, Others, others
    <2>4. Server'
        BY <1>1, <1>2, <2>1, SMT DEF Server, Onward
    <2>5. TypeOK' <=> Tables' /\ Others' /\ Server'
        BY TypeParts, PTL
    <2> QED
        BY <2>2, <2>3, <2>4, <2>5
<1>4. ColumnsDone'
    BY <1>1, <1>2, SameColumns, SMT DEF CreateUsage, UpgradeInv, others, Columns
<1>5. Passed("policies")' => policies'
    BY <1>1, <1>2, NamesListed, SMT DEF CreateUsage, UpgradeInv, others, Passed, Onward
<1>6. UsageDone'
    BY <1>1, Places, Afters, SMT DEF CreateUsage, UpgradeInv, UsageDone, Passed, Past
<1>7. died' \cap Midway = {} => LegacyGone' /\ IndexesDone'
    BY <1>1, <1>2, Afters, SameMove, SMT DEF CreateUsage, UpgradeInv, tables, Midway
<1>8. "backfill" \notin died' => PromptsDone'
    BY <1>1, SMT DEF CreateUsage, UpgradeInv, PromptsDone, others
<1> QED
    BY <1>3, <1>4, <1>5, <1>6, <1>7, <1>8 DEF UpgradeInv

LEMMA StepRecordPolicies == ASSUME UpgradeInv, RecordPolicies PROVE UpgradeInv'
<1>1. pc = "policies" /\ pc' = After(pc) /\ UNCHANGED <<died, crashes>>
    BY DEF RecordPolicies, Proceed
<1>2. Onward
    BY <1>1, NamesListed, OneOnward, SMT
<1>3. TypeOK'
    <2>1. Tables /\ Others /\ Server
        BY TypeParts DEF UpgradeInv
    <2>2. Tables'
        BY <2>1 DEF RecordPolicies, Tables, tables
    <2>3. Others'
        BY <2>1 DEF RecordPolicies, Others, others
    <2>4. Server'
        BY <1>1, <1>2, <2>1, SMT DEF Server, Onward
    <2>5. TypeOK' <=> Tables' /\ Others' /\ Server'
        BY TypeParts, PTL
    <2> QED
        BY <2>2, <2>3, <2>4, <2>5
<1>4. ColumnsDone'
    BY <1>1, <1>2, SameColumns, SMT DEF RecordPolicies, UpgradeInv, others, Columns
<1>5. Passed("policies")' => policies'
    BY <1>1, <1>2, NamesListed, SMT DEF RecordPolicies, UpgradeInv, others, Passed, Onward
<1>6. UsageDone'
    BY <1>1, <1>2, Afters, SameUsage, SMT DEF RecordPolicies, UpgradeInv, tables
<1>7. died' \cap Midway = {} => LegacyGone' /\ IndexesDone'
    BY <1>1, <1>2, Afters, SameMove, SMT DEF RecordPolicies, UpgradeInv, tables, Midway
<1>8. "backfill" \notin died' => PromptsDone'
    BY <1>1, SMT DEF RecordPolicies, UpgradeInv, PromptsDone, others
<1> QED
    BY <1>3, <1>4, <1>5, <1>6, <1>7, <1>8 DEF UpgradeInv

LEMMA StepRename == ASSUME UpgradeInv, Rename PROVE UpgradeInv'
<1>1. pc = "rename" /\ pc' = After(pc) /\ UNCHANGED <<died, crashes>>
    BY DEF Rename, Proceed
<1>2. Onward
    BY <1>1, NamesListed, OneOnward, SMT
<1>3. TypeOK'
    <2>1. Tables /\ Others /\ Server
        BY TypeParts DEF UpgradeInv
    <2>2. Tables'
        <3>1. usage' \in Table
            BY <1>1, <2>1, NoTableTyped, SMT DEF Rename, Tables
        <3>2. legacy' \in Table
            BY <1>1, <2>1, NoTableTyped, SMT DEF Rename, Tables
        <3>3. index' \in [Indexes -> {"none", "usage", "legacy"}]
            BY <1>1, <2>1, SMT DEF Rename, Tables, IndexesMove
        <3> QED
            BY <3>1, <3>2, <3>3 DEF Tables
    <2>3. Others'
        BY <2>1 DEF Rename, Others, others
    <2>4. Server'
        BY <1>1, <1>2, <2>1, SMT DEF Server, Onward
    <2>5. TypeOK' <=> Tables' /\ Others' /\ Server'
        BY TypeParts, PTL
    <2> QED
        BY <2>2, <2>3, <2>4, <2>5
<1>4. ColumnsDone'
    BY <1>1, <1>2, SameColumns, SMT DEF Rename, UpgradeInv, others, Columns
<1>5. Passed("policies")' => policies'
    BY <1>1, <1>2, NamesListed, SMT DEF Rename, UpgradeInv, others, Passed, Onward
<1>6. UsageDone'
    BY <1>1, Places, Afters, SMT DEF Rename, UpgradeInv, UsageDone, Passed, Past
<1>7. died' \cap Midway = {} => LegacyGone' /\ IndexesDone'
    BY <1>1, TypeParts, Places, Afters, SMT DEF Rename, UpgradeInv, Tables, LegacyGone, IndexesDone, Passed, Past, Midway, Indexes, IndexesMove
<1>8. "backfill" \notin died' => PromptsDone'
    BY <1>1, SMT DEF Rename, UpgradeInv, PromptsDone, others
<1> QED
    BY <1>3, <1>4, <1>5, <1>6, <1>7, <1>8 DEF UpgradeInv

LEMMA StepCreate == ASSUME UpgradeInv, Create PROVE UpgradeInv'
<1>1. pc = "create" /\ pc' = After(pc) /\ UNCHANGED <<died, crashes>>
    BY DEF Create, Proceed
<1>2. Onward
    BY <1>1, NamesListed, OneOnward, SMT
<1>3. TypeOK'
    <2>1. Tables /\ Others /\ Server
        BY TypeParts DEF UpgradeInv
    <2>2. Tables'
        <3>1. usage' \in Table
            BY <1>1, <2>1, NoTableTyped, SMT DEF Create, Tables
        <3>2. legacy' \in Table
            BY <1>1, <2>1, NoTableTyped, SMT DEF Create, Tables
        <3>3. index' \in [Indexes -> {"none", "usage", "legacy"}]
            BY <1>1, <2>1, SMT DEF Create, Tables
        <3> QED
            BY <3>1, <3>2, <3>3 DEF Tables
    <2>3. Others'
        BY <2>1 DEF Create, Others, others
    <2>4. Server'
        BY <1>1, <1>2, <2>1, SMT DEF Server, Onward
    <2>5. TypeOK' <=> Tables' /\ Others' /\ Server'
        BY TypeParts, PTL
    <2> QED
        BY <2>2, <2>3, <2>4, <2>5
<1>4. ColumnsDone'
    BY <1>1, <1>2, SameColumns, SMT DEF Create, UpgradeInv, others, Columns
<1>5. Passed("policies")' => policies'
    BY <1>1, <1>2, NamesListed, SMT DEF Create, UpgradeInv, others, Passed, Onward
<1>6. UsageDone'
    BY <1>1, Places, Afters, SMT DEF Create, UpgradeInv, UsageDone, Passed, Past, NewTable
<1>7. died' \cap Midway = {} => LegacyGone' /\ IndexesDone'
    BY <1>1, TypeParts, Places, Afters, SMT DEF Create, UpgradeInv, Tables, LegacyGone, IndexesDone, Passed, Past, Midway, Indexes
<1>8. "backfill" \notin died' => PromptsDone'
    BY <1>1, SMT DEF Create, UpgradeInv, PromptsDone, others
<1> QED
    BY <1>3, <1>4, <1>5, <1>6, <1>7, <1>8 DEF UpgradeInv

LEMMA Copied ==
    ASSUME TypeOK, Copy
    PROVE  /\ usage' \in Table /\ usage'.rows = usage.rows \cup legacy.rows
           /\ usage'.actions = usage.actions /\ usage'.approval = usage.approval
<1>1. usage \in Table /\ legacy \in Table
    BY TypeParts DEF Tables
<1>2. usage.rows \cup legacy.rows \in SUBSET Rows
    BY <1>1, Fields
<1>3. usage' = [usage EXCEPT !.rows = usage.rows \cup legacy.rows]
    BY DEF Copy
<1> QED
    BY <1>1, <1>2, <1>3, Filled

LEMMA StepCopy == ASSUME UpgradeInv, Copy PROVE UpgradeInv'
<1>1. pc = "copy" /\ pc' = After(pc) /\ UNCHANGED <<died, crashes>>
    BY DEF Copy, Proceed
<1>2. Onward
    BY <1>1, NamesListed, OneOnward, SMT
<1>3. TypeOK'
    <2>1. Tables /\ Others /\ Server
        BY TypeParts DEF UpgradeInv
    <2>2. Tables'
        <3>1. usage' \in Table
            BY Copied, TypeParts DEF UpgradeInv
        <3>2. legacy' \in Table
            BY <1>1, <2>1, NoTableTyped, SMT DEF Copy, Tables
        <3>3. index' \in [Indexes -> {"none", "usage", "legacy"}]
            BY <1>1, <2>1, SMT DEF Copy, Tables
        <3> QED
            BY <3>1, <3>2, <3>3 DEF Tables
    <2>3. Others'
        BY <2>1 DEF Copy, Others, others
    <2>4. Server'
        BY <1>1, <1>2, <2>1, SMT DEF Server, Onward
    <2>5. TypeOK' <=> Tables' /\ Others' /\ Server'
        BY TypeParts, PTL
    <2> QED
        BY <2>2, <2>3, <2>4, <2>5
<1>4. ColumnsDone'
    BY <1>1, <1>2, SameColumns, SMT DEF Copy, UpgradeInv, others, Columns
<1>5. Passed("policies")' => policies'
    BY <1>1, <1>2, NamesListed, SMT DEF Copy, UpgradeInv, others, Passed, Onward
<1>6. UsageDone'
    BY <1>1, Places, Afters, Copied, SMT DEF Copy, UpgradeInv, UsageDone, Passed, Past
<1>7. died' \cap Midway = {} => LegacyGone' /\ IndexesDone'
    BY <1>1, TypeParts, Places, Afters, SMT DEF Copy, UpgradeInv, Tables, LegacyGone, IndexesDone, Passed, Past, Midway, Indexes
<1>8. "backfill" \notin died' => PromptsDone'
    BY <1>1, SMT DEF Copy, UpgradeInv, PromptsDone, others
<1> QED
    BY <1>3, <1>4, <1>5, <1>6, <1>7, <1>8 DEF UpgradeInv

LEMMA StepDrop == ASSUME UpgradeInv, Drop PROVE UpgradeInv'
<1>1. pc = "drop" /\ pc' = After(pc) /\ UNCHANGED <<died, crashes>>
    BY DEF Drop, Proceed
<1>2. Onward
    BY <1>1, NamesListed, OneOnward, SMT
<1>3. TypeOK'
    <2>1. Tables /\ Others /\ Server
        BY TypeParts DEF UpgradeInv
    <2>2. Tables'
        <3>1. usage' \in Table
            BY <1>1, <2>1, NoTableTyped, SMT DEF Drop, Tables
        <3>2. legacy' \in Table
            BY <1>1, <2>1, NoTableTyped, SMT DEF Drop, Tables
        <3>3. index' \in [Indexes -> {"none", "usage", "legacy"}]
            BY <1>1, <2>1, SMT DEF Drop, Tables, IndexesMove
        <3> QED
            BY <3>1, <3>2, <3>3 DEF Tables
    <2>3. Others'
        BY <2>1 DEF Drop, Others, others
    <2>4. Server'
        BY <1>1, <1>2, <2>1, SMT DEF Server, Onward
    <2>5. TypeOK' <=> Tables' /\ Others' /\ Server'
        BY TypeParts, PTL
    <2> QED
        BY <2>2, <2>3, <2>4, <2>5
<1>4. ColumnsDone'
    BY <1>1, <1>2, SameColumns, SMT DEF Drop, UpgradeInv, others, Columns
<1>5. Passed("policies")' => policies'
    BY <1>1, <1>2, NamesListed, SMT DEF Drop, UpgradeInv, others, Passed, Onward
<1>6. UsageDone'
    BY <1>1, Places, Afters, SMT DEF Drop, UpgradeInv, UsageDone, Passed, Past
<1>7. died' \cap Midway = {} => LegacyGone' /\ IndexesDone'
    BY <1>1, TypeParts, Places, Afters, SMT DEF Drop, UpgradeInv, Tables, LegacyGone, IndexesDone, Passed, Past, Midway, Indexes, IndexesMove
<1>8. "backfill" \notin died' => PromptsDone'
    BY <1>1, SMT DEF Drop, UpgradeInv, PromptsDone, others
<1> QED
    BY <1>3, <1>4, <1>5, <1>6, <1>7, <1>8 DEF UpgradeInv

LEMMA StepIndex == ASSUME UpgradeInv, Index PROVE UpgradeInv'
<1>1. pc = "index" /\ pc' = After(pc) /\ UNCHANGED <<died, crashes>>
    BY DEF Index, Proceed
<1>2. Onward
    BY <1>1, NamesListed, OneOnward, SMT
<1>3. TypeOK'
    <2>1. Tables /\ Others /\ Server
        BY TypeParts DEF UpgradeInv
    <2>2. Tables'
        <3>1. usage' \in Table
            BY <1>1, <2>1, NoTableTyped, SMT DEF Index, Tables
        <3>2. legacy' \in Table
            BY <1>1, <2>1, NoTableTyped, SMT DEF Index, Tables
        <3>3. index' \in [Indexes -> {"none", "usage", "legacy"}]
            BY <1>1, <2>1, SMT DEF Index, Tables, Indexes
        <3> QED
            BY <3>1, <3>2, <3>3 DEF Tables
    <2>3. Others'
        BY <2>1 DEF Index, Others, others
    <2>4. Server'
        BY <1>1, <1>2, <2>1, SMT DEF Server, Onward
    <2>5. TypeOK' <=> Tables' /\ Others' /\ Server'
        BY TypeParts, PTL
    <2> QED
        BY <2>2, <2>3, <2>4, <2>5
<1>4. ColumnsDone'
    BY <1>1, <1>2, SameColumns, SMT DEF Index, UpgradeInv, others, Columns
<1>5. Passed("policies")' => policies'
    BY <1>1, <1>2, NamesListed, SMT DEF Index, UpgradeInv, others, Passed, Onward
<1>6. UsageDone'
    BY <1>1, <1>2, Afters, SameUsage, SMT DEF Index, UpgradeInv, tables
<1>7. died' \cap Midway = {} => LegacyGone' /\ IndexesDone'
    BY <1>1, TypeParts, Places, Afters, SMT DEF Index, UpgradeInv, Tables, LegacyGone, IndexesDone, Passed, Past, Midway, Indexes
<1>8. "backfill" \notin died' => PromptsDone'
    BY <1>1, SMT DEF Index, UpgradeInv, PromptsDone, others
<1> QED
    BY <1>3, <1>4, <1>5, <1>6, <1>7, <1>8 DEF UpgradeInv

LEMMA Approved ==
    ASSUME TypeOK, AddApproval
    PROVE  /\ usage' \in Table /\ usage'.rows = usage.rows
           /\ usage'.actions = usage.actions /\ usage'.approval
<1>1. usage \in Table
    BY TypeParts DEF Tables
<1>2. usage' = [usage EXCEPT !.approval = TRUE]
    BY DEF AddApproval
<1> QED
    BY <1>1, <1>2, Extended

LEMMA StepAddApproval == ASSUME UpgradeInv, AddApproval PROVE UpgradeInv'
<1>1. pc = "approval_id" /\ pc' = After(pc) /\ UNCHANGED <<died, crashes>>
    BY DEF AddApproval, Proceed
<1>2. Onward
    BY <1>1, NamesListed, OneOnward, SMT
<1>3. TypeOK'
    <2>1. Tables /\ Others /\ Server
        BY TypeParts DEF UpgradeInv
    <2>2. Tables'
        <3>1. usage' \in Table
            BY Approved, TypeParts DEF UpgradeInv
        <3>2. legacy' \in Table
            BY <1>1, <2>1, NoTableTyped, SMT DEF AddApproval, Tables
        <3>3. index' \in [Indexes -> {"none", "usage", "legacy"}]
            BY <1>1, <2>1, SMT DEF AddApproval, Tables
        <3> QED
            BY <3>1, <3>2, <3>3 DEF Tables
    <2>3. Others'
        BY <2>1 DEF AddApproval, Others, others
    <2>4. Server'
        BY <1>1, <1>2, <2>1, SMT DEF Server, Onward
    <2>5. TypeOK' <=> Tables' /\ Others' /\ Server'
        BY TypeParts, PTL
    <2> QED
        BY <2>2, <2>3, <2>4, <2>5
<1>4. ColumnsDone'
    BY <1>1, <1>2, SameColumns, SMT DEF AddApproval, UpgradeInv, others, Columns
<1>5. Passed("policies")' => policies'
    BY <1>1, <1>2, NamesListed, SMT DEF AddApproval, UpgradeInv, others, Passed, Onward
<1>6. UsageDone'
    BY <1>1, Places, Afters, Approved, SMT DEF AddApproval, UpgradeInv, UsageDone, Passed, Past
<1>7. died' \cap Midway = {} => LegacyGone' /\ IndexesDone'
    BY <1>1, <1>2, Afters, SameMove, SMT DEF AddApproval, UpgradeInv, tables, Midway
<1>8. "backfill" \notin died' => PromptsDone'
    BY <1>1, SMT DEF AddApproval, UpgradeInv, PromptsDone, others
<1> QED
    BY <1>3, <1>4, <1>5, <1>6, <1>7, <1>8 DEF UpgradeInv

LEMMA StepBackfill == ASSUME UpgradeInv, Backfill PROVE UpgradeInv'
<1>1. pc = "backfill" /\ pc' = After(pc) /\ UNCHANGED <<died, crashes>>
    BY DEF Backfill, Proceed
<1>2. Onward
    BY <1>1, NamesListed, OneOnward, SMT
<1>3. TypeOK'
    <2>1. Tables /\ Others /\ Server
        BY TypeParts DEF UpgradeInv
    <2>2. Tables'
        BY <2>1 DEF Backfill, Tables, tables
    <2>3. Others'
        BY <2>1 DEF Backfill, Others, others
    <2>4. Server'
        BY <1>1, <1>2, <2>1, SMT DEF Server, Onward
    <2>5. TypeOK' <=> Tables' /\ Others' /\ Server'
        BY TypeParts, PTL
    <2> QED
        BY <2>2, <2>3, <2>4, <2>5
<1>4. ColumnsDone'
    BY <1>1, <1>2, SameColumns, SMT DEF Backfill, UpgradeInv, others, Columns
<1>5. Passed("policies")' => policies'
    BY <1>1, <1>2, NamesListed, SMT DEF Backfill, UpgradeInv, others, Passed, Onward
<1>6. UsageDone'
    BY <1>1, <1>2, Afters, SameUsage, SMT DEF Backfill, UpgradeInv, tables
<1>7. died' \cap Midway = {} => LegacyGone' /\ IndexesDone'
    BY <1>1, <1>2, Afters, SameMove, SMT DEF Backfill, UpgradeInv, tables, Midway
<1>8. "backfill" \notin died' => PromptsDone'
    BY <1>1, SMT DEF Backfill, UpgradeInv, PromptsDone, others
<1> QED
    BY <1>3, <1>4, <1>5, <1>6, <1>7, <1>8 DEF UpgradeInv

LEMMA StepCreateTable == ASSUME UpgradeInv, CreateTable PROVE UpgradeInv'
<1>1. /\ pc \in {"workspaces", "approved_plans", "build_candidates", "build_verifications"}
      /\ pc' = After(pc) /\ UNCHANGED <<died, crashes>>
    BY HomesListed DEF CreateTable, Proceed
<1>2. UNCHANGED <<tables, policies, prompts>>
    BY DEF CreateTable
<1>3. \A c \in Columns :
          columns'[c] = IF Home[c] = pc /\ columns[c] = "no table" THEN "there" ELSE columns[c]
    BY DEF CreateTable
<1>4. Onward
    BY <1>1, NamesListed, OneOnward, SMT
<1>5. TypeOK'
    <2>1. Tables /\ Others /\ Server
        BY TypeParts DEF UpgradeInv
    <2>2. Tables'
        BY <1>2, <2>1 DEF Tables, tables
    <2>3. Others'
        <3>1. \A c \in Columns : columns'[c] \in {"no table", "missing", "there"}
            BY <2>1, <1>3 DEF Others
        <3>2. columns' \in [Columns -> {"no table", "missing", "there"}]
            BY <3>1, Zenon DEF CreateTable
        <3> QED
            BY <1>2, <2>1, <3>2 DEF Others
    <2>4. Server'
        BY <1>1, <1>4, <1>2, <2>1, SMT DEF Server, Onward
    <2>5. TypeOK' <=> Tables' /\ Others' /\ Server'
        BY TypeParts, PTL
    <2> QED
        BY <2>2, <2>3, <2>4, <2>5
<1>6. ColumnsDone'
    <2> SUFFICES ASSUME NEW c \in Columns
                 PROVE  /\ Past(pc', Home[c]) => columns'[c] # "no table"
                        /\ Past(pc', c) => columns'[c] = "there"
        BY DEF ColumnsDone, Passed
    <2>1. columns'[c] = IF Home[c] = pc /\ columns[c] = "no table" THEN "there" ELSE columns[c]
        BY <1>3
    <2>2. /\ Past(pc, Home[c]) => columns[c] # "no table"
          /\ Past(pc, c) => columns[c] = "there"
        BY DEF UpgradeInv, ColumnsDone, Passed
    <2>3. pc # c
        BY <1>1, SMT DEF Columns
    <2>4. /\ Past(pc', Home[c]) => Past(pc, Home[c]) \/ pc = Home[c]
          /\ Past(pc', c) => Past(pc, c)
        BY <1>4, <2>3, HomesListed DEF Onward
    <2> QED
        BY <2>1, <2>2, <2>4
<1>7. Passed("policies")' => policies'
    BY <1>1, <1>4, <1>2, NamesListed, SMT DEF UpgradeInv, Passed, Onward
<1>8. UsageDone'
    BY <1>1, <1>4, <1>2, Afters, SameUsage, SMT DEF UpgradeInv, tables
<1>9. died' \cap Midway = {} => LegacyGone' /\ IndexesDone'
    BY <1>1, <1>4, <1>2, Afters, SameMove, SMT DEF UpgradeInv, tables, Midway
<1>10. "backfill" \notin died' => PromptsDone'
    <2>1. "candidate_prompt" \in Columns /\ pc # "backfill"
        BY <1>1 DEF Columns
    <2>2. columns["candidate_prompt"] = "missing" => columns'["candidate_prompt"] = "missing"
        BY <1>3, <2>1
    <2> QED
        BY <1>1, <1>2, <2>1, <2>2 DEF UpgradeInv, PromptsDone
<1> QED
    BY <1>5, <1>6, <1>7, <1>8, <1>9, <1>10 DEF UpgradeInv

LEMMA StepCreateIndex == ASSUME UpgradeInv, CreateIndex PROVE UpgradeInv'
<1>1. pc \in Indexes /\ pc' = After(pc) /\ UNCHANGED <<died, crashes>>
    BY DEF CreateIndex, Proceed
<1>2. Onward
    BY <1>1, NamesListed, OneOnward, SMT DEF Indexes
<1>3. TypeOK'
    <2>1. Tables /\ Others /\ Server
        BY TypeParts DEF UpgradeInv
    <2>2. Tables'
        <3>1. index' \in [Indexes -> {"none", "usage", "legacy"}]
            BY <2>1, SMT DEF CreateIndex, Tables
        <3> QED
            BY <2>1, <3>1 DEF CreateIndex, Tables
    <2>3. Others'
        BY <2>1 DEF CreateIndex, Others, others
    <2>4. Server'
        BY <1>1, <1>2, <2>1, SMT DEF Server, Onward
    <2>5. TypeOK' <=> Tables' /\ Others' /\ Server'
        BY TypeParts, PTL
    <2> QED
        BY <2>2, <2>3, <2>4, <2>5
<1>4. ColumnsDone'
    BY <1>1, <1>2, SameColumns, SMT DEF CreateIndex, UpgradeInv, others, Columns, Indexes
<1>5. Passed("policies")' => policies'
    BY <1>1, <1>2, NamesListed, SMT DEF CreateIndex, UpgradeInv, others, Passed, Onward, Indexes
<1>6. UsageDone'
    BY <1>1, <1>2, Afters, SameUsage, SMT DEF CreateIndex, UpgradeInv, Indexes
<1>7. died' \cap Midway = {} => LegacyGone' /\ IndexesDone'
    BY <1>1, TypeParts, Places, Afters, SMT
       DEF CreateIndex, UpgradeInv, Tables, LegacyGone, IndexesDone, Passed, Past, Midway, Indexes
<1>8. "backfill" \notin died' => PromptsDone'
    BY <1>1, SMT DEF CreateIndex, UpgradeInv, PromptsDone, others, Indexes
<1> QED
    BY <1>3, <1>4, <1>5, <1>6, <1>7, <1>8 DEF UpgradeInv

LEMMA StepAddColumn == ASSUME UpgradeInv, AddColumn PROVE UpgradeInv'
<1>1. pc \in Columns /\ pc' = After(pc) /\ UNCHANGED <<died, crashes>>
    BY DEF AddColumn, Proceed
<1>2. Onward
    BY <1>1, NamesListed, OneOnward, SMT DEF Columns
<1>3. columns \in [Columns -> {"no table", "missing", "there"}]
    BY TypeParts DEF UpgradeInv, Others
<1>4. columns' = [columns EXCEPT ![pc] = "there"] /\ UNCHANGED <<tables, policies, prompts>>
    BY DEF AddColumn
<1>5. /\ columns' \in [Columns -> {"no table", "missing", "there"}]
       /\ columns'[pc] = "there"
       /\ \A c \in Columns : c # pc => columns'[c] = columns[c]
    BY <1>1, <1>3, <1>4, Zenon
<1>6. TypeOK'
    <2>1. Tables /\ Others /\ Server
        BY TypeParts DEF UpgradeInv
    <2>2. Tables'
        BY <1>4, <2>1 DEF Tables, tables
    <2>3. Others'
        BY <1>4, <1>5, <2>1 DEF Others
    <2>4. Server'
        BY <1>1, <1>2, <2>1, SMT DEF Server, Onward
    <2>5. TypeOK' <=> Tables' /\ Others' /\ Server'
        BY TypeParts, PTL
    <2> QED
        BY <2>2, <2>3, <2>4, <2>5
<1>7. ColumnsDone'
    <2> SUFFICES ASSUME NEW c \in Columns
                 PROVE  /\ Past(pc', Home[c]) => columns'[c] # "no table"
                        /\ Past(pc', c) => columns'[c] = "there"
        BY DEF ColumnsDone, Passed
    <2>1. /\ columns'[pc] = "there"
          /\ c # pc => columns'[c] = columns[c]
        BY <1>5
    <2>2. /\ Past(pc, Home[c]) => columns[c] # "no table"
          /\ Past(pc, c) => columns[c] = "there"
        BY DEF UpgradeInv, ColumnsDone, Passed
    <2>3. pc # Home[c]
        BY <1>1, HomesListed, SMT DEF Columns
    <2>4. /\ Past(pc', Home[c]) => Past(pc, Home[c])
          /\ Past(pc', c) => Past(pc, c) \/ pc = c
        BY <1>2, <2>3, HomesListed DEF Onward
    <2>5. CASE c = pc
        BY <2>1, <2>5
    <2>6. CASE c # pc
        BY <2>1, <2>2, <2>4, <2>6
    <2> QED
        BY <2>5, <2>6
<1>8. Passed("policies")' => policies'
    BY <1>1, <1>2, NamesListed, SMT DEF AddColumn, UpgradeInv, Passed, Onward, Columns
<1>9. UsageDone'
    BY <1>1, <1>2, Afters, SameUsage, SMT DEF AddColumn, UpgradeInv, tables, Columns
<1>10. died' \cap Midway = {} => LegacyGone' /\ IndexesDone'
    BY <1>1, <1>2, Afters, SameMove, SMT DEF AddColumn, UpgradeInv, tables, Midway, Columns
<1>11. "backfill" \notin died' => PromptsDone'
    <2>1. CASE pc = "candidate_prompt"
        BY <1>1, <2>1, Afters DEF PromptsDone
    <2>2. CASE pc # "candidate_prompt"
        <3>1. columns'["candidate_prompt"] = columns["candidate_prompt"] /\ pc # "backfill"
            <4>1. "candidate_prompt" \in Columns /\ pc # "backfill"
                BY <1>1, SMT DEF Columns
            <4> QED
                BY <1>5, <2>2, <4>1
        <3> QED
            BY <1>1, <1>4, <3>1 DEF UpgradeInv, PromptsDone
    <2> QED
        BY <2>1, <2>2
<1> QED
    BY <1>6, <1>7, <1>8, <1>9, <1>10, <1>11 DEF UpgradeInv

\* A migration that is not needed is passed over.
LEMMA StepUpToDate == ASSUME UpgradeInv, UpToDate PROVE UpgradeInv'
<1>1. /\ pc = "rename" /\ pc' = "credit_limit" /\ usage.actions = "new"
      /\ UNCHANGED <<tables, others, died, crashes>>
    BY Afters DEF UpToDate
<1>2. TypeOK'
    BY <1>1, NamesListed, TypeParts, OnlyMoves DEF UpgradeInv, Server
<1>3. ColumnsDone'
    <2>1. \A c \in Columns : /\ Past("credit_limit", Home[c]) => Past("rename", Home[c])
                             /\ ~Past("credit_limit", c)
        BY HomesListed, Places, SMT DEF Past, Columns
    <2> QED
        BY <1>1, <2>1 DEF UpgradeInv, ColumnsDone, Passed, others
<1>4. Passed("policies")' => policies'
    BY <1>1, Places, SMT DEF UpgradeInv, Passed, Past, others
<1>5. UsageDone'
    BY <1>1, Places, SMT DEF UpgradeInv, UsageDone, Passed, Past, tables
<1>6. died' \cap Midway = {} => LegacyGone' /\ IndexesDone'
    BY <1>1, Places, SMT
       DEF UpgradeInv, LegacyGone, IndexesDone, Passed, Past, Midway, Indexes, tables
<1>7. "backfill" \notin died' => PromptsDone'
    BY <1>1 DEF UpgradeInv, PromptsDone, others
<1> QED
    BY <1>2, <1>3, <1>4, <1>5, <1>6, <1>7 DEF UpgradeInv

LEMMA StepColumnThere == ASSUME UpgradeInv, ColumnThere PROVE UpgradeInv'
<1>1. /\ pc \in Columns /\ columns[pc] # "missing"
      /\ pc' = IF pc = "candidate_prompt" THEN After("backfill") ELSE After(pc)
      /\ UNCHANGED <<tables, others, died, crashes>>
    BY DEF ColumnThere, Lacks
<1>2. /\ pc' \in {"approval_id", "candidate_prompt", "artifact_id", "serving"}
      /\ \A c \in Columns : /\ Past(pc', Home[c]) => Past(pc, Home[c])
                            /\ Past(pc', c) => Past(pc, c) \/ pc = c
      /\ Past(pc, Home[pc])
      /\ \A step \in Names : Past(pc', step) =>
             Past(pc, step) \/ step \in Columns \cup {"backfill"}
    BY <1>1, Afters, HomesListed, NamesListed, Places, SMT DEF Past, Columns, Home
<1>3. TypeOK'
    BY <1>1, <1>2, NamesListed, TypeParts, OnlyMoves DEF UpgradeInv, Server
<1>4. ColumnsDone'
    <2>1. columns[pc] = "there"
        BY <1>1, <1>2, TypeParts DEF UpgradeInv, ColumnsDone, Passed, Others
    <2> QED
        BY <1>1, <1>2, <2>1 DEF UpgradeInv, ColumnsDone, Passed, others
<1>5. Passed("policies")' => policies'
    BY <1>1, <1>2, NamesListed, SMT DEF UpgradeInv, Passed, others, Columns
<1>6. UsageDone'
    BY <1>1, <1>2, NamesListed, SMT DEF UpgradeInv, UsageDone, Passed, tables, Columns
<1>7. died' \cap Midway = {} => LegacyGone' /\ IndexesDone'
    BY <1>1, <1>2, NamesListed, SMT
       DEF UpgradeInv, LegacyGone, IndexesDone, Passed, Midway, tables, Columns
<1>8. "backfill" \notin died' => PromptsDone'
    BY <1>1, SMT DEF UpgradeInv, PromptsDone, others, Columns
<1> QED
    BY <1>3, <1>4, <1>5, <1>6, <1>7, <1>8 DEF UpgradeInv

-----------------------------------------------------------------------------
(* The server.                                                             *)

\* What ends, ends before the statement it was about to execute.
LEMMA GoesDown ==
    ASSUME UpgradeInv, UNCHANGED <<tables, others>>, pc' = "down", crashes' \in 0..MaxCrashes,
           died \subseteq died', died' \subseteq Names, pc \in died' \/ pc = "serving"
    PROVE  UpgradeInv'
<1>1. TypeOK'
    BY OnlyMoves DEF UpgradeInv
<1>2. ColumnsDone' /\ ~Passed("policies")'
    BY DEF ColumnsDone, Passed, Past
<1>3. UsageDone'
    BY SMT DEF UsageDone, Passed, Past
<1>4. died' \cap Midway = {} => LegacyGone' /\ IndexesDone'
    BY SMT DEF UpgradeInv, LegacyGone, IndexesDone, Passed, Past, Midway, tables
<1>5. "backfill" \notin died' => PromptsDone'
    BY SMT DEF UpgradeInv, PromptsDone, others
<1> QED
    BY <1>1, <1>2, <1>3, <1>4, <1>5 DEF UpgradeInv

LEMMA StepEnds == ASSUME UpgradeInv, Fail \/ Crash \/ Shutdown PROVE UpgradeInv'
<1>1. Server
    BY TypeParts DEF UpgradeInv
<1>2. CASE Fail
    <2>1. pc # "down"
        BY <1>2 DEF Fail, Executable, Columns
    <2> QED
        BY <1>1, <1>2, <2>1, GoesDown DEF Fail, Server
<1>3. CASE Crash
    <2>1. pc # "down" /\ crashes' \in 0..MaxCrashes
        BY <1>1, <1>3, CrashAssumption, SMT DEF Crash, Server
    <2> QED
        BY <1>1, <1>3, <2>1, GoesDown DEF Crash, Server
<1>4. CASE Shutdown
    BY <1>1, <1>4, GoesDown DEF Shutdown, Server
<1> QED
    BY <1>2, <1>3, <1>4

LEMMA StepStart == ASSUME UpgradeInv, Start PROVE UpgradeInv'
<1>1. pc = "down" /\ pc' = "workspaces" /\ UNCHANGED <<tables, others, died, crashes>>
    BY InOrder DEF Start
<1>2. Onward
    <2>1. \A step \in Names : ~Past("workspaces", step)
        BY NamesListed, Places, SMT DEF Past
    <2> QED
        BY <1>1, <2>1, NamesListed DEF Onward
<1>3. TypeOK'
    BY <1>1, NamesListed, TypeParts, OnlyMoves DEF UpgradeInv, Server
<1>4. ColumnsDone'
    BY <1>1, <1>2, SameColumns, SMT DEF UpgradeInv, others, Columns
<1>5. Passed("policies")' => policies'
    BY <1>1, <1>2, NamesListed, SMT DEF UpgradeInv, Passed, Onward, others
<1>6. UsageDone'
    BY <1>1, <1>2, SameUsage, SMT DEF UpgradeInv, tables
<1>7. died' \cap Midway = {} => LegacyGone' /\ IndexesDone'
    BY <1>1, <1>2, SameMove, SMT DEF UpgradeInv, tables, Midway
<1>8. "backfill" \notin died' => PromptsDone'
    BY <1>1 DEF UpgradeInv, PromptsDone, others
<1> QED
    BY <1>3, <1>4, <1>5, <1>6, <1>7, <1>8 DEF UpgradeInv

LEMMA StepReserve == ASSUME UpgradeInv, Reserve PROVE UpgradeInv'
<1>1. pc = "serving" /\ UNCHANGED <<legacy, index, others, pc, died, crashes>>
    BY DEF Reserve
<1>2. Tables /\ Others /\ Server
    BY TypeParts DEF UpgradeInv
<1>3. usage' \in Table /\ usage'.actions = usage.actions /\ usage'.approval = usage.approval
    <2>1. PICK r \in Rows : usage' = [usage EXCEPT !.rows = usage.rows \cup {r}]
        BY DEF Reserve
    <2>2. usage.rows \cup {r} \in SUBSET Rows
        BY <1>2, Fields DEF Tables
    <2> QED
        BY <1>2, <2>1, <2>2, Filled DEF Tables
<1>4. TypeOK'
    <2>1. Tables' /\ Others' /\ Server'
        BY <1>1, <1>2, <1>3 DEF Tables, Others, Server, others
    <2>2. TypeOK' <=> Tables' /\ Others' /\ Server'
        BY TypeParts, PTL
    <2> QED
        BY <2>1, <2>2
<1>5. ColumnsDone' /\ (Passed("policies")' => policies')
    BY <1>1 DEF UpgradeInv, ColumnsDone, Passed, others
<1>6. UsageDone'
    BY <1>1, <1>3, SMT DEF UpgradeInv, UsageDone, Passed
<1>7. died' \cap Midway = {} => LegacyGone' /\ IndexesDone'
    BY <1>1 DEF UpgradeInv, LegacyGone, IndexesDone, Passed
<1>8. "backfill" \notin died' => PromptsDone'
    BY <1>1 DEF UpgradeInv, PromptsDone, others
<1> QED
    BY <1>4, <1>5, <1>6, <1>7, <1>8 DEF UpgradeInv

-----------------------------------------------------------------------------
(* What holds of every behaviour.                                          *)

LEMMA UpgradeInitially == Init => UpgradeInv
<1> SUFFICES ASSUME Init PROVE UpgradeInv
    OBVIOUS
<1>1. pc = "down" /\ died = {} /\ crashes = 0 /\ legacy = NoTable
    BY DEF Init
<1>2. TypeOK
    <2>1. usage \in Table
        BY NoTableTyped, Zenon DEF Init, Table
    <2>2. index \in [Indexes -> {"none", "usage", "legacy"}]
        <3>1. index \in [Indexes -> {"none", "usage"}]
            BY DEF Init
        <3> QED
            BY <3>1, SMT
    <2>3. Tables
        BY <1>1, <2>1, <2>2, NoTableTyped DEF Tables
    <2>4. Others
        BY DEF Init, Others
    <2>5. Server
        BY <1>1, CrashAssumption, SMT DEF Server
    <2> QED
        BY <2>3, <2>4, <2>5, TypeParts
<1>3. ColumnsDone /\ (Passed("policies") => policies) /\ UsageDone /\ IndexesDone
    BY <1>1, SMT DEF ColumnsDone, UsageDone, IndexesDone, Passed, Past
<1>4. LegacyGone
    <2>1. index \in [Indexes -> {"none", "usage"}]
        BY DEF Init
    <2> QED
        BY <1>1, <2>1, SMT DEF LegacyGone
<1>5. PromptsDone
    BY DEF Init, PromptsDone
<1> QED
    BY <1>2, <1>3, <1>4, <1>5 DEF UpgradeInv

LEMMA UpgradeStep == UpgradeInv /\ [Next]_vars => UpgradeInv'
<1> SUFFICES ASSUME UpgradeInv, [Next]_vars PROVE UpgradeInv'
    OBVIOUS
<1>1. CASE UNCHANGED vars
    <2>1. TypeOK'
        BY <1>1, TypeParts, OnlyMoves DEF UpgradeInv, vars, Server
    <2>2. UNCHANGED <<usage, legacy, index, columns, policies, prompts, pc, died>>
        BY <1>1 DEF vars, tables, others
    <2>3. ColumnsDone' /\ (Passed("policies")' => policies') /\ UsageDone'
        BY <2>2 DEF UpgradeInv, ColumnsDone, UsageDone, Passed
    <2>4. died' \cap Midway = {} => LegacyGone' /\ IndexesDone'
        BY <2>2 DEF UpgradeInv, LegacyGone, IndexesDone, Passed
    <2>5. "backfill" \notin died' => PromptsDone'
        BY <2>2 DEF UpgradeInv, PromptsDone
    <2> QED
        BY <2>1, <2>3, <2>4, <2>5 DEF UpgradeInv
<1>2. CASE Migrate
    BY <1>2, StepCreateTable, StepCreateUsage, StepCreateIndex, StepRecordPolicies,
       StepUpToDate, StepRename, StepCreate, StepCopy, StepDrop, StepIndex, StepAddColumn,
       StepColumnThere, StepAddApproval, StepBackfill, StepEnds DEF Migrate
<1>3. CASE Start \/ Reserve \/ Shutdown \/ Crash
    BY <1>3, StepStart, StepReserve, StepEnds
<1> QED
    BY <1>1, <1>2, <1>3 DEF Next

\* The database and the server keep their shape.
THEOREM UpgradeTypeCorrect == Spec => []TypeOK
<1>1. UpgradeInv => TypeOK
    BY DEF UpgradeInv
<1> QED
    BY UpgradeInitially, UpgradeStep, <1>1, PTL DEF Spec

\* A server that serves has every table and column its queries name; and unless a start
\* ended midway, every row, index and prompt where it looks for it (Migrate).
THEOREM UpgradeServesWhole == Spec => []ServesWhole
<1>1. ASSUME UpgradeInv, pc = "serving"
      PROVE  /\ usage.actions = "new" /\ usage.approval /\ policies
             /\ \A c \in Columns : columns[c] = "there"
    <2>1. /\ Passed("policies") /\ Passed("create") /\ Passed("approval_id")
          /\ \A c \in Columns : Passed(c)
        BY <1>1, Places, SMT DEF Passed, Past, Columns
    <2> QED
        BY <1>1, <2>1 DEF UpgradeInv, ColumnsDone, UsageDone
<1>2. ASSUME UpgradeInv, pc = "serving", died \cap Midway = {}
      PROVE  legacy = NoTable /\ \A i \in Indexes : index[i] = "usage"
    <2>1. /\ Passed("agent_usage_workspace") /\ Passed("agent_usage_approval")
          /\ pc \notin Midway \cup {"index"}
        BY <1>2, Places, SMT DEF Passed, Past, Midway
    <2> QED
        BY <1>2, <2>1 DEF UpgradeInv, LegacyGone, IndexesDone, Indexes
<1>3. ASSUME UpgradeInv, pc = "serving", "backfill" \notin died
      PROVE  prompts
    <2>1. columns["candidate_prompt"] = "there"
        BY <1>1, <1>3 DEF Columns
    <2> QED
        BY <1>3, <2>1 DEF UpgradeInv, PromptsDone
<1>4. UpgradeInv => ServesWhole
    BY <1>1, <1>2, <1>3 DEF ServesWhole
<1> QED
    BY UpgradeInitially, UpgradeStep, <1>4, PTL DEF Spec

Kept == usage.rows \cup legacy.rows \subseteq usage'.rows \cup legacy'.rows

\* No row of agent_usage is ever dropped with a table, wherever a start ends and whatever
\* it leaves (the rows are copied before the old table goes, in migrateAgentUsage).
THEOREM UpgradeDropsNothing == Spec => NothingDropped
<1>1. ASSUME UpgradeInv, [Next]_vars
      PROVE  Kept
    <2>1. CASE UNCHANGED tables
        BY <2>1 DEF Kept, tables
    <2>2. CASE CreateUsage
        BY <2>2, NoRows DEF CreateUsage, Kept
    <2>3. CASE Rename
        <3>1. pc = "rename" /\ usage.actions = "old" /\ Executable
            BY <2>3 DEF Rename, Proceed
        <3>2. legacy = NoTable
            BY <3>1, SMT DEF Executable, Columns
        <3> QED
            BY <2>3, <3>2, NoRows DEF Rename, Kept
    <2>4. CASE Create
        BY <1>1, <2>4, NoRows DEF UpgradeInv, UsageDone, Create, Kept
    <2>5. CASE Copy
        BY <1>1, <2>5, Copied DEF UpgradeInv, Copy, Kept
    <2>6. CASE Drop
        BY <1>1, <2>6 DEF UpgradeInv, UsageDone, Drop, Kept
    <2>7. CASE AddApproval
        BY <1>1, <2>7, Approved DEF UpgradeInv, AddApproval, Kept
    <2>8. CASE Reserve
        <3>1. PICK r \in Rows : usage' = [usage EXCEPT !.rows = usage.rows \cup {r}]
            BY <2>8 DEF Reserve
        <3>2. usage \in Table /\ usage.rows \cup {r} \in SUBSET Rows
            BY <1>1, TypeParts, Fields DEF UpgradeInv, Tables
        <3>3. usage'.rows = usage.rows \cup {r}
            BY <3>1, <3>2, Filled
        <3> QED
            BY <2>8, <3>3 DEF Reserve, Kept
    <2>9. CASE CreateIndex \/ Index
        BY <2>9 DEF CreateIndex, Index, Kept
    <2> QED
        BY <1>1, <2>1, <2>2, <2>3, <2>4, <2>5, <2>6, <2>7, <2>8, <2>9, Zenon
           DEF Next, Migrate, Start, Shutdown, Crash, Fail, CreateTable, RecordPolicies,
               UpToDate, AddColumn, ColumnThere, Backfill, vars, tables
<1>2. UpgradeInv /\ [Next]_vars => [Kept]_vars
    BY <1>1
<1>3. NothingDropped <=> [][Kept]_vars
    BY PTL DEF NothingDropped, Kept
<1> QED
    BY UpgradeInitially, UpgradeStep, <1>2, <1>3, PTL DEF Spec
=============================================================================
