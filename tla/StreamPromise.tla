---------------------------- MODULE StreamPromise ----------------------------
(***************************************************************************)
(* What the stream of an agent run promises, leaving out its progress: its  *)
(* client is handed one outcome, a result or an error, and after it the    *)
(* end; and the verdict on record is the one the client saw, unless the    *)
(* run was cancelled.                                                      *)
(***************************************************************************)
EXTENDS Sequences

VARIABLES told,          \* the events handed to the client
          verdict        \* the status of the run's row

promiseVars == <<told, verdict>>

PromiseInit == told = <<>> /\ verdict = "running"

Outcome(kind) ==
    /\ verdict = "running" /\ told = <<>>
    /\ kind \in {"result", "error"}
    /\ told' = <<kind>>
    /\ UNCHANGED verdict

End ==
    /\ verdict = "running" /\ told \in {<<"result">>, <<"error">>}
    /\ told' = Append(told, "done")
    /\ UNCHANGED verdict

Seen == CASE told = <<"result", "done">> -> "succeeded"
          [] told = <<"error", "done">>  -> "failed"
          [] OTHER                       -> "cancelled"

Conclude ==
    /\ verdict = "running"
    /\ verdict' \in {Seen, "cancelled"}
    /\ UNCHANGED told

PromiseNext == End \/ Conclude \/ \E kind \in {"result", "error"} : Outcome(kind)

PromiseSpec == PromiseInit /\ [][PromiseNext]_promiseVars
=============================================================================
