----------------------------- MODULE AgentStream -----------------------------
(***************************************************************************)
(* The event stream of one agent run: the orchestrator's goroutine, with   *)
(* one more for each direction of a race; for a run in a workspace, the    *)
(* usage service's goroutine that checks the stream and stores the result; *)
(* and the handler that writes the events to the client.  They are joined  *)
(* by unbuffered channels, so a send is one step of both ends, and every   *)
(* send and receive may give way to the request's context being done.      *)
(* The model is called by the orchestrator's goroutines (ModelCall), while *)
(* the server allows the connection only so long for its whole answer.     *)
(*                                                                         *)
(* A client may also call the orchestrator without a workspace; then the   *)
(* handler reads its channel itself.                                       *)
(***************************************************************************)
EXTENDS Naturals, Sequences

CONSTANTS Directions,    \* the visual directions of a race
          MaxRetries, Timeout,   \* as in ModelCall
          WriteTimeout   \* the ticks a connection may be written to

ASSUME DirectionsAssumption == Directions # {}
ASSUME TimeAssumption == MaxRetries \in Nat /\ Timeout \in Nat \ {0} /\ WriteTimeout \in Nat

VARIABLES
    action,              \* what is asked for
    direct,              \* the run is outside any workspace
    cancelled,           \* the request's context is done
    open,                \* ticks until the connection takes no more writes
    call,                \* the calls of the model, by direction
    runner,              \* where the orchestrator's goroutine is
    building,            \* the directions whose goroutines still run
    results,             \* the results channel of a race, which has room for all
    made,                \* what became of each result, by direction
    service,             \* the usage service's goroutine and its variables
    handler,             \* the handler's loop: it serves or has returned
    told,                \* the events the handler took, without progress events
    verdict              \* the status of the run's row

maker == <<runner, building, results, made>>
model == <<open, call>>
given == <<action, direct, cancelled>>
rest  == <<service, handler, told, verdict>>
vars  == <<given, model, maker, rest>>

Actions  == {"plan", "build", "race", "revise"}  \* iterate, repair and polish are alike
Kinds    == {"progress", "result", "error", "done"}
Verdicts == {"succeeded", "failed", "cancelled"}

\* A sound result passes the guard and keeps its contract; one that is off its
\* contract passes the guard alone.
Quality  == {"sound", "off contract", "refused"}

\* A plan, build or revision makes one result, under any one name.
Single == CHOOSE d \in Directions : TRUE

Model == INSTANCE ModelCall WITH Callers <- Directions
Delivered == {d \in Directions : made[d] \in {"sound", "off contract"}}

Service == [at: {"receive", "forward", "reject", "check", "store", "offer", "finish",
                 "complete", "ended"},
            event: Kinds, sawDone: BOOLEAN, invalid: BOOLEAN, held: BOOLEAN,
            status: Verdicts, code: {"", "run", "invalid", "incomplete", "missing",
                                     "contract", "store", "client"}]

Init ==
    /\ action \in Actions
    /\ direct \in BOOLEAN
    /\ cancelled = FALSE
    /\ open = WriteTimeout
    /\ Model!CallInit
    /\ runner = "begin"
    /\ building = {}
    /\ results = <<>>
    /\ made = [d \in Directions |-> "none"]
    /\ service = [at |-> IF direct THEN "ended" ELSE "receive", event |-> "done",
                  sawDone |-> FALSE, invalid |-> FALSE, held |-> FALSE,
                  status |-> "succeeded", code |-> ""]
    /\ handler = "serving"
    /\ told = <<>>
    /\ verdict = "running"

-----------------------------------------------------------------------------
(* The handler.  Its return, on any path, ends the request's context, and  *)
(* so does a write that fails, which the handler itself need not notice.   *)

Hear(kind) ==
    /\ handler = "serving"
    /\ told' = IF kind = "progress" THEN told ELSE Append(told, kind)
    /\ \/ open > 0 /\ UNCHANGED <<handler, cancelled>>
       \/ handler' \in {"serving", "returned"} /\ cancelled' = TRUE

HandlerCancelled ==
    /\ handler = "serving" /\ cancelled
    /\ handler' = "returned"
    /\ UNCHANGED <<given, model, maker, service, told, verdict>>

Closed == IF direct THEN runner = "ended" ELSE service.at = "ended"

\* A stream that was closed too early gets an error and an end of the handler's own.
InterruptedAnyway == "done" \notin {told[i] : i \in 1..Len(told)}
Interrupted == "done" \notin {told[i] : i \in 1..Len(told)} /\ ~cancelled

HandlerClosed ==
    /\ handler = "serving" /\ Closed
    /\ told' = IF Interrupted THEN told \o <<"interrupted", "done">> ELSE told
    /\ handler' = "returned"
    /\ cancelled' = TRUE
    /\ UNCHANGED <<action, direct, model, maker, service, verdict>>

ClientLeaves ==
    /\ ~cancelled
    /\ cancelled' = TRUE
    /\ UNCHANGED <<action, direct, model, maker, rest>>

\* The heartbeat that finds the connection's time used up looks the same.
Heartbeat == open = 0 /\ ClientLeaves

Tick ==
    /\ ~cancelled /\ open > 0
    /\ Model!Elapse
    /\ open' = open - 1
    /\ UNCHANGED <<given, maker, rest>>

-----------------------------------------------------------------------------
(* The service's goroutine receives.                                       *)

SawDoneNever == [service EXCEPT !.invalid = @ \/ service.sawDone]
SawDone == [service EXCEPT !.invalid = @ \/ service.sawDone, !.sawDone = TRUE]

Failed(kind) == [service EXCEPT !.at = "forward", !.event = kind, !.status = "failed",
                                !.code = "run"]

\* The end is swallowed, a result is held back, the rest is to be forwarded.
Received(kind) ==
    CASE kind = "done" -> SawDone
      [] kind # "done" /\ service.sawDone -> [service EXCEPT !.invalid = TRUE]
      [] kind = "result" /\ ~service.sawDone ->
             [service EXCEPT !.invalid = @ \/ service.held, !.held = TRUE]
      [] kind = "error" /\ ~service.sawDone -> Failed(kind)
      [] kind = "progress" /\ ~service.sawDone ->
             [service EXCEPT !.at = "forward", !.event = kind]

\* The other end of a send of the runner.
Take(kind) ==
    IF direct THEN Hear(kind) /\ UNCHANGED service
    ELSE /\ service.at = "receive"
         /\ service' = Received(kind)
         /\ UNCHANGED <<handler, cancelled, told>>

-----------------------------------------------------------------------------
(* The orchestrator.  Progress events in a row are one.                    *)

\* What it sends where, and where it goes from there.
Sent == CASE runner = "deliver" -> "result"
          [] runner = "report"  -> "error"
          [] runner = "finish"  -> "done"
          [] OTHER              -> "progress"

Onward == CASE runner = "begin"      -> IF action = "race" THEN "gather" ELSE "call"
            [] runner = "brief"      -> "elaborate"
            [] runner = "warn"       -> "fallback"
            [] runner = "validating" -> "check"
            [] runner = "announce"   -> "deliver"
            [] runner = "finish"     -> "ended"
            [] OTHER                 -> "finish"

Sending == runner \in {"begin", "brief", "warn", "validating", "announce", "deliver",
                       "report", "finish"}

Begin == building' = IF runner = "begin" /\ action = "race" THEN Directions ELSE building

Send ==
    /\ Sending
    /\ Take(Sent)
    /\ runner' = Onward
    /\ Begin
    /\ UNCHANGED <<action, direct, model, results, made, verdict>>

\* A race goes on after its result was refused; all else gives up.
GivesUp == IF action = "race" /\ runner \in {"announce", "deliver"} THEN Onward ELSE "ended"

Refused ==
    /\ Sending /\ cancelled
    /\ runner' = GivesUp
    /\ UNCHANGED <<given, model, building, results, made, rest>>

\* A call of the model starts, or its outcome is taken.
CallModel ==
    /\ runner \in {"call", "elaborate"} /\ Model!Start(Single)
    /\ UNCHANGED <<given, open, maker, rest>>

Called(at) == call[Single].at = at /\ Model!Forget(Single)

\* A provider answers with a plan or a snapshot, which is sound or refused.
Answer(next) ==
    /\ \E quality \in {"sound", "refused"} : made' = [made EXCEPT ![Single] = quality]
    /\ runner' \in next

\* The provider answers, fails, or has first the brief of a team's plan.
Use ==
    /\ runner = "call"
    /\ \/ /\ Called("answered")
          /\ Answer(CASE action = "plan"  -> {"check", "validating"}
                      [] action = "build" -> {"validating"}
                      [] OTHER            -> {"check"})
       \/ Called("answered") /\ action = "plan" /\ runner' = "brief" /\ UNCHANGED made
       \/ Called("failed") /\ runner' = "warn" /\ UNCHANGED made
    /\ UNCHANGED <<given, open, building, results, rest>>

Elaborate ==
    /\ runner = "elaborate"
    /\ \/ Called("answered") /\ Answer({"check"})
       \/ Called("failed") /\ runner' = "warn" /\ UNCHANGED made
    /\ UNCHANGED <<given, open, building, results, rest>>

\* The template always has an answer.
Fallback ==
    /\ runner = "fallback"
    /\ Answer(IF action = "build" THEN {"validating"} ELSE {"check"})
    /\ UNCHANGED <<given, model, building, results, rest>>

Check ==
    /\ runner = "check"
    /\ runner' = IF made[Single] = "sound" THEN "announce" ELSE "fail"
    /\ UNCHANGED <<given, model, building, results, made, rest>>

\* A failure is not reported to a client that is known to be gone.
Fail ==
    /\ runner = "fail"
    /\ runner' = IF cancelled THEN "ended" ELSE "report"
    /\ UNCHANGED <<given, model, building, results, made, rest>>

\* A direction's goroutine calls the model, and leaves a result that is sound or an
\* error in its place.
BuildCalls(d) ==
    /\ d \in building /\ Model!Start(d)
    /\ UNCHANGED <<given, open, maker, rest>>

Build(d) ==
    /\ d \in building
    /\ call[d].at \in {"answered", "failed"} /\ Model!Forget(d)
    /\ building' = building \ {d}
    /\ \E sound \in {FALSE, call[d].at = "answered"} :
          results' = Append(results, [direction |-> d, sound |-> sound])
    /\ UNCHANGED <<given, open, runner, made, rest>>

\* What is missing is made from the template: only the guard looks at it.
Gather ==
    /\ runner = "gather" /\ results # <<>>
    /\ LET d == Head(results).direction
       IN  IF Head(results).sound
           THEN made' = [made EXCEPT ![d] = "sound"]
           ELSE \E quality \in Quality : made' = [made EXCEPT ![d] = quality]
    /\ results' = Tail(results)
    /\ UNCHANGED <<given, model, runner, building, rest>>

Gathered ==
    /\ runner = "gather" /\ \A d \in Directions : made[d] # "none"
    /\ runner' = IF Delivered = {} THEN "fail" ELSE "announce"
    /\ UNCHANGED <<given, model, building, results, made, rest>>

\* A call under way goes on: its model answers, or does not.
ModelReplies(d) == Model!Reply(d) /\ UNCHANGED <<given, open, maker, rest>>
ModelSilent(d) == Model!Proceed(d) /\ UNCHANGED <<given, open, maker, rest>>

-----------------------------------------------------------------------------
(* The service's goroutine decides, and tells the client.                  *)

Move(at) == service' = [service EXCEPT !.at = at]

EmitOnly(kind, next) == Hear(kind) /\ Move(next)

\* An event is taken by the handler, or the run is cancelled.
Emit(kind, next) ==
    \/ Hear(kind) /\ Move(next)
    \/ /\ cancelled
       /\ service' = [service EXCEPT !.at = "complete", !.status = "cancelled", !.code = "client"]
       /\ UNCHANGED <<handler, cancelled, told>>

Forward ==
    /\ service.at = "forward"
    /\ Emit(service.event, "receive")
    /\ UNCHANGED <<action, direct, model, maker, verdict>>

\* A stream that broke the protocol is a failure, which its client is told of once.
Reject(code) == service' = [service EXCEPT !.at = "reject", !.status = "failed", !.code = code]

Settle ==
    /\ service.at = "receive" /\ runner = "ended"
    /\ IF service.invalid THEN Reject("invalid")
       ELSE IF ~service.sawDone /\ service.status # "failed" THEN Reject("incomplete")
       ELSE IF service.sawDone /\ service.status # "failed" /\ ~service.held
            THEN Reject("missing")
       ELSE Move(IF service.status = "succeeded" THEN "check" ELSE "finish")
    /\ UNCHANGED <<given, model, maker, handler, told, verdict>>

EmitReject ==
    /\ service.at = "reject"
    /\ Emit("error", "finish")
    /\ UNCHANGED <<action, direct, model, maker, verdict>>

\* Every result has to keep its contract, or none is stored.
KeepsContractOnce == \E d \in Delivered : made[d] = "sound"
KeepsContract == \A d \in Delivered : made[d] = "sound"

CheckContract ==
    /\ service.at = "check"
    /\ IF KeepsContract THEN Move("store")
       ELSE service' = [service EXCEPT !.at = "offer", !.status = "failed", !.code = "contract"]
    /\ UNCHANGED <<given, model, maker, handler, told, verdict>>

Store ==
    /\ service.at = "store"
    /\ \/ Move("offer")
       \/ service' = [service EXCEPT !.at = "offer", !.status = "failed", !.code = "store"]
    /\ UNCHANGED <<given, model, maker, handler, told, verdict>>

Closing == IF service.status = "succeeded" THEN "result" ELSE "error"

Offer ==
    /\ service.at = "offer"
    /\ Emit(Closing, "finish")
    /\ UNCHANGED <<action, direct, model, maker, verdict>>

Finish ==
    /\ service.at = "finish"
    /\ Emit("done", "complete")
    /\ UNCHANGED <<action, direct, model, maker, verdict>>

Complete ==
    /\ service.at = "complete"
    /\ verdict' = service.status
    /\ Move("ended")
    /\ UNCHANGED <<given, model, maker, handler, told>>

-----------------------------------------------------------------------------
(* The composition.                                                        *)

Runner  == Send \/ Refused \/ CallModel \/ Use \/ Elaborate \/ Fallback \/ Check \/ Fail \/
           Gather \/ Gathered
Builder(d) == BuildCalls(d) \/ Build(d)
Serve   == Forward \/ Settle \/ EmitReject \/ CheckContract \/ Store \/ Offer \/ Finish \/ Complete
Handler == HandlerCancelled \/ HandlerClosed

Next == \/ Runner \/ Serve \/ Handler \/ ClientLeaves \/ Tick
        \/ \E d \in Directions : Builder(d) \/ ModelReplies(d) \/ ModelSilent(d)

Spec == Init /\ [][Next]_vars

\* Each goroutine runs on when it can, time passes, and timeouts and heartbeats do their
\* part.  A model need not answer, a client need not leave.
FairSpec ==
    /\ Spec
    /\ WF_vars(Runner) /\ WF_vars(Serve) /\ WF_vars(Handler)
    /\ WF_vars(Tick) /\ WF_vars(Heartbeat)
    /\ \A d \in Directions : WF_vars(Builder(d)) /\ WF_vars(ModelSilent(d))

-----------------------------------------------------------------------------
(* Properties.                                                             *)

\* Every goroutine and channel has its shape; no direction reports twice.
TypeOK ==
    /\ action \in Actions /\ direct \in BOOLEAN /\ cancelled \in BOOLEAN
    /\ open \in 0..WriteTimeout
    /\ call \in [Directions -> Model!Call]
    /\ runner \in {"begin", "gather", "call", "brief", "elaborate", "warn", "fallback",
                   "validating", "check", "fail", "announce", "deliver", "report", "finish",
                   "ended"}
    /\ building \subseteq Directions
    /\ results \in Seq([direction: Directions, sound: BOOLEAN])
    /\ made \in [Directions -> {"none"} \cup Quality]
    /\ service \in Service
    /\ handler \in {"serving", "returned"}
    /\ told \in Seq(Kinds \cup {"interrupted"})
    /\ verdict \in {"running"} \cup Verdicts

\* Whatever gives way to the cancelled context, a stream is one outcome and its end,
\* and the verdict is what the client was told.  A bare end stands for nothing told.
Heard == IF told = <<"done">> THEN <<>> ELSE told
Promise == INSTANCE StreamPromise WITH told <- Heard
KeepsPromise == Promise!PromiseSpec

\* The service takes no stream of the orchestrator for a broken one, except that the
\* end or the result of a cancelled run may be missing; and only a race outside a
\* workspace ends without an outcome, for a client that is gone.
ProtocolKept ==
    /\ service.code # "invalid"
    /\ service.code \in {"incomplete", "missing"} => cancelled
    /\ told = <<"done">> => direct /\ cancelled /\ action = "race"

\* A result that is handed out has something in it, and all of it keeps its contract;
\* only the template's share of a race outside a workspace goes unchecked.
SoundResults ==
    (\E i \in 1..Len(told) : told[i] = "result") =>
        /\ Delivered # {}
        /\ (action = "race" /\ direct) \/ \A d \in Delivered : made[d] = "sound"

\* No goroutine is left waiting on a channel, whoever leaves and whatever fails.
AllEnded == runner = "ended" /\ building = {} /\ service.at = "ended" /\ handler = "returned"
EverythingEnds == <>AllEnded

\* However a model fails and however late, a run's client that stays is told an outcome
\* while its connection can still be written to: the template is used in time.
FallbackTold == <>((told # <<>> \/ cancelled) /\ open > 0)
=============================================================================
