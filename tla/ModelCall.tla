------------------------------ MODULE ModelCall ------------------------------
(***************************************************************************)
(* Calls of a language model over HTTP: a call is a number of requests,    *)
(* each of which has a timeout of its own, with a short pause before the   *)
(* next one.  Each caller has at most one call under way.  What an answer  *)
(* says is left to whoever called.                                         *)
(*                                                                         *)
(* Time passes in ticks while a request is out; pauses (tenths of a        *)
(* second, where a timeout is minutes) and all else take none.             *)
(***************************************************************************)
EXTENDS Naturals

CONSTANTS Callers,       \* whoever may have a call under way
          MaxRetries,    \* how many requests may follow a call's first
          Timeout        \* the ticks a request may take

VARIABLES cancelled,     \* the context of the calls is done
          call           \* each caller's call

Call == [at: {"idle", "request", "pause", "answered", "failed"},
         attempt: 0..MaxRetries, left: 0..Timeout]

NoCall == [at |-> "idle", attempt |-> 0, left |-> 0]

CallInit == call = [c \in Callers |-> NoCall]

Request(c, n) ==
    call' = [call EXCEPT ![c] = [at |-> "request", attempt |-> n, left |-> Timeout]]

Start(c) == call[c].at = "idle" /\ Request(c, 0)

Becomes(c, at) == call' = [call EXCEPT ![c].at = at]

\* What may be tried again, unless it was the last attempt or nobody waits any more.
AlwaysRetry(c) == call[c].attempt <= MaxRetries /\ ~cancelled
MayRetry(c) == call[c].attempt < MaxRetries /\ ~cancelled

Retry(c) == Becomes(c, IF MayRetry(c) THEN "pause" ELSE "failed")

\* A status other than success: 408, 429, 529 and 5xx may be better next time.
Denied(c) == Becomes(c, "failed") \/ Retry(c)

\* The answer is a stream that is cut, too long, empty or no stream of a model's.
Cut(c) == Retry(c)

\* The stream ends, with one object of the shape that was asked for or with something else.
Decoded(c) == Becomes(c, "answered") \/ Retry(c)

\* An object that lacks a part fails the call.
Lacking(c) == Becomes(c, "failed")

Reply(c) ==
    /\ call[c].at = "request"
    /\ Denied(c) \/ Cut(c) \/ Decoded(c) \/ Lacking(c)

\* The client's timeout covers the reading of the answer.
TimeOut(c) == call[c].at = "request" /\ call[c].left = 0 /\ Retry(c)

Abandon(c) == call[c].at \in {"request", "pause"} /\ cancelled /\ Becomes(c, "failed")

\* The pause is over; when the context is done as well, either may be noticed.
Resume(c) == call[c].at = "pause" /\ Request(c, call[c].attempt + 1)

Forget(c) == call' = [call EXCEPT ![c] = NoCall]

\* One tick, which no request outlives.
Elapse ==
    /\ \E c \in Callers : call[c].at = "request"
    /\ \A c \in Callers : call[c].at = "request" => call[c].left > 0
    /\ call' = [c \in Callers |->
                  IF call[c].at = "request" THEN [call[c] EXCEPT !.left = @ - 1] ELSE call[c]]

\* A call goes on without its model.
Proceed(c) == TimeOut(c) \/ Abandon(c) \/ Resume(c)
=============================================================================
