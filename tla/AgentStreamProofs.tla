--------------------------- MODULE AgentStreamProofs ---------------------------
(***************************************************************************)
(* The stream of an agent run, for any number of directions, retries and   *)
(* ticks: whoever gives way to a cancelled context, the orchestrator keeps *)
(* the protocol that the service checks, what it hands out is sound, and   *)
(* the stream is one of StreamPromise.  None of its goroutines waits in    *)
(* vain, and its calls take a bounded time.                                *)
(***************************************************************************)
EXTENDS AgentStream, SequenceTheorems, FiniteSetTheorems, TLAPS

-----------------------------------------------------------------------------
(* The inductive invariant.                                                *)

\* The orchestrator has handed out its outcome, or given up on it.
Out == {"finish", "ended"}

Told     == {<<"result">>, <<"error">>}
ToldAll  == {<<"result", "done">>, <<"error", "done">>}
ToldDone == <<"done">>
HasResult == told \in {<<"result">>, <<"result", "done">>}

\* What is announced is something, and the one result of a run passed the guard.
ResultsMade ==
    /\ runner \in {"announce", "deliver"} \/ service.held \/ HasResult => Delivered # {}
    /\ action # "race" =>
           /\ runner # "gather" /\ \A d \in Directions \ {Single} : made[d] = "none"
           /\ runner \in {"announce", "deliver"} \/ HasResult => made[Single] = "sound"

\* Outside a workspace the client is told what the orchestrator sends, in its order.
DirectInv ==
    /\ service.at = "ended" /\ ~service.held /\ service.code = "" /\ verdict = "running"
    /\ told \in {<<>>, ToldDone} \cup Told \cup ToldAll
    /\ runner \notin Out => told = <<>>
    /\ runner = "finish" => told \in Told \/ (told = <<>> /\ cancelled /\ action = "race")
    /\ runner = "ended" => told \in ToldAll \/ cancelled
    /\ told = ToldDone => cancelled /\ action = "race"

\* In one, the orchestrator's stream is taken for what it is.
Followed ==
    /\ ~service.invalid /\ service.code # "invalid"
    /\ service.sawDone => runner = "ended"
    /\ service.held \/ service.status = "failed" => runner \in Out
    /\ runner = "ended" => service.sawDone \/ cancelled
    /\ runner \in Out => service.held \/ service.status = "failed" \/ cancelled
    /\ service.status = "cancelled" \/ service.code \in {"incomplete", "missing"} => cancelled

\* And the client is told no more than the service knows, which is what it records.
Accounted ==
    /\ told \in {<<>>} \cup Told \cup ToldAll
    /\ HasResult => runner = "ended" /\ KeepsContract
    /\ service.at \in {"receive", "forward"} => service.status \in {"succeeded", "failed"}
    /\ service.at = "receive" =>
           told = IF service.status = "failed" THEN <<"error">> ELSE <<>>
    /\ service.at = "forward" =>
           /\ told = <<>>
           /\ service.event = IF service.status = "failed" THEN "error" ELSE "progress"
    /\ service.at \in {"reject", "check", "store", "offer", "finish"} =>
           runner = "ended" /\ service.status \in {"succeeded", "failed"}
    /\ service.at \in {"reject", "check", "store", "offer"} => told = <<>>
    /\ service.at = "reject" => service.status = "failed"
    /\ service.at \in {"check", "store", "offer"} /\ service.status = "succeeded" => service.held
    /\ service.at \in {"check", "store"} => service.status = "succeeded"
    /\ service.at \in {"store", "offer"} /\ service.status = "succeeded" => KeepsContract
    /\ service.at = "finish" => told = <<Closing>>
    /\ service.at \in {"complete", "ended"} =>
           service.status = "cancelled" \/ told = <<Closing, "done">>
    /\ told \in ToldAll => service.at \in {"complete", "ended"} /\ service.status # "cancelled"
    /\ verdict = IF service.at = "ended" THEN service.status ELSE "running"

Protocol == /\ ResultsMade
            /\ direct => DirectInv
            /\ ~direct => Followed /\ Accounted

\* A call that pauses has a request left.
CallsOK == /\ call \in [Directions -> Model!Call]
           /\ \A d \in Directions : call[d].at = "pause" => call[d].attempt < MaxRetries

Places == {"begin", "gather", "call", "brief", "elaborate", "warn", "fallback", "validating",
           "check", "fail", "announce", "deliver", "report", "finish", "ended"}

Shapes ==
    /\ action \in Actions /\ direct \in BOOLEAN /\ cancelled \in BOOLEAN
    /\ open \in 0..WriteTimeout
    /\ runner \in Places /\ building \subseteq Directions
    /\ results \in Seq([direction: Directions, sound: BOOLEAN])
    /\ made \in [Directions -> {"none"} \cup Quality]
    /\ service \in Service
    /\ handler \in {"serving", "returned"}
    /\ verdict \in {"running"} \cup Verdicts

StreamInv == Shapes /\ CallsOK /\ Protocol

LEMMA ShortSequences ==
    ASSUME NEW S, NEW a \in S, NEW b \in S
    PROVE  <<>> \in Seq(S) /\ <<a>> \in Seq(S) /\ <<a, b>> \in Seq(S)
BY SMT

LEMMA TypeFollows == StreamInv => TypeOK
<1> SUFFICES ASSUME StreamInv PROVE TypeOK
    OBVIOUS
<1>1. told \in Seq(Kinds \cup {"interrupted"})
    <2>1. told \in {<<>>, ToldDone} \cup Told \cup ToldAll
        BY DEF StreamInv, Protocol, DirectInv, Accounted
    <2>2. "result" \in Kinds /\ "error" \in Kinds /\ "done" \in Kinds
        BY DEF Kinds
    <2> QED
        BY <2>1, <2>2, ShortSequences, Zenon DEF Told, ToldAll, ToldDone
<1> QED
    BY <1>1 DEF StreamInv, Shapes, CallsOK, Places, TypeOK

-----------------------------------------------------------------------------
(* Sequences of at most two events, and the fields of the service.         *)

LEMMA First == ASSUME NEW k PROVE Append(<<>>, k) = <<k>>
BY SMT

LEMMA Second == ASSUME NEW a, NEW k PROVE Append(<<a>>, k) = <<a, k>>
<1> DEFINE S == {a, k}
<1>1. <<a>> \in Seq(S) /\ <<a, k>> \in Seq(S) /\ Len(<<a>>) = 1 /\ Len(<<a, k>>) = 2
    BY SMT
<1>2. /\ Append(<<a>>, k) \in Seq(S) /\ Len(Append(<<a>>, k)) = 2
      /\ Append(<<a>>, k)[1] = a /\ Append(<<a>>, k)[2] = k
    BY <1>1, SMT
<1>3. \A i \in 1..2 : Append(<<a>>, k)[i] = <<a, k>>[i]
    BY <1>2, SMT
<1> QED
    BY <1>1, <1>2, <1>3, SeqEqual

LEMMA Different ==
    /\ <<>> \notin {ToldDone} \cup Told \cup ToldAll /\ ToldDone \notin Told \cup ToldAll
    /\ Told \cap ToldAll = {}
    /\ HasResult => told \in Told \cup ToldAll
BY SMT DEF ToldDone, Told, ToldAll, HasResult

LEMMA SoundStream ==
    ASSUME told \in {<<>>, ToldDone} \cup Told \cup ToldAll
    PROVE  /\ (\E i \in 1..Len(told) : told[i] = "result") <=> HasResult
           /\ "done" \in {told[i] : i \in 1..Len(told)} <=> told \in {ToldDone} \cup ToldAll
<1>1. (\E i \in 1..Len(told) : told[i] = "result") <=> HasResult
    BY SMT DEF Told, ToldAll, ToldDone, HasResult
<1>2. (\E i \in 1..Len(told) : told[i] = "done") <=> told \in {ToldDone} \cup ToldAll
    BY SMT DEF Told, ToldAll, ToldDone
<1> QED
    BY <1>1, <1>2, Zenon

LEMMA SameMade == ASSUME UNCHANGED made PROVE Delivered' = Delivered /\ (KeepsContract' <=> KeepsContract)
BY DEF Delivered, KeepsContract

At == {"receive", "forward", "reject", "check", "store", "offer", "finish", "complete", "ended"}
Codes == {"", "run", "invalid", "incomplete", "missing", "contract", "store", "client"}

LEMMA Moved ==
    ASSUME NEW s \in Service, NEW at \in At
    PROVE  LET t == [s EXCEPT !.at = at]
           IN  /\ t \in Service /\ t.at = at /\ t.event = s.event /\ t.sawDone = s.sawDone
               /\ t.invalid = s.invalid /\ t.held = s.held /\ t.status = s.status /\ t.code = s.code
BY Zenon DEF Service, At

-----------------------------------------------------------------------------
(* What a step does that says nothing to the client.                       *)

\* A context is never taken back, and nothing else here is about it.
LEMMA Elsewhere ==
    ASSUME Protocol, UNCHANGED <<action, direct, runner, made, service, told, verdict>>,
           cancelled => cancelled'
    PROVE  Protocol'
<1>1. Delivered' = Delivered /\ (KeepsContract' <=> KeepsContract) /\ (HasResult' <=> HasResult)
    BY SameMade DEF HasResult
<1>2. ResultsMade'
    BY <1>1 DEF Protocol, ResultsMade
<1>3. direct' => DirectInv'
    BY DEF Protocol, DirectInv
<1>4. ~direct' => Followed' /\ Accounted'
    BY <1>1 DEF Protocol, Followed, Accounted, Closing
<1> QED
    BY <1>2, <1>3, <1>4 DEF Protocol

\* While the orchestrator works, the client has not been told an outcome.
LEMMA NothingYet ==
    ASSUME Shapes, Protocol, runner \notin Out
    PROVE  /\ ~HasResult /\ ~service.held
           /\ direct => told = <<>>
           /\ ~direct => /\ ~service.sawDone /\ service.status # "failed"
                         /\ service.at \in {"receive", "forward", "complete", "ended"}
<1>1. service.at \in At
    BY Zenon DEF Shapes, Service, At
<1>2. CASE direct
    BY <1>2, Different DEF Protocol, DirectInv
<1>3. CASE ~direct
    BY <1>1, <1>3, SMT DEF Protocol, Followed, Accounted, Out, At
<1> QED
    BY <1>2, <1>3

LEMMA Working ==
    ASSUME Shapes, Protocol, runner \notin Out, ResultsMade',
           UNCHANGED <<action, direct, service, told, verdict>>, cancelled => cancelled',
           runner' \in Out => cancelled',
           runner' = "finish" => action = "race"
    PROVE  Protocol'
<1>1. /\ ~HasResult /\ ~service.held
      /\ direct => told = <<>>
      /\ ~direct => /\ ~service.sawDone /\ service.status # "failed"
                    /\ service.at \in {"receive", "forward", "complete", "ended"}
    BY NothingYet
<1>2. direct' => DirectInv'
    BY <1>1, Different DEF Protocol, DirectInv, Out
<1>3. ~direct' => Followed'
    BY <1>1, SMT DEF Protocol, Followed, Out
<1>4. ~direct' => Accounted'
    BY <1>1, SMT DEF Protocol, Accounted, HasResult, Closing
<1> QED
    BY <1>2, <1>3, <1>4 DEF Protocol

\* The end is all that the orchestrator may leave out after its outcome.
LEMMA GivenUp ==
    ASSUME Protocol, runner = "finish", runner' = "ended", cancelled,
           UNCHANGED <<action, direct, cancelled, made, service, told, verdict>>
    PROVE  Protocol'
<1>1. Delivered' = Delivered /\ (KeepsContract' <=> KeepsContract) /\ (HasResult' <=> HasResult)
    BY SameMade DEF HasResult
<1>2. ResultsMade'
    BY <1>1, SMT DEF Protocol, ResultsMade
<1>3. direct' => DirectInv'
    BY DEF Protocol, DirectInv, Out
<1>4. ~direct' => Followed'
    BY SMT DEF Protocol, Followed, Out
<1>5. ~direct' => Accounted'
    BY <1>1, SMT DEF Protocol, Accounted, Closing
<1> QED
    BY <1>2, <1>3, <1>4, <1>5 DEF Protocol

-----------------------------------------------------------------------------
(* Calls of the model.                                                     *)

LEMMA OneCall ==
    ASSUME CallsOK, NEW d \in Directions, NEW c \in Model!Call,
           c.at = "pause" => c.attempt < MaxRetries, call' = [call EXCEPT ![d] = c]
    PROVE  CallsOK'
<1>1. call' \in [Directions -> Model!Call]
    BY Zenon DEF CallsOK
<1>2. \A e \in Directions : call'[e] = IF e = d THEN c ELSE call[e]
    BY Zenon DEF CallsOK
<1> QED
    BY <1>1, <1>2 DEF CallsOK

LEMMA CallRequested ==
    ASSUME CallsOK, NEW d \in Directions, NEW n \in 0..MaxRetries, Model!Request(d, n)
    PROVE  CallsOK'
<1>1. [at |-> "request", attempt |-> n, left |-> Timeout] \in Model!Call
    BY TimeAssumption, SMT DEF Model!Call
<1>2. [at |-> "request", attempt |-> n, left |-> Timeout].at # "pause"
    BY SMT
<1> QED
    BY <1>1, <1>2, OneCall DEF Model!Request

LEMMA CallStarts ==
    ASSUME CallsOK, NEW d \in Directions, Model!Start(d)
    PROVE  CallsOK'
BY CallRequested, TimeAssumption, SMT DEF Model!Start

LEMMA CallForgotten ==
    ASSUME CallsOK, NEW d \in Directions, Model!Forget(d)
    PROVE  CallsOK'
<1>1. Model!NoCall \in Model!Call
    BY TimeAssumption, SMT DEF Model!Call, Model!NoCall
<1>2. Model!NoCall.at # "pause"
    BY SMT DEF Model!NoCall
<1> QED
    BY <1>1, <1>2, OneCall DEF Model!Forget

LEMMA CallBecomes ==
    ASSUME CallsOK, NEW d \in Directions, NEW at \in {"pause", "answered", "failed"},
           at = "pause" => call[d].attempt < MaxRetries, Model!Becomes(d, at)
    PROVE  CallsOK'
<1> DEFINE c == [call[d] EXCEPT !.at = at]
<1>1. call[d] \in Model!Call
    BY DEF CallsOK
<1>2. c \in Model!Call /\ c.at = at /\ c.attempt = call[d].attempt
    BY <1>1, Zenon DEF Model!Call
<1>3. call' = [call EXCEPT ![d] = c]
    BY DEF Model!Becomes
<1> HIDE DEF c
<1> QED
    BY <1>2, <1>3, OneCall

LEMMA CallRetried ==
    ASSUME CallsOK, NEW d \in Directions, Model!Retry(d)
    PROVE  CallsOK'
BY CallBecomes, SMT DEF Model!Retry, Model!MayRetry

LEMMA CallReplied ==
    ASSUME CallsOK, NEW d \in Directions, Model!Reply(d)
    PROVE  CallsOK'
BY CallBecomes, CallRetried DEF Model!Reply, Model!Denied, Model!Cut, Model!Decoded, Model!Lacking

LEMMA CallProceeds ==
    ASSUME CallsOK, NEW d \in Directions, Model!Proceed(d)
    PROVE  CallsOK'
<1>1. CASE Model!TimeOut(d)
    BY <1>1, CallRetried DEF Model!TimeOut
<1>2. CASE Model!Abandon(d)
    BY <1>2, CallBecomes DEF Model!Abandon
<1>3. CASE Model!Resume(d)
    <2>1. call[d].attempt \in Nat /\ call[d].attempt < MaxRetries
        BY <1>3, SMT DEF CallsOK, Model!Resume, Model!Call
    <2> QED
        BY <1>3, <2>1, CallRequested, TimeAssumption, SMT DEF Model!Resume
<1> QED
    BY <1>1, <1>2, <1>3 DEF Model!Proceed

LEMMA CallElapses ==
    ASSUME CallsOK, Model!Elapse
    PROVE  CallsOK'
<1>1. ASSUME NEW d \in Directions
      PROVE  /\ call'[d] \in Model!Call
             /\ call'[d].at = call[d].at /\ call'[d].attempt = call[d].attempt
    <2>1. call[d] \in Model!Call
        BY DEF CallsOK
    <2>2. CASE call[d].at = "request"
        <3>1. call'[d] = [call[d] EXCEPT !.left = call[d].left - 1] /\ call[d].left > 0
            BY <2>2 DEF Model!Elapse
        <3>2. call[d].left - 1 \in 0..Timeout
            BY <2>1, <3>1, TimeAssumption, SMT DEF Model!Call
        <3> QED
            BY <2>1, <3>1, <3>2, Zenon DEF Model!Call
    <2>3. CASE call[d].at # "request"
        BY <2>1, <2>3 DEF Model!Elapse
    <2> QED
        BY <2>2, <2>3
<1>2. call' \in [Directions -> Model!Call]
    BY <1>1, Zenon DEF Model!Elapse
<1> QED
    BY <1>1, <1>2 DEF CallsOK

-----------------------------------------------------------------------------
(* The orchestrator at work.                                               *)

Result == [direction: Directions, sound: BOOLEAN]

LEMMA MakerShaped ==
    ASSUME Shapes, runner' \in Places, building' \subseteq Directions, results' \in Seq(Result),
           made' \in [Directions -> {"none"} \cup Quality], UNCHANGED <<given, open, rest>>
    PROVE  Shapes'
BY Zenon DEF Shapes, given, rest, Result

LEMMA SingleIsOne == Single \in Directions
BY DirectionsAssumption, Zenon DEF Single

\* Where no result is made.
LEMMA SameResults ==
    ASSUME Shapes, Protocol, runner \notin Out, runner' # "gather" \/ action = "race",
           UNCHANGED <<action, made, service, told>>,
           runner' \in {"announce", "deliver"} =>
               runner \in {"announce", "deliver"}
               \/ (Delivered # {} /\ (action # "race" => made[Single] = "sound"))
    PROVE  ResultsMade'
<1>1. Delivered' = Delivered /\ ~HasResult' /\ ~service'.held
    BY NothingYet, SameMade DEF HasResult
<1> QED
    BY <1>1 DEF Protocol, ResultsMade

LEMMA Answered ==
    ASSUME Shapes, Protocol, runner \notin Out, NEW next \in SUBSET {"check", "validating"},
           Answer(next), UNCHANGED <<action, service, told>>
    PROVE  /\ made' \in [Directions -> {"none"} \cup Quality]
           /\ runner' \in {"check", "validating"} /\ ResultsMade'
<1>1. PICK quality \in {"sound", "refused"} : made' = [made EXCEPT ![Single] = quality]
    BY DEF Answer
<1>2. made \in [Directions -> {"none"} \cup Quality]
    BY DEF Shapes
<1>3. /\ made' \in [Directions -> {"none"} \cup Quality]
      /\ \A d \in Directions \ {Single} : made'[d] = made[d]
    <2>1. quality \in {"none"} \cup Quality
        BY Zenon DEF Quality
    <2>2. made' \in [Directions -> {"none"} \cup Quality]
        BY <1>1, <1>2, <2>1, Zenon
    <2>3. \A d \in Directions \ {Single} : made'[d] = made[d]
        BY <1>1, <1>2, Zenon
    <2> QED
        BY <2>2, <2>3
<1>4. runner' \in {"check", "validating"}
    BY DEF Answer
<1>5. ~HasResult' /\ ~service'.held
    BY NothingYet DEF HasResult
<1>6. \A d \in Directions \ {Single} : action # "race" => made[d] = "none"
    BY DEF Protocol, ResultsMade
<1>7. ResultsMade'
    BY <1>3, <1>4, <1>5, <1>6 DEF ResultsMade
<1> QED
    BY <1>3, <1>4, <1>7

LEMMA WorkDone ==
    ASSUME StreamInv, UNCHANGED <<given, open, rest>>, runner \notin Out,
           runner' \in Places, building' \subseteq Directions, results' \in Seq(Result),
           made' \in [Directions -> {"none"} \cup Quality], CallsOK', ResultsMade',
           runner' \in Out => cancelled,
           runner' = "finish" => action = "race"
    PROVE  StreamInv'
<1>1. Shapes'
    BY MakerShaped DEF StreamInv
<1>2. Protocol'
    BY Working DEF StreamInv, given, rest
<1> QED
    BY <1>1, <1>2 DEF StreamInv

LEMMA StepUse == ASSUME StreamInv, Use \/ Elaborate \/ Fallback PROVE StreamInv'
<1> USE DEF StreamInv
<1>1. /\ runner \in {"call", "elaborate", "fallback"} /\ runner \notin Out
      /\ UNCHANGED <<given, open, building, results, rest>>
    BY DEF Use, Elaborate, Fallback, Out, model
<1>2. /\ building' \subseteq Directions /\ results' \in Seq(Result)
      /\ made \in [Directions -> {"none"} \cup Quality]
    BY <1>1 DEF Shapes, Result
<1>3. CallsOK'
    <2>1. CASE Fallback
        BY <2>1 DEF Fallback, model, CallsOK
    <2>2. CASE Use \/ Elaborate
        BY <2>2, SingleIsOne, CallForgotten DEF Use, Elaborate, Called
    <2> QED
        BY <2>1, <2>2
<1>4. UNCHANGED <<action, service, told>>
    BY <1>1 DEF given, rest
<1>5. CASE \E next \in SUBSET {"check", "validating"} : Answer(next)
    <2>1. /\ made' \in [Directions -> {"none"} \cup Quality]
          /\ runner' \in {"check", "validating"} /\ ResultsMade'
        BY <1>1, <1>4, <1>5, Answered
    <2>2. runner' \in Places /\ runner' \notin Out
        BY <2>1 DEF Places, Out
    <2> QED
        BY <1>1, <1>2, <1>3, <2>1, <2>2, WorkDone DEF Out
<1>6. CASE runner' \in {"brief", "warn"} /\ UNCHANGED made
    <2>1. ResultsMade'
        BY <1>1, <1>4, <1>6, SameResults
    <2>2. runner' \in Places /\ runner' \notin Out
        BY <1>6 DEF Places, Out
    <2> QED
        BY <1>1, <1>2, <1>3, <1>6, <2>1, <2>2, WorkDone DEF Out
<1>7. \/ \E next \in SUBSET {"check", "validating"} : Answer(next)
      \/ runner' \in {"brief", "warn"} /\ UNCHANGED made
    <2>1. CASE Use
        BY <2>1, SMT DEF Use
    <2>2. CASE Elaborate
        BY <2>2, SMT DEF Elaborate
    <2>3. CASE Fallback
        BY <2>3, SMT DEF Fallback
    <2> QED
        BY <2>1, <2>2, <2>3
<1> QED
    BY <1>5, <1>6, <1>7

LEMMA StepCallModel == ASSUME StreamInv, CallModel PROVE StreamInv'
<1>1. UNCHANGED <<given, open, maker, rest>> /\ CallsOK'
    BY SingleIsOne, CallStarts DEF StreamInv, CallModel
<1>2. Shapes'
    BY <1>1 DEF StreamInv, Shapes, given, maker, rest
<1>3. Protocol'
    BY <1>1, Elsewhere DEF StreamInv, given, maker, rest
<1> QED
    BY <1>1, <1>2, <1>3 DEF StreamInv

LEMMA StepCheck == ASSUME StreamInv, Check \/ Fail PROVE StreamInv'
<1>1. /\ runner \in {"check", "fail"} /\ runner \notin Out
      /\ UNCHANGED <<given, model, building, results, made, rest>>
    BY DEF Check, Fail, Out
<1>2. /\ runner' \in {"announce", "fail", "ended", "report"}
      /\ runner' = "announce" => made[Single] = "sound"
      /\ runner' = "ended" => cancelled
    BY <1>1, SMT DEF Check, Fail
<1>3. made[Single] = "sound" => Delivered # {}
    BY SingleIsOne DEF Delivered
<1>4. ResultsMade'
    BY <1>1, <1>2, <1>3, SameResults DEF StreamInv, given, rest
<1>5. CallsOK' /\ UNCHANGED open
    BY <1>1 DEF StreamInv, CallsOK, model
<1>6. runner' \in Places /\ runner' # "finish" /\ (runner' \in Out => runner' = "ended")
    BY <1>2 DEF Places, Out
<1>7. building' \subseteq Directions /\ results' \in Seq(Result)
      /\ made' \in [Directions -> {"none"} \cup Quality]
    BY <1>1 DEF StreamInv, Shapes, Result
<1> QED
    BY <1>1, <1>2, <1>4, <1>5, <1>6, <1>7, WorkDone

LEMMA StepRefused == ASSUME StreamInv, Refused PROVE StreamInv'
<1>1. /\ UNCHANGED <<given, model, building, results, made, rest>> /\ cancelled
      /\ runner' = GivesUp /\ Sending
    BY DEF Refused
<1>2. /\ CallsOK' /\ UNCHANGED open
      /\ building' \subseteq Directions /\ results' \in Seq(Result)
      /\ made' \in [Directions -> {"none"} \cup Quality]
    BY <1>1 DEF StreamInv, Shapes, CallsOK, model, Result
<1>3. CASE runner = "finish"
    <2>1. runner' = "ended" /\ runner' \in Places
        BY <1>1, <1>3 DEF GivesUp, Places
    <2>2. Shapes'
        BY <1>1, <1>2, <2>1, MakerShaped DEF StreamInv
    <2>3. Protocol'
        BY <1>1, <1>3, <2>1, GivenUp DEF StreamInv, given, rest
    <2> QED
        BY <1>2, <2>2, <2>3 DEF StreamInv
<1>4. CASE runner # "finish"
    <2>1. runner \notin Out
        BY <1>1, <1>4 DEF Sending, Out
    <2>2. \/ runner' = "ended"
          \/ runner \in {"announce", "deliver"} /\ action = "race" /\ runner' \in {"deliver", "finish"}
        BY <1>1, SMT DEF GivesUp, Onward
    <2>3. runner' \in Places /\ (runner' = "finish" => action = "race") /\ runner' # "gather"
        BY <2>2 DEF Places
    <2>4. ResultsMade'
        BY <1>1, <2>1, <2>2, <2>3, SameResults DEF StreamInv, given, rest
    <2> QED
        BY <1>1, <1>2, <2>1, <2>3, <2>4, WorkDone
<1> QED
    BY <1>3, <1>4

LEMMA StepGather == ASSUME StreamInv, Gather PROVE StreamInv'
<1>1. /\ runner = "gather" /\ runner' = runner /\ results # <<>> /\ results' = Tail(results)
      /\ UNCHANGED <<given, model, building, rest>>
    BY DEF Gather
<1>2. Head(results) \in Result /\ results' \in Seq(Result)
    BY <1>1, HeadTailProperties, Zenon DEF StreamInv, Shapes, Result
<1>3. Head(results).direction \in Directions
    BY <1>2 DEF Result
<1>4. made' \in [Directions -> {"none"} \cup Quality]
    <2>1. "sound" \in {"none"} \cup Quality /\ Quality \subseteq {"none"} \cup Quality
        BY Zenon DEF Quality
    <2>2. \E quality \in {"none"} \cup Quality :
              made' = [made EXCEPT ![Head(results).direction] = quality]
        BY <2>1, Zenon DEF Gather
    <2> QED
        BY <1>3, <2>2, Zenon DEF StreamInv, Shapes
<1>5. action = "race" /\ action' = "race"
    BY <1>1 DEF StreamInv, Protocol, ResultsMade, given
<1>6. ResultsMade'
    <2>1. ~HasResult' /\ ~service'.held
        BY <1>1, NothingYet DEF StreamInv, Out, HasResult, rest
    <2> QED
        BY <1>1, <1>5, <2>1 DEF ResultsMade
<1>7. /\ CallsOK' /\ UNCHANGED open
      /\ building' \subseteq Directions /\ runner' \in Places /\ runner' \notin Out /\ runner \notin Out
    BY <1>1 DEF StreamInv, Shapes, CallsOK, model, Places, Out
<1> QED
    BY <1>1, <1>2, <1>4, <1>6, <1>7, WorkDone DEF Out

LEMMA StepGathered == ASSUME StreamInv, Gathered PROVE StreamInv'
<1>1. /\ runner = "gather" /\ runner' = (IF Delivered = {} THEN "fail" ELSE "announce")
      /\ UNCHANGED <<given, model, building, results, made, rest>>
    BY DEF Gathered
<1>2. action = "race"
    BY <1>1 DEF StreamInv, Protocol, ResultsMade
<1>3. /\ CallsOK' /\ UNCHANGED open
      /\ building' \subseteq Directions /\ results' \in Seq(Result)
      /\ made' \in [Directions -> {"none"} \cup Quality]
    BY <1>1 DEF StreamInv, Shapes, CallsOK, model, Result
<1>4. runner \notin Out /\ runner' \in {"fail", "announce"} /\ runner' \in Places /\ runner' \notin Out
    BY <1>1 DEF Out, Places
<1>5. ResultsMade'
    BY <1>1, <1>2, <1>4, SameResults DEF StreamInv, given, rest
<1> QED
    BY <1>1, <1>3, <1>4, <1>5, WorkDone DEF Out

-----------------------------------------------------------------------------
(* What goes on beside the orchestrator.                                   *)

LEMMA Beside ==
    ASSUME StreamInv, CallsOK', UNCHANGED <<given, runner, made, rest>>, UNCHANGED open,
           building' \subseteq Directions, results' \in Seq(Result)
    PROVE  StreamInv'
<1>1. Shapes'
    BY MakerShaped DEF StreamInv, Shapes, Places
<1>2. Protocol'
    BY Elsewhere DEF StreamInv, given, rest
<1> QED
    BY <1>1, <1>2 DEF StreamInv

LEMMA StepBuilder ==
    ASSUME StreamInv, NEW d \in Directions, Builder(d) PROVE StreamInv'
<1>1. CASE BuildCalls(d)
    <2>1. UNCHANGED <<given, open, maker, rest>> /\ CallsOK'
        BY <1>1, CallStarts DEF BuildCalls, StreamInv
    <2>2. building' \subseteq Directions /\ results' \in Seq(Result)
        BY <2>1 DEF StreamInv, Shapes, maker, Result
    <2> QED
        BY <2>1, <2>2, Beside DEF maker
<1>2. CASE Build(d)
    <2>1. UNCHANGED <<given, open, runner, made, rest>> /\ CallsOK' /\ building' \subseteq Directions
        BY <1>2, CallForgotten DEF Build, StreamInv, Shapes
    <2>2. results' \in Seq(Result)
        <3>1. PICK sound \in {FALSE, call[d].at = "answered"} :
                  results' = Append(results, [direction |-> d, sound |-> sound])
            BY <1>2 DEF Build
        <3>2. sound \in BOOLEAN
            BY Zenon
        <3>3. [direction |-> d, sound |-> sound] \in Result
            BY <3>2, Zenon DEF Result
        <3> QED
            BY <3>1, <3>3, AppendProperties, Zenon DEF StreamInv, Shapes, Result
    <2> QED
        BY <2>1, <2>2, Beside
<1> QED
    BY <1>1, <1>2 DEF Builder

LEMMA StepModel ==
    ASSUME StreamInv, NEW d \in Directions, ModelReplies(d) \/ ModelSilent(d) PROVE StreamInv'
<1>1. UNCHANGED <<given, open, maker, rest>> /\ CallsOK'
    BY CallReplied, CallProceeds DEF ModelReplies, ModelSilent, StreamInv
<1>2. building' \subseteq Directions /\ results' \in Seq(Result)
    BY <1>1 DEF StreamInv, Shapes, maker, Result
<1> QED
    BY <1>1, <1>2, Beside DEF maker

LEMMA StepTick == ASSUME StreamInv, Tick PROVE StreamInv'
<1>1. UNCHANGED <<given, maker, rest>> /\ CallsOK' /\ open' \in 0..WriteTimeout
    BY CallElapses, TimeAssumption, SMT DEF Tick, StreamInv, Shapes
<1>2. Shapes'
    BY <1>1, Zenon DEF StreamInv, Shapes, given, maker, rest
<1>3. Protocol'
    BY <1>1, Elsewhere DEF StreamInv, given, maker, rest
<1> QED
    BY <1>1, <1>2, <1>3 DEF StreamInv

LEMMA StepLeaves == ASSUME StreamInv, ClientLeaves \/ HandlerCancelled PROVE StreamInv'
<1>1. /\ UNCHANGED <<action, direct, model, maker, service, told, verdict>>
      /\ cancelled' \in BOOLEAN /\ (cancelled => cancelled')
      /\ handler' \in {"serving", "returned"}
    BY DEF ClientLeaves, HandlerCancelled, given, rest, StreamInv, Shapes
<1>2. CallsOK'
    BY <1>1 DEF StreamInv, CallsOK, model
<1>3. Shapes'
    BY <1>1, Zenon DEF StreamInv, Shapes, model, maker
<1>4. Protocol'
    BY <1>1, Elsewhere DEF StreamInv, maker
<1> QED
    BY <1>2, <1>3, <1>4 DEF StreamInv

\* A stream is not closed before it ended or its context was done.
LEMMA NotInterrupted == ASSUME StreamInv, HandlerClosed PROVE ~Interrupted
<1>1. told \in {<<>>, ToldDone} \cup Told \cup ToldAll
    BY DEF StreamInv, Protocol, DirectInv, Accounted
<1>2. told \in ToldAll \/ cancelled
    <2>1. CASE direct
        BY <2>1 DEF HandlerClosed, Closed, StreamInv, Protocol, DirectInv
    <2>2. CASE ~direct
        BY <2>2, Zenon DEF HandlerClosed, Closed, StreamInv, Protocol, Followed, Accounted, ToldAll,
                    Closing
    <2> QED
        BY <2>1, <2>2
<1> QED
    BY <1>1, <1>2, SoundStream, Zenon DEF Interrupted

LEMMA StepClosed == ASSUME StreamInv, HandlerClosed PROVE StreamInv'
<1>1. ~Interrupted
    BY NotInterrupted
<1>2. /\ UNCHANGED <<action, direct, model, maker, service, told, verdict>>
      /\ handler' = "returned" /\ cancelled' = TRUE
    BY <1>1 DEF HandlerClosed
<1>3. CallsOK'
    BY <1>2 DEF StreamInv, CallsOK, model
<1>4. Shapes'
    BY <1>2, Zenon DEF StreamInv, Shapes, model, maker
<1>5. Protocol'
    BY <1>2, Elsewhere DEF StreamInv, maker
<1> QED
    BY <1>3, <1>4, <1>5 DEF StreamInv

-----------------------------------------------------------------------------
(* What the orchestrator sends.                                            *)

\* The handler may leave with the event it takes.
LEMMA Heeded ==
    ASSUME NEW kind \in Kinds, Hear(kind), Shapes
    PROVE  /\ cancelled' \in BOOLEAN /\ (cancelled => cancelled') /\ handler' \in {"serving", "returned"}
           /\ told' = IF kind = "progress" THEN told ELSE Append(told, kind)
<1>1. \/ UNCHANGED <<handler, cancelled>>
      \/ handler' \in {"serving", "returned"} /\ cancelled' = TRUE
    BY Zenon DEF Hear
<1>2. cancelled' \in BOOLEAN /\ (cancelled => cancelled') /\ handler' \in {"serving", "returned"}
    BY <1>1, Zenon DEF Shapes
<1> QED
    BY <1>2, Zenon DEF Hear

LEMMA Speaking ==
    ASSUME Sending
    PROVE  /\ Sent \in Kinds
           /\ runner = "begin" => Sent = "progress" /\ Onward = (IF action = "race" THEN "gather" ELSE "call")
           /\ runner = "brief" => Sent = "progress" /\ Onward = "elaborate"
           /\ runner = "warn" => Sent = "progress" /\ Onward = "fallback"
           /\ runner = "validating" => Sent = "progress" /\ Onward = "check"
           /\ runner = "announce" => Sent = "progress" /\ Onward = "deliver"
           /\ runner = "deliver" => Sent = "result" /\ Onward = "finish"
           /\ runner = "report" => Sent = "error" /\ Onward = "finish"
           /\ runner = "finish" => Sent = "done" /\ Onward = "ended"
BY SMT DEF Sending, Sent, Onward, Kinds

Silent == {"begin", "brief", "warn", "validating", "announce"}

LEMMA SentOnward ==
    ASSUME Sending
    PROVE  /\ Onward \in Places
           /\ runner \in Silent => /\ Sent = "progress" /\ runner \notin Out /\ Onward \notin Out
                                   /\ Onward = "gather" => action = "race"
                                   /\ Onward \in {"announce", "deliver"} => runner = "announce"
           /\ runner \in Silent \cup {"deliver", "report", "finish"}
BY Speaking, SMT DEF Sending, Silent, Out, Places

\* What changes with any send.
LEMMA SendShaped ==
    ASSUME StreamInv, Send, service' \in Service, handler' \in {"serving", "returned"},
           cancelled' \in BOOLEAN
    PROVE  Shapes' /\ CallsOK'
<1>1. UNCHANGED <<action, direct, model, results, made, verdict>> /\ runner' \in Places
    BY SentOnward DEF Send
<1>2. building' \subseteq Directions
    BY DEF Send, Begin, StreamInv, Shapes
<1> QED
    BY <1>1, <1>2, Zenon DEF StreamInv, Shapes, CallsOK, model

\* Outside a workspace it is the client that hears it.
LEMMA SendDirect == ASSUME StreamInv, Send, direct PROVE StreamInv'
<1> USE DEF StreamInv
<1>1. Hear(Sent) /\ UNCHANGED service /\ Sending /\ runner' = Onward
      /\ UNCHANGED <<action, direct, made, verdict>>
    BY DEF Send, Take
<1>2. /\ cancelled' \in BOOLEAN /\ (cancelled => cancelled') /\ handler' \in {"serving", "returned"}
      /\ told' = IF Sent = "progress" THEN told ELSE Append(told, Sent)
    BY <1>1, Heeded, Speaking
<1>3. Shapes' /\ CallsOK'
    BY <1>1, <1>2, SendShaped DEF Shapes
<1>4. /\ service'.at = "ended" /\ ~service'.held /\ service'.code = "" /\ verdict' = "running"
    BY <1>1 DEF Protocol, DirectInv
<1>5. CASE runner \in Silent
    <2>1. UNCHANGED told /\ runner \notin Out /\ runner' \notin Out
          /\ (runner' = "gather" => action = "race")
          /\ (runner' \in {"announce", "deliver"} => runner = "announce")
        BY <1>1, <1>2, <1>5, SentOnward
    <2>2. ResultsMade'
        BY <1>1, <2>1, SameResults
    <2>3. Protocol'
        BY <1>1, <1>2, <2>1, <2>2, Working DEF Out
    <2> QED
        BY <1>3, <2>3
<1>6. CASE runner \in {"deliver", "report"}
    <2>1. told = <<>> /\ (action # "race" /\ runner = "deliver" => made[Single] = "sound")
          /\ (runner = "deliver" => Delivered # {})
        BY <1>6 DEF Protocol, DirectInv, ResultsMade, Out
    <2>2. /\ runner' = "finish"
          /\ told' = IF runner = "deliver" THEN <<"result">> ELSE <<"error">>
        BY <1>1, <1>2, <1>6, <2>1, Speaking, First, SMT
    <2>3. told' \in Told /\ (HasResult' => runner = "deliver")
        BY <1>6, <2>2, SMT DEF Told, HasResult
    <2>4. Delivered' = Delivered
        BY <1>1, SameMade
    <2>5. ResultsMade'
        BY <1>1, <1>4, <2>1, <2>2, <2>3, <2>4 DEF Protocol, ResultsMade
    <2>6. DirectInv'
        BY <1>4, <2>2, <2>3, Different DEF DirectInv, Out
    <2> QED
        BY <1>1, <1>3, <2>5, <2>6 DEF Protocol
<1>7. CASE runner = "finish"
    <2>1. told \in Told \/ (told = <<>> /\ cancelled /\ action = "race")
        BY <1>7 DEF Protocol, DirectInv
    <2>2. runner' = "ended" /\ told' = Append(told, "done")
        BY <1>1, <1>2, <1>7, Speaking, SMT
    <2>3. CASE told \in Told
        <3>1. /\ told = <<"result">> => told' = <<"result", "done">>
              /\ told = <<"error">> => told' = <<"error", "done">>
            BY <2>2, Second
        <3>2. told' \in ToldAll /\ (HasResult' => HasResult)
            BY <2>3, <3>1, SMT DEF Told, ToldAll, HasResult
        <3>3. Delivered' = Delivered
            BY <1>1, SameMade
        <3>4. ResultsMade'
            BY <1>1, <2>2, <3>2, <3>3 DEF Protocol, ResultsMade
        <3>5. told' # ToldDone
            BY <3>2, Different
        <3>6. DirectInv'
            BY <1>4, <2>2, <3>2, <3>5 DEF DirectInv, Out
        <3> QED
            BY <1>1, <1>3, <3>4, <3>6 DEF Protocol
    <2>4. CASE told = <<>> /\ cancelled /\ action = "race"
        <3>1. told' = ToldDone
            BY <2>2, <2>4, First DEF ToldDone
        <3>2. ~HasResult'
            BY <3>1, SMT DEF HasResult, ToldDone
        <3>3. ResultsMade'
            BY <1>1, <1>4, <2>2, <2>4, <3>2 DEF ResultsMade
        <3>4. DirectInv'
            BY <1>1, <1>2, <1>4, <2>2, <2>4, <3>1 DEF DirectInv, Out
        <3> QED
            BY <1>1, <1>3, <3>3, <3>4 DEF Protocol
    <2> QED
        BY <2>1, <2>3, <2>4
<1> QED
    BY <1>1, <1>5, <1>6, <1>7, SentOnward

\* What the service takes from the orchestrator changes these fields only.
LEMMA Passed ==
    ASSUME NEW s \in Service, NEW kind \in Kinds
    PROVE  LET t == [s EXCEPT !.at = "forward", !.event = kind]
           IN  /\ t \in Service /\ t.at = "forward" /\ t.event = kind /\ t.sawDone = s.sawDone
               /\ t.invalid = s.invalid /\ t.held = s.held /\ t.status = s.status /\ t.code = s.code
BY Zenon DEF Service

LEMMA Failing ==
    ASSUME NEW s \in Service, NEW kind \in Kinds
    PROVE  LET t == [s EXCEPT !.at = "forward", !.event = kind, !.status = "failed", !.code = "run"]
           IN  /\ t \in Service /\ t.at = "forward" /\ t.event = kind /\ t.sawDone = s.sawDone
               /\ t.invalid = s.invalid /\ t.held = s.held /\ t.status = "failed" /\ t.code = "run"
BY Zenon DEF Service, Verdicts

LEMMA HeldBack ==
    ASSUME NEW s \in Service
    PROVE  LET t == [s EXCEPT !.invalid = @ \/ s.held, !.held = TRUE]
           IN  /\ t \in Service /\ t.at = s.at /\ t.event = s.event /\ t.sawDone = s.sawDone
               /\ (t.invalid <=> s.invalid \/ s.held) /\ t.held /\ t.status = s.status /\ t.code = s.code
BY Zenon DEF Service

LEMMA Swallowed ==
    ASSUME NEW s \in Service
    PROVE  LET t == [s EXCEPT !.invalid = @ \/ s.sawDone, !.sawDone = TRUE]
           IN  /\ t \in Service /\ t.at = s.at /\ t.event = s.event /\ t.sawDone
               /\ (t.invalid <=> s.invalid \/ s.sawDone) /\ t.held = s.held /\ t.status = s.status
               /\ t.code = s.code
BY Zenon DEF Service

\* The fields the service's loop goes by.
ServiceIs(s, at, event, sawDone, held, status, code) ==
    /\ s \in Service /\ s.at = at /\ s.event = event /\ ~s.invalid
    /\ (s.sawDone <=> sawDone) /\ (s.held <=> held) /\ s.status = status /\ s.code = code

\* Each event of the orchestrator as the service takes it.
LEMMA Taking ==
    ASSUME service \in Service, ~service.sawDone, ~service.invalid
    PROVE  LET s == service
           IN  /\ ServiceIs(Received("progress"), "forward", "progress", FALSE, s.held, s.status, s.code)
               /\ ServiceIs(Received("error"), "forward", "error", FALSE, s.held, "failed", "run")
               /\ ~s.held => ServiceIs(Received("result"), s.at, s.event, FALSE, TRUE, s.status, s.code)
               /\ ServiceIs(Received("done"), s.at, s.event, TRUE, s.held, s.status, s.code)
<1>1. /\ Received("progress") = [service EXCEPT !.at = "forward", !.event = "progress"]
      /\ Received("error") = Failed("error")
      /\ Received("result") = [service EXCEPT !.invalid = @ \/ service.held, !.held = TRUE]
      /\ Received("done") = SawDone
    BY Zenon DEF Received
<1>2. "progress" \in Kinds /\ "error" \in Kinds
    BY DEF Kinds
<1>3. ServiceIs(Received("progress"), "forward", "progress", FALSE, service.held, service.status,
                service.code)
    <2> DEFINE t == [service EXCEPT !.at = "forward", !.event = "progress"]
    <2>1. /\ t \in Service /\ t.at = "forward" /\ t.event = "progress" /\ t.sawDone = service.sawDone
          /\ t.invalid = service.invalid /\ t.held = service.held /\ t.status = service.status
          /\ t.code = service.code
        BY <1>2, Passed
    <2> HIDE DEF t
    <2>2. Received("progress") = t
        BY <1>1 DEF t
    <2> QED
        BY <2>1, <2>2, Zenon DEF ServiceIs
<1>4. ServiceIs(Received("error"), "forward", "error", FALSE, service.held, "failed", "run")
    <2> DEFINE t == Failed("error")
    <2>1. /\ t \in Service /\ t.at = "forward" /\ t.event = "error" /\ t.sawDone = service.sawDone
          /\ t.invalid = service.invalid /\ t.held = service.held /\ t.status = "failed"
          /\ t.code = "run"
        BY <1>2, Failing DEF Failed
    <2> HIDE DEF t
    <2>2. Received("error") = t
        BY <1>1 DEF t
    <2> QED
        BY <2>1, <2>2, Zenon DEF ServiceIs
<1>5. ~service.held => ServiceIs(Received("result"), service.at, service.event, FALSE, TRUE,
                                 service.status, service.code)
    BY <1>1, HeldBack, Zenon DEF ServiceIs
<1>6. ServiceIs(Received("done"), service.at, service.event, TRUE, service.held, service.status,
                service.code)
    BY <1>1, Swallowed, Zenon DEF ServiceIs, SawDone
<1> QED
    BY <1>3, <1>4, <1>5, <1>6

\* In a workspace the service takes it for what it is.
LEMMA SendWorkspace == ASSUME StreamInv, Send, ~direct PROVE StreamInv'
<1> USE DEF StreamInv
<1>1. /\ service.at = "receive" /\ service' = Received(Sent) /\ Sending /\ runner' = Onward
      /\ UNCHANGED <<action, direct, cancelled, handler, told, made, verdict>>
    BY DEF Send, Take
<1>2. service \in Service /\ ~service.sawDone /\ ~service.invalid
    BY <1>1, SMT DEF Shapes, Protocol, Followed, Sending
<1>3. /\ service.code # "invalid"
      /\ service.status = "cancelled" \/ service.code \in {"incomplete", "missing"} => cancelled
      /\ service.status \in {"succeeded", "failed"}
      /\ told = IF service.status = "failed" THEN <<"error">> ELSE <<>>
      /\ service.held \/ service.status = "failed" => runner \in Out
      /\ verdict' = "running" /\ ~direct'
    BY <1>1, SMT DEF Protocol, Followed, Accounted
<1>4. ~HasResult /\ ~HasResult' /\ Delivered' = Delivered
    <2>1. told # <<"result">> /\ told # <<"result", "done">>
        BY <1>3, SMT
    <2> QED
        BY <1>1, <2>1, SameMade DEF HasResult
<1>5. told \in {<<>>} \cup Told \cup ToldAll /\ told \notin ToldAll
    BY <1>3, SMT DEF Told, ToldAll
<1>6. CASE runner \in Silent
    <2>1. /\ Sent = "progress" /\ runner \notin Out /\ runner' \notin Out
          /\ (runner' = "gather" => action = "race")
          /\ (runner' \in {"announce", "deliver"} => runner = "announce")
        BY <1>1, <1>6, SentOnward
    <2>2. /\ service' \in Service /\ service'.at = "forward" /\ service'.event = "progress"
          /\ ~service'.invalid /\ ~service'.sawDone /\ ~service'.held
          /\ service'.status = service.status /\ service'.code = service.code
        BY <1>1, <1>2, <1>3, <2>1, Taking, Zenon DEF ServiceIs
    <2>3. Shapes' /\ CallsOK'
        BY <1>1, <2>2, SendShaped DEF Shapes
    <2>4. ResultsMade'
        BY <1>1, <1>3, <1>4, <2>1, <2>2, SMT DEF Protocol, ResultsMade, Silent
    <2>5. Followed'
        BY <1>1, <1>3, <2>1, <2>2, SMT DEF Followed, Out
    <2>6. Accounted'
        BY <1>1, <1>3, <1>4, <1>5, <2>1, <2>2, SMT DEF Accounted
    <2> QED
        BY <1>3, <2>3, <2>4, <2>5, <2>6 DEF Protocol
<1>7. CASE runner = "report"
    <2>1. Sent = "error" /\ runner' = "finish" /\ runner \notin Out
        BY <1>1, <1>7, Speaking DEF Out
    <2>2. /\ service' \in Service /\ service'.at = "forward" /\ service'.event = "error"
          /\ ~service'.invalid /\ ~service'.sawDone /\ ~service'.held
          /\ service'.status = "failed" /\ service'.code = "run"
        BY <1>1, <1>2, <1>3, <2>1, Taking, Zenon DEF ServiceIs
    <2>3. Shapes' /\ CallsOK'
        BY <1>1, <2>2, SendShaped DEF Shapes
    <2>4. ResultsMade'
        BY <1>1, <1>4, <2>1, <2>2 DEF Protocol, ResultsMade
    <2>5. Followed'
        BY <2>1, <2>2, SMT DEF Followed, Out
    <2>6. Accounted'
        BY <1>1, <1>3, <1>4, <1>5, <2>1, <2>2, SMT DEF Accounted
    <2> QED
        BY <1>3, <2>3, <2>4, <2>5, <2>6 DEF Protocol
<1>8. CASE runner = "deliver"
    <2>1. Sent = "result" /\ runner' = "finish" /\ runner \notin Out
        BY <1>1, <1>8, Speaking DEF Out
    <2>2. /\ service' \in Service /\ service'.at = "receive" /\ service'.event = service.event
          /\ ~service'.invalid /\ ~service'.sawDone /\ service'.held
          /\ service'.status = service.status /\ service'.code = service.code
        BY <1>1, <1>2, <1>3, <2>1, Taking, Zenon DEF ServiceIs
    <2>3. Shapes' /\ CallsOK'
        BY <1>1, <2>2, SendShaped DEF Shapes
    <2>4. ResultsMade'
        BY <1>1, <1>4, <1>8, <2>1, <2>2 DEF Protocol, ResultsMade
    <2>5. Followed'
        BY <1>1, <1>3, <2>1, <2>2, SMT DEF Followed, Out
    <2>6. Accounted'
        BY <1>1, <1>3, <1>4, <1>5, <2>1, <2>2, SMT DEF Accounted
    <2> QED
        BY <1>3, <2>3, <2>4, <2>5, <2>6 DEF Protocol
<1>9. CASE runner = "finish"
    <2>1. Sent = "done" /\ runner' = "ended"
        BY <1>1, <1>9, Speaking
    <2>2. /\ service' \in Service /\ service'.at = "receive" /\ service'.event = service.event
          /\ ~service'.invalid /\ service'.sawDone /\ service'.held = service.held
          /\ service'.status = service.status /\ service'.code = service.code
        <3>1. ServiceIs(service', "receive", service.event, TRUE, service.held, service.status,
                        service.code)
            BY <1>1, <1>2, <2>1, Taking, Zenon
        <3> QED
            BY <1>1, <1>2, <2>1, <3>1, Swallowed, Zenon DEF ServiceIs, Received, SawDone
    <2>3. Shapes' /\ CallsOK'
        BY <1>1, <2>2, SendShaped DEF Shapes
    <2>4. ResultsMade'
        BY <1>1, <1>4, <2>1, <2>2 DEF Protocol, ResultsMade
    <2>5. Followed'
        BY <1>1, <1>3, <1>9, <2>1, <2>2, SMT DEF Protocol, Followed, Out
    <2>6. Accounted'
        BY <1>1, <1>3, <1>4, <1>5, <2>1, <2>2, SMT DEF Accounted
    <2> QED
        BY <1>3, <2>3, <2>4, <2>5, <2>6 DEF Protocol
<1> QED
    BY <1>1, <1>6, <1>7, <1>8, <1>9, SentOnward

-----------------------------------------------------------------------------
(* What the service's goroutine decides.                                   *)

Aside == UNCHANGED <<action, direct, model, maker>>

LEMMA ServeShaped ==
    ASSUME StreamInv, Aside, service' \in Service, handler' \in {"serving", "returned"},
           cancelled' \in BOOLEAN, verdict' \in {"running"} \cup Verdicts
    PROVE  Shapes' /\ CallsOK'
BY Zenon DEF StreamInv, Shapes, CallsOK, Aside, model, maker

\* The fields of the service after it moves, and after it decides.
LEMMA Moves ==
    ASSUME StreamInv, NEW at \in At, Move(at)
    PROVE  /\ service' \in Service /\ service'.at = at /\ service'.event = service.event
           /\ service'.sawDone = service.sawDone /\ service'.invalid = service.invalid
           /\ service'.held = service.held /\ service'.status = service.status
           /\ service'.code = service.code
BY Moved DEF StreamInv, Shapes, Move

LEMMA Decides ==
    ASSUME StreamInv, NEW at \in At, NEW status \in Verdicts, NEW code \in Codes,
           service' = [service EXCEPT !.at = at, !.status = status, !.code = code]
    PROVE  /\ service' \in Service /\ service'.at = at /\ service'.event = service.event
           /\ service'.sawDone = service.sawDone /\ service'.invalid = service.invalid
           /\ service'.held = service.held /\ service'.status = status /\ service'.code = code
<1>1. service \in Service
    BY DEF StreamInv, Shapes
<1> DEFINE t == [service EXCEPT !.at = at, !.status = status, !.code = code]
<1>2. /\ t \in Service /\ t.at = at /\ t.event = service.event /\ t.sawDone = service.sawDone
      /\ t.invalid = service.invalid /\ t.held = service.held /\ t.status = status /\ t.code = code
    BY <1>1, Zenon DEF Service, At, Codes
<1>3. service' = t
    OBVIOUS
<1> HIDE DEF t
<1> QED
    BY <1>2, <1>3, Zenon

\* What has no say in what the client was told leaves the results as they are.
LEMMA ResultsKept ==
    ASSUME StreamInv, Aside, service'.held = service.held, HasResult' => HasResult
    PROVE  ResultsMade'
<1>1. Delivered' = Delivered
    BY SameMade DEF Aside, maker
<1> QED
    BY <1>1, SMT DEF StreamInv, Protocol, ResultsMade, Aside, maker

\* A run is cancelled with an event that nobody takes.
Dropped == /\ cancelled
           /\ service' = [service EXCEPT !.at = "complete", !.status = "cancelled", !.code = "client"]
           /\ UNCHANGED <<handler, cancelled, told>>

LEMMA StepDropped ==
    ASSUME StreamInv, ~direct, Aside, UNCHANGED verdict, Dropped,
           service.at \in {"forward", "reject", "offer", "finish"}
    PROVE  StreamInv'
<1> USE DEF StreamInv
<1>1. /\ service' \in Service /\ service'.at = "complete" /\ service'.sawDone = service.sawDone
      /\ service'.invalid = service.invalid /\ service'.held = service.held
      /\ service'.status = "cancelled" /\ service'.code = "client"
    <2>1. "complete" \in At /\ "cancelled" \in Verdicts /\ "client" \in Codes
        BY DEF At, Verdicts, Codes
    <2> QED
        BY <2>1, Decides DEF Dropped
<1>2. Shapes' /\ CallsOK'
    BY <1>1, ServeShaped DEF Shapes, Dropped
<1>3. ResultsMade'
    BY <1>1, ResultsKept DEF Dropped, HasResult
<1>4. Followed'
    BY <1>1, SMT DEF Protocol, Followed, Dropped, Aside, maker
<1>5. (KeepsContract' <=> KeepsContract) /\ (HasResult' <=> HasResult)
    BY SameMade DEF Aside, maker, Dropped, HasResult
<1>6. told \in {<<>>} \cup Told \cup ToldAll /\ told \notin ToldAll
    BY SMT DEF Protocol, Accounted
<1>7. UNCHANGED <<runner, told>> /\ verdict' = "running" /\ (HasResult => runner = "ended" /\ KeepsContract)
    BY SMT DEF Protocol, Accounted, Aside, maker, Dropped
<1>8. Accounted'
    BY <1>1, <1>5, <1>6, <1>7 DEF Accounted
<1> QED
    BY <1>2, <1>3, <1>4, <1>8 DEF Protocol, Aside

\* An event that the client takes, after which the service moves.
LEMMA Emitted ==
    ASSUME StreamInv, ~direct, Aside, UNCHANGED verdict,
           NEW kind \in Kinds, NEW at \in At \ {"ended"}, Hear(kind), Move(at),
           service.at # "ended"
    PROVE  /\ Shapes' /\ CallsOK' /\ Followed'
           /\ told' = IF kind = "progress" THEN told ELSE Append(told, kind)
           /\ service'.at = at /\ service'.status = service.status /\ service'.held = service.held
           /\ (KeepsContract' <=> KeepsContract) /\ UNCHANGED <<direct, runner>>
           /\ verdict' = "running"
<1> USE DEF StreamInv
<1>1. /\ service' \in Service /\ service'.at = at /\ service'.event = service.event
      /\ service'.sawDone = service.sawDone /\ service'.invalid = service.invalid
      /\ service'.held = service.held /\ service'.status = service.status
      /\ service'.code = service.code
    BY Moves
<1>2. /\ cancelled' \in BOOLEAN /\ (cancelled => cancelled') /\ handler' \in {"serving", "returned"}
      /\ told' = IF kind = "progress" THEN told ELSE Append(told, kind)
    BY Heeded
<1>3. Shapes' /\ CallsOK'
    BY <1>1, <1>2, ServeShaped DEF Shapes
<1>4. Followed'
    BY <1>1, <1>2, SMT DEF Protocol, Followed, Aside, maker
<1>5. verdict' = "running" /\ UNCHANGED <<direct, runner>>
    BY SMT DEF Protocol, Accounted, Aside, maker
<1>6. KeepsContract' <=> KeepsContract
    BY SameMade DEF Aside, maker
<1> QED
    BY <1>1, <1>2, <1>3, <1>4, <1>5, <1>6

LEMMA StepForward == ASSUME StreamInv, Forward PROVE StreamInv'
<1> USE DEF StreamInv
<1>1. /\ service.at = "forward" /\ ~direct /\ Aside /\ UNCHANGED verdict /\ service.event \in Kinds
    BY Zenon DEF Forward, Protocol, DirectInv, Aside, Shapes, Service
<1>2. Dropped \/ (Hear(service.event) /\ Move("receive"))
    BY DEF Forward, Emit, Dropped
<1>3. CASE Dropped
    BY <1>1, <1>3, StepDropped
<1>4. CASE Hear(service.event) /\ Move("receive")
    <2>1. "receive" \in At \ {"ended"}
        BY DEF At
    <2>2. /\ Shapes' /\ CallsOK' /\ Followed'
          /\ told' = IF service.event = "progress" THEN told ELSE Append(told, service.event)
          /\ service'.at = "receive" /\ service'.status = service.status /\ service'.held = service.held
          /\ (KeepsContract' <=> KeepsContract) /\ UNCHANGED <<direct, runner>>
          /\ verdict' = "running"
        BY <1>1, <1>4, <2>1, Emitted
    <2>3. /\ told = <<>> /\ service.status \in {"succeeded", "failed"}
          /\ service.event = IF service.status = "failed" THEN "error" ELSE "progress"
        BY <1>1, SMT DEF Protocol, Accounted
    <2>4. told' = IF service.status = "failed" THEN <<"error">> ELSE <<>>
        BY <2>2, <2>3, First, SMT
    <2>5. told' \in {<<>>} \cup Told \cup ToldAll /\ told' \notin ToldAll /\ ~HasResult'
        BY <2>4, SMT DEF Told, ToldAll, HasResult
    <2>6. ResultsMade'
        BY <1>1, <2>2, <2>5, ResultsKept
    <2>7. Accounted'
        BY <2>2, <2>3, <2>4, <2>5, SMT DEF Accounted
    <2> QED
        BY <1>1, <2>2, <2>6, <2>7 DEF Protocol
<1> QED
    BY <1>2, <1>3, <1>4

LEMMA StepEmitReject == ASSUME StreamInv, EmitReject PROVE StreamInv'
<1> USE DEF StreamInv
<1>1. /\ service.at = "reject" /\ ~direct /\ Aside /\ UNCHANGED verdict
    BY Zenon DEF EmitReject, Protocol, DirectInv, Aside
<1>2. Dropped \/ (Hear("error") /\ Move("finish"))
    BY DEF EmitReject, Emit, Dropped
<1>3. CASE Dropped
    BY <1>1, <1>3, StepDropped
<1>4. CASE Hear("error") /\ Move("finish")
    <2>1. "finish" \in At \ {"ended"} /\ "error" \in Kinds
        BY DEF At, Kinds
    <2>2. /\ Shapes' /\ CallsOK' /\ Followed'
          /\ told' = Append(told, "error")
          /\ service'.at = "finish" /\ service'.status = service.status /\ service'.held = service.held
          /\ (KeepsContract' <=> KeepsContract) /\ UNCHANGED <<direct, runner>>
          /\ verdict' = "running"
        BY <1>1, <1>4, <2>1, Emitted, SMT
    <2>3. told = <<>> /\ service.status = "failed" /\ runner = "ended"
        BY <1>1, SMT DEF Protocol, Accounted
    <2>4. told' = <<"error">>
        BY <2>2, <2>3, First, SMT
    <2>5. told' \in {<<>>} \cup Told \cup ToldAll /\ told' \notin ToldAll /\ ~HasResult'
        BY <2>4, SMT DEF Told, ToldAll, HasResult
    <2>6. ResultsMade'
        BY <1>1, <2>2, <2>5, ResultsKept
    <2>7. Accounted'
        BY <2>2, <2>3, <2>4, <2>5, SMT DEF Accounted, Closing
    <2> QED
        BY <1>1, <2>2, <2>6, <2>7 DEF Protocol
<1> QED
    BY <1>2, <1>3, <1>4

LEMMA StepOffer == ASSUME StreamInv, Offer PROVE StreamInv'
<1> USE DEF StreamInv
<1>1. /\ service.at = "offer" /\ ~direct /\ Aside /\ UNCHANGED verdict
    BY Zenon DEF Offer, Protocol, DirectInv, Aside
<1>2. Dropped \/ (Hear(Closing) /\ Move("finish"))
    BY DEF Offer, Emit, Dropped
<1>3. CASE Dropped
    BY <1>1, <1>3, StepDropped
<1>4. CASE Hear(Closing) /\ Move("finish")
    <2>1. "finish" \in At \ {"ended"} /\ Closing \in Kinds /\ Closing # "progress"
        BY SMT DEF At, Kinds, Closing
    <2>2. /\ Shapes' /\ CallsOK' /\ Followed'
          /\ told' = Append(told, Closing)
          /\ service'.at = "finish" /\ service'.status = service.status /\ service'.held = service.held
          /\ (KeepsContract' <=> KeepsContract) /\ UNCHANGED <<direct, runner>>
          /\ verdict' = "running"
        BY <1>1, <1>4, <2>1, Emitted, SMT
    <2>3. /\ told = <<>> /\ service.status \in {"succeeded", "failed"} /\ runner = "ended"
          /\ service.status = "succeeded" => service.held /\ KeepsContract
        BY <1>1, SMT DEF Protocol, Accounted
    <2>4. told' = <<Closing>> /\ Closing' = Closing
        BY <2>2, <2>3, First, SMT DEF Closing
    <2>5. /\ told' \in Told /\ told' \notin ToldAll
          /\ HasResult' => service.status = "succeeded"
        BY <2>3, <2>4, SMT DEF Told, ToldAll, HasResult, Closing
    <2>6. ResultsMade'
        <3>1. Delivered' = Delivered /\ UNCHANGED <<action, made>>
            BY <1>1, SameMade DEF Aside, maker
        <3>2. service.held => Delivered # {}
            BY DEF Protocol, ResultsMade
        <3>3. service.status = "succeeded" /\ action # "race" => made[Single] = "sound"
            <4> SUFFICES ASSUME service.status = "succeeded", action # "race"
                         PROVE  made[Single] = "sound"
                OBVIOUS
            <4>1. PICK d \in Delivered : TRUE
                BY <2>3, <3>2
            <4>2. made[d] = "sound" /\ d \in Directions
                BY <2>3, <4>1 DEF KeepsContract, Delivered
            <4>3. d = Single
                BY <4>2, Zenon DEF Protocol, ResultsMade
            <4> QED
                BY <4>2, <4>3
        <3> QED
            BY <2>2, <2>3, <2>5, <3>1, <3>2, <3>3 DEF Protocol, ResultsMade
    <2>7. Accounted'
        BY <2>2, <2>3, <2>4, <2>5, SMT DEF Accounted
    <2> QED
        BY <1>1, <2>2, <2>6, <2>7 DEF Protocol
<1> QED
    BY <1>2, <1>3, <1>4

LEMMA StepFinish == ASSUME StreamInv, Finish PROVE StreamInv'
<1> USE DEF StreamInv
<1>1. /\ service.at = "finish" /\ ~direct /\ Aside /\ UNCHANGED verdict
    BY Zenon DEF Finish, Protocol, DirectInv, Aside
<1>2. Dropped \/ (Hear("done") /\ Move("complete"))
    BY DEF Finish, Emit, Dropped
<1>3. CASE Dropped
    BY <1>1, <1>3, StepDropped
<1>4. CASE Hear("done") /\ Move("complete")
    <2>1. "complete" \in At \ {"ended"} /\ "done" \in Kinds
        BY DEF At, Kinds
    <2>2. /\ Shapes' /\ CallsOK' /\ Followed'
          /\ told' = Append(told, "done")
          /\ service'.at = "complete" /\ service'.status = service.status /\ service'.held = service.held
          /\ (KeepsContract' <=> KeepsContract) /\ UNCHANGED <<direct, runner>>
          /\ verdict' = "running"
        BY <1>1, <1>4, <2>1, Emitted, SMT
    <2>3. /\ told = <<Closing>> /\ service.status \in {"succeeded", "failed"} /\ runner = "ended"
          /\ HasResult => KeepsContract
        BY <1>1, SMT DEF Protocol, Accounted
    <2>4. told' = <<Closing, "done">> /\ Closing' = Closing
        BY <2>2, <2>3, Second DEF Closing
    <2>5. told' \in ToldAll /\ (HasResult' => HasResult)
        BY <2>3, <2>4, SMT DEF ToldAll, HasResult, Closing
    <2>6. ResultsMade'
        BY <1>1, <2>2, <2>5, ResultsKept
    <2>7. Accounted'
        <3>1. told' = <<Closing', "done">>
            BY <2>4
        <3>2. /\ told' \in {<<>>} \cup Told \cup ToldAll
              /\ HasResult' => runner' = "ended" /\ KeepsContract'
              /\ service'.status # "cancelled"
            BY <2>2, <2>3, <2>5, SMT
        <3> QED
            BY <2>2, <3>1, <3>2 DEF Accounted
    <2> QED
        BY <1>1, <2>2, <2>6, <2>7 DEF Protocol
<1> QED
    BY <1>2, <1>3, <1>4

\* A decision of the service that the client is not told yet.
Silently == Aside /\ UNCHANGED <<cancelled, handler, told, verdict>>

LEMMA Settled ==
    ASSUME StreamInv, ~direct, Silently, service.at \in {"receive", "check", "store"},
           service' \in Service, service'.at \in {"reject", "check", "store", "offer", "finish"},
           service'.sawDone = service.sawDone, service'.invalid = service.invalid,
           service'.held = service.held, service'.code # "invalid", runner = "ended",
           service'.code \in {"incomplete", "missing"} => cancelled,
           service'.status \in {"succeeded", "failed"},
           service.status = "failed" => service'.status = "failed",
           service'.at = "reject" => service'.status = "failed",
           service'.at \in {"check", "store"} => service'.status = "succeeded",
           service'.at \in {"check", "store", "offer"} /\ service'.status = "succeeded" => service.held,
           service'.at \in {"store", "offer"} /\ service'.status = "succeeded" => KeepsContract,
           told = IF service'.at = "finish" THEN <<"error">> ELSE <<>>,
           service'.at = "finish" => service'.status = "failed"
    PROVE  StreamInv'
<1> USE DEF StreamInv
<1>1. Shapes' /\ CallsOK'
    BY ServeShaped DEF Shapes, Silently
<1>2. /\ UNCHANGED <<direct, runner, told, cancelled>> /\ verdict' = "running"
      /\ (KeepsContract' <=> KeepsContract)
    BY SameMade, SMT DEF Silently, Aside, maker, Protocol, Accounted
<1>3. told' \in {<<>>} \cup Told \cup ToldAll /\ told' \notin ToldAll /\ ~HasResult'
    BY <1>2, SMT DEF Told, ToldAll, HasResult
<1>4. ResultsMade'
    BY <1>3, ResultsKept DEF Silently
<1>5. Followed'
    BY <1>2, SMT DEF Protocol, Followed, Out
<1>6. Accounted'
    BY <1>2, <1>3, SMT DEF Accounted, Closing
<1> QED
    BY <1>1, <1>2, <1>4, <1>5, <1>6 DEF Protocol

LEMMA Rejected ==
    ASSUME StreamInv, NEW code \in Codes, Reject(code)
    PROVE  /\ service' \in Service /\ service'.at = "reject"
           /\ service'.sawDone = service.sawDone /\ service'.invalid = service.invalid
           /\ service'.held = service.held /\ service'.status = "failed" /\ service'.code = code
<1>1. "reject" \in At /\ "failed" \in Verdicts
    BY DEF At, Verdicts
<1> QED
    BY <1>1, Decides DEF Reject

LEMMA StepSettle == ASSUME StreamInv, Settle PROVE StreamInv'
<1> USE DEF StreamInv
<1>1. /\ service.at = "receive" /\ runner = "ended" /\ ~direct /\ Silently
    BY Zenon DEF Settle, Protocol, DirectInv, Silently, Aside, given
<1>2. /\ ~service.invalid /\ service.code # "invalid"
      /\ service.status \in {"succeeded", "failed"}
      /\ service.code \in {"incomplete", "missing"} => cancelled
      /\ service.sawDone \/ cancelled
      /\ service.held \/ service.status = "failed" \/ cancelled
      /\ told = IF service.status = "failed" THEN <<"error">> ELSE <<>>
    BY <1>1, SMT DEF Protocol, Followed, Accounted, Out
<1>3. "incomplete" \in Codes /\ "missing" \in Codes /\ "check" \in At /\ "finish" \in At
    BY DEF Codes, At
<1>4. CASE ~service.sawDone /\ service.status # "failed"
    <2>1. Reject("incomplete") /\ cancelled
        BY <1>2, <1>4, Zenon DEF Settle
    <2>2. /\ service' \in Service /\ service'.at = "reject"
          /\ service'.sawDone = service.sawDone /\ service'.invalid = service.invalid
          /\ service'.held = service.held /\ service'.status = "failed" /\ service'.code = "incomplete"
        BY <1>3, <2>1, Rejected
    <2> QED
        BY <1>1, <1>2, <1>4, <2>1, <2>2, Settled
<1>5. CASE service.sawDone /\ service.status # "failed" /\ ~service.held
    <2>1. Reject("missing") /\ cancelled
        BY <1>2, <1>5, Zenon DEF Settle
    <2>2. /\ service' \in Service /\ service'.at = "reject"
          /\ service'.sawDone = service.sawDone /\ service'.invalid = service.invalid
          /\ service'.held = service.held /\ service'.status = "failed" /\ service'.code = "missing"
        BY <1>3, <2>1, Rejected
    <2> QED
        BY <1>1, <1>2, <1>5, <2>1, <2>2, Settled
<1>6. CASE service.sawDone /\ service.status # "failed" /\ service.held
    <2>1. Move("check") /\ service.status = "succeeded"
        BY <1>2, <1>6, SMT DEF Settle
    <2>2. /\ service' \in Service /\ service'.at = "check"
          /\ service'.sawDone = service.sawDone /\ service'.invalid = service.invalid
          /\ service'.held = service.held /\ service'.status = service.status
          /\ service'.code = service.code
        BY <1>3, <2>1, Moves
    <2> QED
        BY <1>1, <1>2, <1>6, <2>1, <2>2, Settled
<1>7. CASE service.status = "failed"
    <2>1. Move("finish")
        BY <1>2, <1>7, SMT DEF Settle
    <2>2. /\ service' \in Service /\ service'.at = "finish"
          /\ service'.sawDone = service.sawDone /\ service'.invalid = service.invalid
          /\ service'.held = service.held /\ service'.status = service.status
          /\ service'.code = service.code
        BY <1>3, <2>1, Moves
    <2> QED
        BY <1>1, <1>2, <1>7, <2>2, Settled
<1> QED
    BY <1>4, <1>5, <1>6, <1>7

LEMMA StepContract == ASSUME StreamInv, CheckContract \/ Store PROVE StreamInv'
<1> USE DEF StreamInv
<1>1. /\ service.at \in {"check", "store"} /\ ~direct /\ Silently
    BY Zenon DEF CheckContract, Store, Protocol, DirectInv, Silently, Aside, given
<1>2. /\ ~service.invalid /\ service.code # "invalid" /\ runner = "ended" /\ told = <<>>
      /\ service.status = "succeeded" /\ service.held
      /\ service.code \in {"incomplete", "missing"} => cancelled
      /\ service.at = "store" => KeepsContract
    BY <1>1, SMT DEF Protocol, Followed, Accounted
<1>3. /\ "contract" \in Codes /\ "store" \in Codes /\ "store" \in At /\ "offer" \in At
      /\ "failed" \in Verdicts
    BY DEF Codes, At, Verdicts
<1>4. \/ Move("store") /\ KeepsContract
      \/ Move("offer") /\ KeepsContract
      \/ \E code \in {"contract", "store"} :
             service' = [service EXCEPT !.at = "offer", !.status = "failed", !.code = code]
    BY <1>1, <1>2, Zenon DEF CheckContract, Store
<1>5. CASE \E at \in {"store", "offer"} : Move(at) /\ KeepsContract
    <2>1. PICK at \in {"store", "offer"} : Move(at) /\ KeepsContract
        BY <1>5
    <2>2. /\ service' \in Service /\ service'.at = at
          /\ service'.sawDone = service.sawDone /\ service'.invalid = service.invalid
          /\ service'.held = service.held /\ service'.status = service.status
          /\ service'.code = service.code
        BY <1>3, <2>1, Moves
    <2> QED
        BY <1>1, <1>2, <2>1, <2>2, Settled
<1>6. CASE \E code \in {"contract", "store"} :
               service' = [service EXCEPT !.at = "offer", !.status = "failed", !.code = code]
    <2>1. PICK code \in {"contract", "store"} :
              service' = [service EXCEPT !.at = "offer", !.status = "failed", !.code = code]
        BY <1>6
    <2>2. /\ service' \in Service /\ service'.at = "offer"
          /\ service'.sawDone = service.sawDone /\ service'.invalid = service.invalid
          /\ service'.held = service.held /\ service'.status = "failed" /\ service'.code = code
        BY <1>3, <2>1, Decides
    <2> QED
        BY <1>1, <1>2, <2>2, Settled
<1> QED
    BY <1>4, <1>5, <1>6

LEMMA StepComplete == ASSUME StreamInv, Complete PROVE StreamInv'
<1> USE DEF StreamInv
<1>1. /\ service.at = "complete" /\ ~direct /\ Aside /\ UNCHANGED <<cancelled, handler, told>>
      /\ verdict' = service.status /\ Move("ended")
    BY Zenon DEF Complete, Protocol, DirectInv, Aside, given
<1>2. /\ service' \in Service /\ service'.at = "ended"
      /\ service'.sawDone = service.sawDone /\ service'.invalid = service.invalid
      /\ service'.held = service.held /\ service'.status = service.status
      /\ service'.code = service.code
    <2>1. "ended" \in At
        BY DEF At
    <2> QED
        BY <1>1, <2>1, Moves
<1>3. service.status \in Verdicts
    BY Zenon DEF Shapes, Service
<1>4. Shapes' /\ CallsOK'
    BY <1>1, <1>2, <1>3, ServeShaped DEF Shapes
<1>5. ResultsMade'
    BY <1>1, <1>2, ResultsKept DEF HasResult
<1>6. Followed'
    BY <1>1, <1>2, SMT DEF Protocol, Followed, Aside, maker
<1>7. /\ (KeepsContract' <=> KeepsContract) /\ (HasResult' <=> HasResult)
      /\ UNCHANGED <<direct, runner, told>> /\ Closing' = Closing
    BY <1>1, <1>2, SameMade DEF Aside, maker, HasResult, Closing
<1>8. Accounted'
    BY <1>1, <1>2, <1>7, SMT DEF Protocol, Accounted
<1> QED
    BY <1>1, <1>4, <1>5, <1>6, <1>7, <1>8 DEF Protocol

-----------------------------------------------------------------------------
(* The invariant.                                                          *)

LEMMA StreamStarts == Init => StreamInv
<1> SUFFICES ASSUME Init PROVE StreamInv
    OBVIOUS
<1>1. /\ service \in Service /\ service.at = (IF direct THEN "ended" ELSE "receive")
      /\ ~service.sawDone /\ ~service.invalid /\ ~service.held
      /\ service.status = "succeeded" /\ service.code = ""
    <2> DEFINE at == IF direct THEN "ended" ELSE "receive"
    <2>1. service = [at |-> at, event |-> "done", sawDone |-> FALSE, invalid |-> FALSE, held |-> FALSE,
                     status |-> "succeeded", code |-> ""]
        BY DEF Init
    <2>2. at \in At /\ "done" \in Kinds /\ "succeeded" \in Verdicts
        BY DEF At, Kinds, Verdicts
    <2> HIDE DEF at
    <2>3. /\ service \in Service /\ service.at = at /\ ~service.sawDone /\ ~service.invalid
          /\ ~service.held /\ service.status = "succeeded" /\ service.code = ""
        BY <2>1, <2>2, Zenon DEF Service, At
    <2> QED
        BY <2>3 DEF at
<1>2. Shapes
    <2>1. open \in 0..WriteTimeout
        <3>1. open = WriteTimeout
            BY Zenon DEF Init
        <3> QED
            BY <3>1, TimeAssumption, SMT
    <2>2. results \in Seq(Result) /\ building \subseteq Directions
        <3>1. results = <<>> /\ building = {}
            BY Zenon DEF Init
        <3> QED
            BY <3>1, SMT
    <2>3. made \in [Directions -> {"none"} \cup Quality]
        BY Zenon DEF Init
    <2> QED
        BY <1>1, <2>1, <2>2, <2>3, Zenon DEF Init, Shapes, Places, Result
<1>3. CallsOK
    <2>1. Model!NoCall \in Model!Call /\ Model!NoCall.at # "pause"
        BY TimeAssumption, SMT DEF Model!Call, Model!NoCall
    <2>2. call \in [Directions -> Model!Call] /\ \A d \in Directions : call[d] = Model!NoCall
        BY <2>1, Zenon DEF Init, Model!CallInit
    <2> QED
        BY <2>1, <2>2 DEF CallsOK
<1>4. told = <<>> /\ ~HasResult
    <2>1. told = <<>>
        BY Zenon DEF Init
    <2> QED
        BY <2>1, SMT DEF HasResult
<1>5. ResultsMade
    <2>1. \A d \in Directions : made[d] = "none"
        BY Zenon DEF Init
    <2> QED
        BY <1>1, <1>4, <2>1 DEF Init, ResultsMade
<1>6. direct => DirectInv
    BY <1>1, <1>4, Different DEF Init, DirectInv, Out
<1>7. ~direct => Followed /\ Accounted
    BY <1>1, <1>4, Different DEF Init, Followed, Accounted, Out
<1> QED
    BY <1>2, <1>3, <1>5, <1>6, <1>7 DEF StreamInv, Protocol

LEMMA StreamGoesOn == ASSUME StreamInv, [Next]_vars PROVE StreamInv'
<1>1. CASE Runner
    BY <1>1, SendDirect, SendWorkspace, StepRefused, StepCallModel, StepUse, StepCheck, StepGather,
       StepGathered DEF Runner
<1>2. CASE Serve
    BY <1>2, StepForward, StepSettle, StepEmitReject, StepContract, StepOffer, StepFinish,
       StepComplete DEF Serve
<1>3. CASE Handler
    BY <1>3, StepLeaves, StepClosed DEF Handler
<1>4. CASE ClientLeaves \/ Tick
    BY <1>4, StepLeaves, StepTick
<1>5. CASE \E d \in Directions : Builder(d) \/ ModelReplies(d) \/ ModelSilent(d)
    BY <1>5, StepBuilder, StepModel
<1>6. CASE UNCHANGED vars
    <2>1. UNCHANGED <<given, maker, rest>> /\ UNCHANGED model
        BY <1>6 DEF vars
    <2>2. CallsOK'
        BY <2>1 DEF StreamInv, CallsOK, model
    <2>3. building' \subseteq Directions /\ results' \in Seq(Result)
        BY <2>1 DEF StreamInv, Shapes, Result, maker
    <2> QED
        BY <2>1, <2>2, <2>3, Beside DEF maker, model
<1> QED
    BY <1>1, <1>2, <1>3, <1>4, <1>5, <1>6 DEF Next

LEMMA StreamHolds == Spec => []StreamInv
BY StreamStarts, StreamGoesOn, PTL DEF Spec

-----------------------------------------------------------------------------
(* What it gives.                                                          *)

\* Every goroutine, channel and call keeps its shape (TypeOK).
THEOREM StreamTypeCorrect == Spec => []TypeOK
BY StreamHolds, TypeFollows, PTL

\* The service never takes the orchestrator's stream for a broken one: what may be missing
\* from it is missing because its run was cancelled (ProtocolKept).
THEOREM StreamKeepsProtocol == Spec => []ProtocolKept
<1>1. StreamInv => ProtocolKept
    <2> SUFFICES ASSUME StreamInv PROVE ProtocolKept
        OBVIOUS
    <2>1. CASE direct
        BY <2>1 DEF StreamInv, Protocol, DirectInv, ProtocolKept, ToldDone
    <2>2. CASE ~direct
        <3>1. told # <<"done">>
            BY <2>2, Different DEF StreamInv, Protocol, Accounted, ToldDone
        <3> QED
            BY <2>2, <3>1 DEF StreamInv, Protocol, Followed, ProtocolKept
    <2> QED
        BY <2>1, <2>2
<1> QED
    BY <1>1, StreamHolds, PTL

\* A result that a client is handed has something in it, and in a workspace all of it
\* keeps its contract (SoundResults).
THEOREM ResultsStaySound == Spec => []SoundResults
<1>1. StreamInv => SoundResults
    <2> SUFFICES ASSUME StreamInv PROVE SoundResults
        OBVIOUS
    <2> SUFFICES ASSUME HasResult
                 PROVE  /\ Delivered # {}
                        /\ (action = "race" /\ direct) \/ KeepsContract
        <3>1. told \in {<<>>, ToldDone} \cup Told \cup ToldAll
            BY DEF StreamInv, Protocol, DirectInv, Accounted
        <3>2. (\E i \in 1..Len(told) : told[i] = "result") <=> HasResult
            BY <3>1, SoundStream
        <3> QED
            BY <3>2 DEF SoundResults, KeepsContract
    <2>1. Delivered # {}
        BY DEF StreamInv, Protocol, ResultsMade
    <2>2. CASE ~direct
        BY <2>1, <2>2 DEF StreamInv, Protocol, Accounted
    <2>3. CASE direct /\ action # "race"
        <3>1. made[Single] = "sound" /\ \A d \in Directions \ {Single} : made[d] = "none"
            BY <2>3 DEF StreamInv, Protocol, ResultsMade
        <3> QED
            BY <2>1, <3>1 DEF KeepsContract, Delivered
    <2> QED
        BY <2>1, <2>2, <2>3
<1> QED
    BY <1>1, StreamHolds, PTL

-----------------------------------------------------------------------------
(* The promise.                                                            *)

\* What a step says to the client, and what it writes on record.
LEMMA Saying ==
    ASSUME StreamInv, [Next]_vars
    PROVE  \/ UNCHANGED <<told, verdict>>
           \/ verdict = "running" /\ UNCHANGED verdict /\ \E kind \in Kinds : told' = Append(told, kind)
           \/ /\ verdict = "running" /\ verdict' = service.status /\ UNCHANGED told
              /\ ~direct /\ service.at = "complete"
<1> USE DEF StreamInv
<1>1. ASSUME UNCHANGED verdict, verdict = "running", NEW kind \in Kinds, Hear(kind)
      PROVE  \/ UNCHANGED <<told, verdict>>
             \/ verdict = "running" /\ UNCHANGED verdict /\ \E k \in Kinds : told' = Append(told, k)
    BY <1>1, Heeded
<1>2. CASE Send
    <2>1. Sent \in Kinds /\ UNCHANGED verdict
        BY <1>2, Speaking DEF Send
    <2>2. UNCHANGED told \/ (Hear(Sent) /\ verdict = "running")
        BY <1>2 DEF Send, Take, Protocol, DirectInv
    <2> QED
        BY <1>1, <2>1, <2>2
<1>3. CASE Forward \/ EmitReject \/ Offer \/ Finish
    <2>1. service.event \in Kinds /\ Closing \in Kinds /\ "error" \in Kinds /\ "done" \in Kinds
        BY Zenon DEF Shapes, Service, Closing, Kinds
    <2>2. service.at \in {"forward", "reject", "offer", "finish"} /\ UNCHANGED verdict
        BY <1>3 DEF Forward, EmitReject, Offer, Finish
    <2>3. verdict = "running"
        BY <2>2 DEF Protocol, DirectInv, Accounted
    <2>4. UNCHANGED told \/ \E kind \in Kinds : Hear(kind)
        BY <1>3, <2>1, Zenon DEF Forward, EmitReject, Offer, Finish, Emit
    <2> QED
        BY <1>1, <2>2, <2>3, <2>4
<1>4. CASE Complete
    BY <1>4, SMT DEF Complete, Protocol, DirectInv, Accounted
<1>5. CASE Settle \/ CheckContract \/ Store
    BY <1>5 DEF Settle, CheckContract, Store
<1>6. CASE HandlerClosed
    BY <1>6, NotInterrupted DEF HandlerClosed
<1>7. CASE HandlerCancelled \/ ClientLeaves \/ Tick
    BY <1>7 DEF HandlerCancelled, ClientLeaves, Tick, rest
<1>8. CASE \E d \in Directions : Builder(d) \/ ModelReplies(d) \/ ModelSilent(d)
    BY <1>8 DEF Builder, BuildCalls, Build, ModelReplies, ModelSilent, rest
<1>9. CASE Refused \/ CallModel \/ Use \/ Elaborate \/ Fallback \/ Check \/ Fail \/ Gather \/ Gathered
    <2>1. UNCHANGED rest
        BY <1>9, Zenon DEF Refused, CallModel, Use, Elaborate, Fallback, Check, Fail, Gather, Gathered
    <2> QED
        BY <2>1 DEF rest
<1>10. CASE UNCHANGED vars
    BY <1>10 DEF vars, rest
<1> QED
    BY <1>2, <1>3, <1>4, <1>5, <1>6, <1>7, <1>8, <1>9, <1>10 DEF Next, Runner, Serve, Handler

\* What more can be said after each stream.
LEMMA Extending ==
    ASSUME told \in {<<>>, ToldDone} \cup Told \cup ToldAll, NEW kind, told' = Append(told, kind),
           told' \in {<<>>, ToldDone} \cup Told \cup ToldAll
    PROVE  \/ told = <<>> /\ told' = ToldDone
           \/ told = <<>> /\ told' = <<kind>> /\ kind \in {"result", "error"}
           \/ told \in Told /\ kind = "done" /\ told' = Append(told, "done") /\ told' \in ToldAll
<1>1. CASE told = <<>>
    <2>1. told' = <<kind>>
        BY <1>1, First
    <2> QED
        BY <1>1, <2>1, SMT DEF ToldDone, Told, ToldAll
<1>2. CASE told \in Told
    <2>1. \E a \in {"result", "error"} : told' = <<a, kind>>
        BY <1>2, Second, Zenon DEF Told
    <2>2. told' \in ToldAll /\ kind = "done"
        BY <2>1, SMT DEF ToldDone, Told, ToldAll
    <2> QED
        BY <1>2, <2>2
<1>3. CASE told = ToldDone
    <2>1. told' = <<"done", kind>>
        BY <1>3, Second DEF ToldDone
    <2> QED
        BY <2>1, SMT DEF ToldDone, Told, ToldAll
<1>4. CASE told \in ToldAll
    <2> DEFINE S == {"result", "error", "done", kind}
    <2>1. told \in Seq(S) /\ Len(told) = 2
        BY <1>4, SMT DEF ToldAll
    <2> HIDE DEF S
    <2>2. kind \in S
        BY DEF S
    <2>3. Len(told') = 3
        <3>1. Len(Append(told, kind)) = Len(told) + 1
            BY <2>1, <2>2, AppendProperties, Zenon
        <3> QED
            BY <2>1, <3>1
    <2>4. Len(told') <= 2
        BY SMT DEF ToldDone, Told, ToldAll
    <2> QED
        BY <2>3, <2>4, SMT
<1> QED
    BY <1>1, <1>2, <1>3, <1>4

LEMMA Promised ==
    ASSUME StreamInv, StreamInv', [Next]_vars
    PROVE  [Promise!PromiseNext]_Promise!promiseVars
<1>1. /\ told \in {<<>>, ToldDone} \cup Told \cup ToldAll
      /\ told' \in {<<>>, ToldDone'} \cup Told' \cup ToldAll'
      /\ ToldDone' = ToldDone /\ Told' = Told /\ ToldAll' = ToldAll
    BY DEF StreamInv, Protocol, DirectInv, Accounted, ToldDone, Told, ToldAll
<1>2. Told \cap {ToldDone} = {} /\ ToldAll \cap {ToldDone} = {} /\ <<>> # ToldDone
    BY Different
<1>3. CASE UNCHANGED <<told, verdict>>
    BY <1>3 DEF Heard, Promise!promiseVars
<1>4. ASSUME verdict = "running", UNCHANGED verdict, NEW kind \in Kinds, told' = Append(told, kind)
      PROVE  [Promise!PromiseNext]_Promise!promiseVars
    <2>1. CASE told = <<>> /\ told' = ToldDone
        BY <1>2, <1>4, <2>1 DEF Heard, ToldDone, Promise!promiseVars
    <2>2. CASE told = <<>> /\ told' = <<kind>> /\ kind \in {"result", "error"}
        <3>1. told' \in Told
            BY <2>2, Zenon DEF Told
        <3>2. Heard = <<>> /\ Heard' = <<kind>>
            BY <1>2, <2>2, <3>1, Zenon DEF Heard, ToldDone
        <3>3. Promise!Outcome(kind)
            BY <1>4, <2>2, <3>2 DEF Promise!Outcome
        <3> QED
            BY <2>2, <3>3 DEF Promise!PromiseNext
    <2>3. CASE told \in Told /\ told' = Append(told, "done") /\ told' \in ToldAll
        <3>1. Heard = told /\ Heard' = told'
            BY <1>2, <2>3, Zenon DEF Heard, ToldDone
        <3>2. Promise!End
            BY <1>4, <2>3, <3>1, Zenon DEF Promise!End, Told
        <3> QED
            BY <3>2 DEF Promise!PromiseNext
    <2> QED
        BY <1>1, <1>4, <2>1, <2>2, <2>3, Extending
<1>5. CASE /\ verdict = "running" /\ verdict' = service.status /\ UNCHANGED told
           /\ ~direct /\ service.at = "complete"
    <2>1. service.status = "cancelled" \/ told = <<Closing, "done">>
        BY <1>5 DEF StreamInv, Protocol, Accounted
    <2>2. Heard' = Heard
        BY <1>5 DEF Heard
    <2>3. service.status \in {Promise!Seen, "cancelled"}
        <3> SUFFICES ASSUME service.status # "cancelled" PROVE service.status = Promise!Seen
            OBVIOUS
        <3>1. service.status \in {"succeeded", "failed"}
            BY Zenon DEF StreamInv, Shapes, Service, Verdicts
        <3>2. /\ service.status = "succeeded" => told = <<"result", "done">>
              /\ service.status = "failed" => told = <<"error", "done">>
            BY <2>1, <3>1, Zenon DEF Closing
        <3>3. Heard = told
            BY <1>2, <3>1, <3>2, Zenon DEF Heard, ToldDone, ToldAll
        <3> QED
            BY <3>1, <3>2, <3>3, SMT DEF Promise!Seen
    <2>4. Promise!Conclude
        BY <1>5, <2>2, <2>3, Zenon DEF Promise!Conclude
    <2> QED
        BY <2>4 DEF Promise!PromiseNext
<1> QED
    BY <1>3, <1>4, <1>5, Saying

\* Whatever gives way to the cancelled context, and whatever fails, the stream is one of
\* StreamPromise: one outcome, then its end, and on record what the client saw (KeepsPromise).
THEOREM StreamIsPromised == Spec => KeepsPromise
<1>1. Init => Promise!PromiseInit
    <2> SUFFICES ASSUME Init PROVE Promise!PromiseInit
        OBVIOUS
    <2>1. told = <<>> /\ verdict = "running"
        BY Zenon DEF Init
    <2> QED
        BY <2>1, Zenon DEF Promise!PromiseInit, Heard
<1> QED
    BY <1>1, StreamHolds, Promised, PTL DEF Spec, KeepsPromise, Promise!PromiseSpec


-----------------------------------------------------------------------------
(* Who waits for whom.                                                     *)

Reported(d) == \E i \in 1..Len(results) : results[i].direction = d

\* A handler that returned ended the context, a service that is through has heard the
\* orchestrator out, and a race still builds what is missing.
Underway ==
    /\ handler = "returned" => cancelled
    /\ ~direct /\ service.at \in {"complete", "ended"} => runner = "ended" \/ cancelled
    /\ runner = "gather" =>
           \A d \in Directions : made[d] # "none" \/ d \in building \/ Reported(d)

LEMMA UnderwayStays ==
    ASSUME Underway, UNCHANGED <<direct, made, building, results>>, cancelled => cancelled',
           handler' = "returned" => handler = "returned" \/ cancelled',
           runner' = "gather" => runner = "gather", runner = "ended" => runner' = "ended",
           ~direct /\ service'.at \in {"complete", "ended"} =>
               service.at \in {"complete", "ended"} \/ runner' = "ended" \/ cancelled'
    PROVE  Underway'
BY DEF Underway, Reported

LEMMA UnderwaySent == ASSUME StreamInv, Underway, Send PROVE Underway'
<1> USE DEF StreamInv
<1>1. /\ Sending /\ runner' = Onward /\ UNCHANGED <<action, direct, results, made>> /\ Begin
      /\ Sent \in Kinds
    BY Speaking DEF Send
<1>2. /\ cancelled => cancelled'
      /\ handler' = "returned" => handler = "returned" \/ cancelled'
      /\ direct => UNCHANGED service
      /\ ~direct => service' = Received(Sent) /\ service.at = "receive"
    <2>1. CASE direct
        BY <1>1, <2>1, Zenon DEF Send, Take, Hear, Shapes
    <2>2. CASE ~direct
        BY <1>1, <2>2 DEF Send, Take
    <2> QED
        BY <2>1, <2>2
<1>3. ASSUME ~direct PROVE service'.at \notin {"complete", "ended"}
    <2>1. service \in Service /\ ~service.sawDone /\ ~service.invalid /\ service.at = "receive"
        BY <1>1, <1>2, <1>3, SMT DEF Shapes, Protocol, Followed, Sending
    <2>2. service.held => runner = "finish"
        BY <1>1, <1>3 DEF Protocol, Followed, Out, Sending
    <2>3. Sent \in {"progress", "result", "error", "done"} /\ (Sent = "result" => runner = "deliver")
        BY <1>1, Speaking, SMT DEF Sending
    <2>4. service'.at \in {"receive", "forward"}
        BY <1>2, <1>3, <2>1, <2>2, <2>3, Taking, Zenon DEF ServiceIs
    <2> QED
        BY <2>4
<1>4. CASE runner = "begin" /\ action = "race"
    <2>1. building' = Directions
        BY <1>1, <1>4 DEF Begin
    <2> QED
        BY <1>1, <1>2, <1>3, <2>1 DEF Underway
<1>5. CASE ~(runner = "begin" /\ action = "race")
    <2>1. UNCHANGED building /\ runner' # "gather" /\ runner # "ended"
        BY <1>1, <1>5, Speaking, SMT DEF Begin, Sending
    <2> QED
        BY <1>1, <1>2, <1>3, <2>1, UnderwayStays
<1> QED
    BY <1>4, <1>5

LEMMA UnderwayGathers == ASSUME StreamInv, Underway, Gather PROVE Underway'
<1>1. /\ results # <<>> /\ results \in Seq(Result) /\ results' = Tail(results)
      /\ UNCHANGED <<direct, cancelled, handler, service, building, runner>> /\ runner = "gather"
    BY DEF Gather, StreamInv, Shapes, Result, given, rest
<1> DEFINE d == Head(results).direction
<1>2. PICK quality \in Quality : made' = [made EXCEPT ![d] = quality]
    BY Zenon DEF Gather, Quality
<1>3. quality # "none"
    BY DEF Quality
<1>4. \A e \in Directions : made'[e] = IF e = d THEN quality ELSE made[e]
    BY <1>2, Zenon DEF StreamInv, Shapes
<1>5. ASSUME NEW e \in Directions, e # d, Reported(e) PROVE Reported(e)'
    <2>1. PICK i \in 1..Len(results) : results[i].direction = e
        BY <1>5 DEF Reported
    <2>2. i # 1 /\ Len(results) \in Nat
        BY <1>1, <1>5, <2>1
    <2>3. Len(results') = Len(results) - 1 /\ results'[i - 1] = results[i] /\ i - 1 \in 1..Len(results')
        BY <1>1, <2>2, SMT
    <2> QED
        BY <2>1, <2>3 DEF Reported
<1> QED
    BY <1>1, <1>3, <1>4, <1>5 DEF Underway

LEMMA UnderwayBuilds ==
    ASSUME StreamInv, Underway, NEW d \in Directions, Build(d) PROVE Underway'
<1>1. /\ UNCHANGED <<direct, cancelled, handler, service, runner, made>> /\ building' = building \ {d}
      /\ results \in Seq(Result)
    BY DEF Build, StreamInv, Shapes, Result, given, rest
<1>2. PICK sound \in BOOLEAN : results' = Append(results, [direction |-> d, sound |-> sound])
    BY Zenon DEF Build
<1> DEFINE one == [direction |-> d, sound |-> sound]
<1>3. one \in Result /\ one.direction = d
    BY Zenon DEF Result
<1> HIDE DEF one
<1>4. /\ Len(results') = Len(results) + 1 /\ Len(results) \in Nat
      /\ results'[Len(results) + 1] = one /\ \A i \in 1..Len(results) : results'[i] = results[i]
    BY <1>1, <1>2, <1>3, AppendProperties DEF one
<1>5. Reported(d)'
    BY <1>3, <1>4 DEF Reported
<1>6. \A e \in Directions : Reported(e) => Reported(e)'
    BY <1>4 DEF Reported
<1> QED
    BY <1>1, <1>5, <1>6 DEF Underway

LEMMA UnderwayServed == ASSUME StreamInv, Underway, Serve PROVE Underway'
<1> USE DEF StreamInv
<1>1. Aside /\ UNCHANGED <<direct, made, building, results, runner>>
    <2>1. Aside
        BY Zenon DEF Serve, Forward, Settle, EmitReject, CheckContract, Store, Offer, Finish, Complete,
                     Aside, given
    <2> QED
        BY <2>1 DEF Aside, maker
<1>2. service \in Service
    BY DEF Shapes
<1>3. ASSUME NEW kind \in Kinds, NEW at \in At, Hear(kind), Move(at),
             at = "complete" => runner = "ended", at # "ended"
      PROVE  Underway'
    <2>1. service'.at = at
        BY <1>3, Moves
    <2>2. /\ cancelled => cancelled'
          /\ handler' = "returned" => handler = "returned" \/ cancelled'
        <3>1. UNCHANGED <<handler, cancelled>> \/ cancelled' = TRUE
            BY <1>3, Zenon DEF Hear
        <3> QED
            BY <3>1
    <2> QED
        BY <1>1, <1>3, <2>1, <2>2, UnderwayStays
<1>4. ASSUME Dropped PROVE Underway'
    BY <1>1, <1>4, UnderwayStays DEF Dropped
<1>5. /\ service.event \in Kinds /\ Closing \in Kinds /\ "error" \in Kinds /\ "done" \in Kinds
      /\ "receive" \in At /\ "finish" \in At /\ "complete" \in At /\ "ended" \in At
    BY <1>2, Zenon DEF Service, Closing, Kinds, At
<1>6. CASE Forward
    BY <1>3, <1>4, <1>5, <1>6 DEF Forward, Emit, Dropped
<1>7. CASE EmitReject
    BY <1>3, <1>4, <1>5, <1>7 DEF EmitReject, Emit, Dropped
<1>8. CASE Offer
    BY <1>3, <1>4, <1>5, <1>8 DEF Offer, Emit, Dropped
<1>9. CASE Finish
    <2>1. runner = "ended"
        BY <1>9 DEF Finish, Protocol, DirectInv, Accounted
    <2> QED
        BY <1>3, <1>4, <1>5, <1>9, <2>1 DEF Finish, Emit, Dropped
<1>10. CASE Settle \/ CheckContract \/ Store
    <2>1. /\ UNCHANGED <<cancelled, handler>> /\ (Settle => runner = "ended")
          /\ service.at \in {"receive", "check", "store"}
        BY <1>10 DEF Settle, CheckContract, Store, given
    <2>2. ~direct => runner = "ended"
        BY <1>10, <2>1 DEF Protocol, Accounted, CheckContract, Store
    <2> QED
        BY <1>1, <2>1, <2>2, UnderwayStays
<1>11. CASE Complete
    BY <1>1, <1>11, UnderwayStays DEF Complete, given
<1> QED
    BY <1>6, <1>7, <1>8, <1>9, <1>10, <1>11 DEF Serve

LEMMA UnderwayOn == ASSUME StreamInv, Underway, [Next]_vars PROVE Underway'
<1>1. CASE Send
    BY <1>1, UnderwaySent
<1>2. CASE Gather
    BY <1>2, UnderwayGathers
<1>3. CASE \E d \in Directions : Build(d)
    BY <1>3, UnderwayBuilds
<1>4. CASE Serve
    BY <1>4, UnderwayServed
<1>5. CASE Refused \/ CallModel \/ Check \/ Fail \/ Gathered
    <2>1. UNCHANGED <<direct, cancelled, handler, service, made, building, results>>
        BY <1>5 DEF Refused, CallModel, Check, Fail, Gathered, given, rest, maker
    <2>2. runner' = "gather" => runner = "gather"
        BY <1>5, SMT DEF Refused, CallModel, Check, Fail, Gathered, GivesUp, Onward, maker
    <2>3. runner = "ended" => runner' = "ended"
        BY <1>5 DEF Refused, CallModel, Check, Fail, Gathered, Sending, maker
    <2> QED
        BY <2>1, <2>2, <2>3, UnderwayStays
<1>6. CASE Use \/ Elaborate \/ Fallback
    <2>1. /\ UNCHANGED <<direct, cancelled, handler, service>> /\ runner # "ended"
        BY <1>6 DEF Use, Elaborate, Fallback, given, rest
    <2>2. runner' # "gather"
        BY <1>6, SMT DEF Use, Elaborate, Fallback, Answer
    <2> QED
        BY <2>1, <2>2 DEF Underway
<1>7. CASE HandlerClosed \/ HandlerCancelled \/ ClientLeaves
    <2>1. UNCHANGED <<direct, service, made, building, results, runner>>
        BY <1>7 DEF HandlerClosed, HandlerCancelled, ClientLeaves, given, rest, maker
    <2>2. /\ cancelled => cancelled'
          /\ handler' = "returned" => handler = "returned" \/ cancelled'
        BY <1>7 DEF HandlerClosed, HandlerCancelled, ClientLeaves, given, rest
    <2> QED
        BY <2>1, <2>2, UnderwayStays
<1>8. CASE Tick \/ UNCHANGED vars \/ \E d \in Directions : BuildCalls(d) \/ ModelReplies(d) \/ ModelSilent(d)
    <2>1. UNCHANGED <<given, maker, rest>>
        BY <1>8 DEF Tick, BuildCalls, ModelReplies, ModelSilent, vars
    <2>2. UNCHANGED <<direct, cancelled, handler, service, made, building, results, runner>>
        BY <2>1 DEF given, maker, rest
    <2> QED
        BY <2>2, UnderwayStays
<1> QED
    BY <1>1, <1>2, <1>3, <1>4, <1>5, <1>6, <1>7, <1>8 DEF Next, Runner, Handler, Builder

\* Whoever has to send to another finds it ready, about to be, or the context done; and a
\* race waits only for results that are still made.  With this, no goroutine is left
\* waiting for one that waits for it, or that has ended.
NobodyWaitsInVain ==
    /\ Sending /\ ~cancelled => /\ handler = "serving"
                                /\ direct \/ service.at \in {"receive", "forward"}
    /\ service.at \in {"forward", "reject", "offer", "finish"} /\ ~cancelled => handler = "serving"
    /\ runner = "gather" =>
           results # <<>> \/ building # {} \/ \A d \in Directions : made[d] # "none"

\* Whoever leaves and whatever fails, and for any number of directions, there is no deadlock
\* among the goroutines of a run (the selects of orchestrator, service and handler, and
\* the results channel of a race).
THEOREM StreamHasNoDeadlock == Spec => []NobodyWaitsInVain
<1>1. Init => Underway
    <2> SUFFICES ASSUME Init PROVE Underway
        OBVIOUS
    <2>1. handler = "serving" /\ runner = "begin"
        BY Zenon DEF Init
    <2>2. ~direct => service.at = "receive"
        BY Zenon DEF Init
    <2> QED
        BY <2>1, <2>2 DEF Underway
<1>2. StreamInv /\ Underway => NobodyWaitsInVain
    <2> SUFFICES ASSUME StreamInv, Underway PROVE NobodyWaitsInVain
        OBVIOUS
    <2>1. handler = "serving" \/ cancelled
        BY DEF StreamInv, Shapes, Underway
    <2>2. Sending /\ ~cancelled => direct \/ service.at \in {"receive", "forward"}
        <3> SUFFICES ASSUME Sending, ~cancelled, ~direct
                     PROVE  service.at \in {"receive", "forward"}
            OBVIOUS
        <3>1. service.at \in At /\ runner # "ended"
            BY Zenon DEF StreamInv, Shapes, Service, At, Sending
        <3> QED
            BY <3>1, SMT DEF StreamInv, Protocol, Accounted, Underway, At
    <2>3. ASSUME runner = "gather", results = <<>>, building = {}, NEW d \in Directions
          PROVE  made[d] # "none"
        <3>1. Len(results) = 0
            BY <2>3, SMT
        <3>2. ~Reported(d)
            BY <3>1, SMT DEF Reported
        <3> QED
            BY <2>3, <3>2 DEF Underway
    <2> QED
        BY <2>1, <2>2, <2>3 DEF NobodyWaitsInVain
<1> QED
    BY <1>1, <1>2, StreamHolds, UnderwayOn, PTL DEF Spec


-----------------------------------------------------------------------------
(* How long a run may take.                                                *)

\* The ticks of so many requests; those of all requests a call may make; and those that
\* a call has had at most.
Attempts(n) == n * Timeout
AllCalls == Attempts(MaxRetries + 1)

Taken(c) == IF c.at = "idle" THEN 0
            ELSE IF c.at = "request" THEN Attempts(c.attempt) + (Timeout - c.left)
            ELSE IF c.at = "pause" THEN Attempts(c.attempt + 1)
            ELSE AllCalls

LEMMA AttemptsAdd ==
    /\ Attempts(0) = 0 /\ AllCalls \in Nat
    /\ \A n \in 0..MaxRetries : /\ Attempts(n) \in Nat /\ Attempts(n + 1) \in Nat
                                /\ Attempts(n + 1) = Attempts(n) + Timeout
                                /\ Attempts(n + 1) <= AllCalls
<1> USE TimeAssumption
<1>1. \A n \in Nat : Attempts(n) \in Nat
    BY SMT DEF Attempts
<1>2. Attempts(0) = 0
    BY SMT DEF Attempts
<1>3. \A n \in Nat : Attempts(n + 1) = Attempts(n) + Timeout
    BY SMT DEF Attempts
<1>4. ASSUME NEW n \in 0..MaxRetries PROVE Attempts(n + 1) <= AllCalls
    <2>1. n + 1 \in Nat /\ MaxRetries + 1 \in Nat /\ n + 1 <= MaxRetries + 1
        BY SMT
    <2>2. \A a, b \in Nat : a <= b => a * Timeout <= b * Timeout
        BY SMT
    <2> QED
        BY <2>1, <2>2 DEF Attempts, AllCalls
<1> QED
    BY <1>1, <1>2, <1>3, <1>4, SMT DEF AllCalls

LEMMA TakenBounded ==
    ASSUME NEW c \in Model!Call, c.at = "pause" => c.attempt < MaxRetries
    PROVE  Taken(c) \in Nat /\ Taken(c) <= AllCalls
<1>1. c.attempt \in 0..MaxRetries /\ c.left \in 0..Timeout
    BY DEF Model!Call
<1> QED
    BY <1>1, AttemptsAdd, TimeAssumption, SMT DEF Taken

\* A call that is made goes on from d's call to another, which has had no less.
Goes(d) == /\ call' \in [Directions -> Model!Call]
           /\ \A e \in Directions \ {d} : call'[e] = call[e]
           /\ Taken(call[d]) <= Taken(call'[d])
           /\ call'[d].at # "idle"

LEMMA CallGoes ==
    ASSUME CallsOK, NEW d \in Directions,
           Model!Start(d) \/ Model!Reply(d) \/ Model!Proceed(d)
    PROVE  Goes(d)
<1> DEFINE c == call[d]
<1>1. c \in Model!Call /\ c.attempt \in 0..MaxRetries /\ c.left \in 0..Timeout
      /\ (c.at = "pause" => c.attempt < MaxRetries) /\ call \in [Directions -> Model!Call]
    BY DEF CallsOK, Model!Call
<1>2. call' \in [Directions -> Model!Call]
    BY CallStarts, CallReplied, CallProceeds DEF CallsOK
<1>3. ASSUME NEW at \in {"pause", "answered", "failed"}, Model!Becomes(d, at),
             c.at \in {"request", "pause"}, at = "pause" => c.at = "request"
      PROVE  Goes(d)
    <2>1. \A e \in Directions \ {d} : call'[e] = call[e]
        BY <1>1, <1>3, Zenon DEF Model!Becomes
    <2>2. call'[d].at = at /\ call'[d].attempt = c.attempt
        BY <1>1, <1>3, Zenon DEF Model!Becomes, Model!Call
    <2>3. Taken(c) <= Taken(call'[d])
        <3>1. Taken(c) <= AllCalls
            BY <1>1, TakenBounded
        <3>2. at = "pause" => Taken(c) <= Attempts(c.attempt + 1)
            BY <1>1, <1>3, AttemptsAdd, TimeAssumption, SMT DEF Taken
        <3> QED
            BY <1>3, <2>2, <3>1, <3>2, SMT DEF Taken
    <2> QED
        BY <1>2, <1>3, <2>1, <2>2, <2>3 DEF Goes
<1>4. ASSUME NEW n \in 0..MaxRetries, Model!Request(d, n), Taken(c) <= Attempts(n)
      PROVE  Goes(d)
    <2>1. /\ \A e \in Directions \ {d} : call'[e] = call[e]
          /\ call'[d] = [at |-> "request", attempt |-> n, left |-> Timeout]
        BY <1>1, <1>4, Zenon DEF Model!Request
    <2>2. call'[d].at = "request" /\ Taken(call'[d]) = Attempts(n) + (Timeout - Timeout)
        BY <2>1, SMT DEF Taken
    <2>3. Taken(call'[d]) = Attempts(n)
        BY <2>2, AttemptsAdd, TimeAssumption, SMT
    <2> QED
        BY <1>2, <1>4, <2>1, <2>2, <2>3, SMT DEF Goes
<1>5. ASSUME c.at = "request", Model!Retry(d) PROVE Goes(d)
    BY <1>3, <1>5, Zenon DEF Model!Retry
<1>6. CASE Model!Start(d)
    <2>1. Taken(c) <= Attempts(0) /\ 0 \in 0..MaxRetries
        BY <1>6, AttemptsAdd, TimeAssumption, SMT DEF Model!Start, Taken
    <2> QED
        BY <1>4, <1>6, <2>1 DEF Model!Start
<1>7. CASE Model!Reply(d)
    BY <1>3, <1>5, <1>7 DEF Model!Reply, Model!Denied, Model!Cut, Model!Decoded, Model!Lacking
<1>8. CASE Model!TimeOut(d)
    BY <1>5, <1>8 DEF Model!TimeOut
<1>9. CASE Model!Abandon(d)
    BY <1>3, <1>9 DEF Model!Abandon
<1>10. CASE Model!Resume(d)
    <2>1. c.attempt + 1 \in 0..MaxRetries /\ Taken(c) <= Attempts(c.attempt + 1)
        BY <1>1, <1>10, AttemptsAdd, TimeAssumption, SMT DEF Model!Resume, Taken
    <2> QED
        BY <1>4, <1>10, <2>1 DEF Model!Resume
<1> QED
    BY <1>6, <1>7, <1>8, <1>9, <1>10 DEF Model!Proceed

\* A tick is had by every request that is out.
LEMMA CallTicks ==
    ASSUME CallsOK, Model!Elapse, NEW d \in Directions
    PROVE  /\ call'[d].at = call[d].at
           /\ Taken(call'[d]) = IF call[d].at = "request" THEN Taken(call[d]) + 1 ELSE Taken(call[d])
<1>1. call[d] \in Model!Call
    BY DEF CallsOK
<1>2. CASE call[d].at = "request"
    <2>1. call'[d] = [call[d] EXCEPT !.left = call[d].left - 1] /\ call[d].left \in Int
        BY <1>1, <1>2 DEF Model!Elapse, Model!Call
    <2>2. /\ call'[d].at = "request" /\ call'[d].attempt = call[d].attempt
          /\ call'[d].left = call[d].left - 1
        BY <1>1, <1>2, <2>1, Zenon DEF Model!Call
    <2>3. Attempts(call[d].attempt) \in Nat
        BY <1>1, AttemptsAdd DEF Model!Call
    <2> QED
        BY <1>2, <2>1, <2>2, <2>3, TimeAssumption, SMT DEF Taken
<1>3. CASE call[d].at # "request"
    BY <1>3 DEF Model!Elapse
<1> QED
    BY <1>2, <1>3

Spent == WriteTimeout - open

\* What the calls of a run take when no request is answered in time, one after another.
Longest == IF action = "race" THEN Cardinality(Directions) * AllCalls
           ELSE IF action = "plan" THEN AllCalls + AllCalls
           ELSE AllCalls

\* A plan, build or revision makes one call, or two for a team's plan.
OneAfterAnother ==
    /\ building = {}
    /\ \A d \in Directions \ {Single} : call[d].at = "idle"
    /\ call[Single].at # "idle" => runner \in {"call", "elaborate"}
    /\ runner \in {"brief", "elaborate"} => action = "plan"
    /\ runner = "begin" => Spent <= 0
    /\ runner = "call" => Spent <= Taken(call[Single])
    /\ runner = "brief" => Spent <= AllCalls
    /\ runner = "elaborate" => Spent <= AllCalls + Taken(call[Single])
    /\ Spent <= Longest

\* A race makes a call for each direction, which has had so many ticks.
Elapsed(d) == IF call[d].at = "idle" /\ d \notin building /\ runner # "begin" THEN AllCalls
              ELSE Taken(call[d])
Used == {x \in Directions \X (1..AllCalls) : x[2] <= Elapsed(x[1])}

OneForEach ==
    /\ runner \notin {"call", "brief", "elaborate", "warn", "fallback"}
    /\ \A d \in Directions : call[d].at # "idle" => d \in building
    /\ runner = "begin" => building = {}
    /\ Spent <= Cardinality(Used)

Timed == IF action = "race" THEN OneForEach ELSE OneAfterAnother

LEMMA ElapsedBounded ==
    ASSUME CallsOK, NEW d \in Directions PROVE Elapsed(d) \in Nat /\ Elapsed(d) <= AllCalls
<1>1. Taken(call[d]) \in Nat /\ Taken(call[d]) <= AllCalls
    BY TakenBounded DEF CallsOK
<1> QED
    BY <1>1, AttemptsAdd, SMT DEF Elapsed

LEMMA SlotsFinite ==
    ASSUME IsFiniteSet(Directions)
    PROVE  LET S == Directions \X (1..AllCalls)
           IN  IsFiniteSet(S) /\ Cardinality(S) = Cardinality(Directions) * AllCalls
<1>1. IsFiniteSet(1..AllCalls) /\ Cardinality(1..AllCalls) = AllCalls
    BY FS_Interval, AttemptsAdd, SMT
<1> QED
    BY <1>1, FS_Product

\* Time that was used stays used.
LEMMA UsedStays ==
    ASSUME IsFiniteSet(Directions), \A d \in Directions : Elapsed(d) <= Elapsed(d)',
           CallsOK, CallsOK'
    PROVE  /\ Used \subseteq Used' /\ IsFiniteSet(Used) /\ IsFiniteSet(Used')
           /\ Cardinality(Used) \in Nat /\ Cardinality(Used') \in Nat
           /\ Cardinality(Used) <= Cardinality(Used')
<1>1. IsFiniteSet(Directions \X (1..AllCalls))
    BY SlotsFinite
<1>2. IsFiniteSet(Used) /\ IsFiniteSet(Used')
    BY <1>1, FS_Subset DEF Used
<1>3. Used \subseteq Used'
    <2>1. ASSUME NEW x \in Used PROVE x \in Used'
        <3>1. x \in Directions \X (1..AllCalls) /\ x[2] <= Elapsed(x[1])
            BY <2>1 DEF Used
        <3>2. x[1] \in Directions /\ x[2] \in 1..AllCalls
            BY <3>1
        <3>3. Elapsed(x[1]) \in Nat /\ Elapsed(x[1])' \in Nat /\ Elapsed(x[1]) <= Elapsed(x[1])'
            <4>1. Taken(call'[x[1]]) \in Nat
                BY <3>2, TakenBounded DEF CallsOK
            <4>2. Elapsed(x[1])' \in Nat
                BY <3>2, <4>1, AttemptsAdd DEF Elapsed
            <4> QED
                BY <3>2, <4>2, ElapsedBounded
        <3>4. x[2] <= Elapsed(x[1])'
            BY <3>1, <3>2, <3>3
        <3> QED
            BY <3>1, <3>4 DEF Used
    <2> QED
        BY <2>1
<1> QED
    BY <1>2, <1>3, FS_Subset, FS_CardinalityType

LEMMA SpentBounded ==
    ASSUME IsFiniteSet(Directions), StreamInv, Timed
    PROVE  Spent <= Longest /\ Longest \in Nat
<1>1. AllCalls \in Nat /\ Cardinality(Directions) \in Nat
    BY AttemptsAdd, FS_CardinalityType
<1>2. Longest \in Nat
    BY <1>1, SMT DEF Longest
<1>3. CASE action # "race"
    BY <1>2, <1>3 DEF Timed, OneAfterAnother
<1>4. CASE action = "race"
    <2>1. Spent <= Cardinality(Used)
        BY <1>4 DEF Timed, OneForEach
    <2>2. IsFiniteSet(Directions \X (1..AllCalls))
          /\ Cardinality(Directions \X (1..AllCalls)) = Cardinality(Directions) * AllCalls
        BY SlotsFinite
    <2>3. Used \subseteq Directions \X (1..AllCalls)
        BY DEF Used
    <2>4. Cardinality(Used) <= Longest /\ Cardinality(Used) \in Nat
        BY <1>4, <2>2, <2>3, FS_Subset, FS_CardinalityType DEF Longest
    <2>5. Spent \in Int
        BY TimeAssumption DEF Spent, StreamInv, Shapes
    <2> QED
        BY <1>2, <2>1, <2>4, <2>5
<1> QED
    BY <1>3, <1>4

\* Away from the calls of the model, time stands still.
LEMMA TimedElsewhere ==
    ASSUME IsFiniteSet(Directions), StreamInv, StreamInv', Timed,
           UNCHANGED <<action, open, call, building>>,
           runner' # runner => /\ runner' \notin {"begin", "call", "brief", "elaborate", "warn", "fallback"}
                               /\ \A d \in Directions : action # "race" => call[d].at = "idle"
    PROVE  Timed'
<1>1. Spent' = Spent /\ Longest' = Longest /\ Spent <= Longest
    BY SpentBounded DEF Spent, Longest
<1>2. CASE action # "race"
    <2>1. OneAfterAnother
        BY <1>2 DEF Timed
    <2>2. call[Single].at # "idle" => runner' = runner
        BY <1>2, SingleIsOne
    <2> QED
        BY <1>1, <1>2, <2>1, <2>2 DEF Timed, OneAfterAnother
<1>3. CASE action = "race"
    <2>1. OneForEach
        BY <1>3 DEF Timed
    <2>2. ASSUME NEW d \in Directions PROVE Elapsed(d) <= Elapsed(d)'
        <3>1. Taken(call[d]) \in Nat /\ Taken(call[d]) <= AllCalls
            BY TakenBounded DEF StreamInv, CallsOK
        <3> QED
            BY <3>1, AttemptsAdd DEF Elapsed
    <2>3. Cardinality(Used) <= Cardinality(Used') /\ Cardinality(Used) \in Nat /\ Cardinality(Used') \in Nat
        BY <2>2, UsedStays DEF StreamInv
    <2>4. Spent \in Int
        BY TimeAssumption DEF Spent, StreamInv, Shapes
    <2>5. Spent' <= Cardinality(Used')
        BY <1>1, <2>1, <2>3, <2>4 DEF OneForEach
    <2>6. Cardinality(Used)' = Cardinality(Used')
        OBVIOUS
    <2> QED
        BY <1>3, <2>1, <2>5, <2>6 DEF Timed, OneForEach
<1> QED
    BY <1>2, <1>3

\* A call goes on without time.
LEMMA TimedCalls ==
    ASSUME IsFiniteSet(Directions), StreamInv, StreamInv', Timed,
           UNCHANGED <<action, open, building, runner>>, NEW d \in Directions, Goes(d),
           action = "race" => d \in building,
           action # "race" => d = Single /\ runner \in {"call", "elaborate"}
    PROVE  Timed'
<1>1. Spent' = Spent /\ Longest' = Longest /\ Spent <= Longest
    BY SpentBounded DEF Spent, Longest
<1>2. \A e \in Directions : /\ Taken(call[e]) \in Nat /\ Taken(call'[e]) \in Nat
                            /\ Taken(call[e]) <= AllCalls /\ Taken(call[e]) <= Taken(call'[e])
    BY TakenBounded DEF StreamInv, CallsOK, Goes
<1>3. Spent \in Int /\ AllCalls \in Nat
    BY AttemptsAdd, TimeAssumption DEF Spent, StreamInv, Shapes
<1>4. CASE action # "race"
    <2>1. OneAfterAnother
        BY <1>4 DEF Timed
    <2>2. runner = "call" => Spent <= Taken(call'[Single])
        BY <1>2, <1>3, <2>1, SingleIsOne DEF OneAfterAnother
    <2>3. runner = "elaborate" => Spent <= AllCalls + Taken(call'[Single])
        BY <1>2, <1>3, <2>1, SingleIsOne DEF OneAfterAnother
    <2> QED
        BY <1>1, <1>4, <2>1, <2>2, <2>3 DEF Timed, OneAfterAnother, Goes
<1>5. CASE action = "race"
    <2>1. OneForEach
        BY <1>5 DEF Timed
    <2>2. ASSUME NEW e \in Directions PROVE Elapsed(e) <= Elapsed(e)'
        <3>1. CASE e = d
            BY <1>2, <1>5, <3>1 DEF Elapsed
        <3>2. CASE e # d
            BY <1>2, <1>3, <3>2 DEF Elapsed, Goes
        <3> QED
            BY <3>1, <3>2
    <2>3. Cardinality(Used) <= Cardinality(Used') /\ Cardinality(Used) \in Nat /\ Cardinality(Used') \in Nat
        BY <2>2, UsedStays DEF StreamInv
    <2>4. Spent' <= Cardinality(Used')
        BY <1>1, <1>3, <2>1, <2>3 DEF OneForEach
    <2>5. Cardinality(Used)' = Cardinality(Used')
        OBVIOUS
    <2> QED
        BY <1>5, <2>1, <2>4, <2>5 DEF Timed, OneForEach, Goes
<1> QED
    BY <1>4, <1>5

LEMMA TimedTick ==
    ASSUME IsFiniteSet(Directions), StreamInv, StreamInv', Timed, Tick PROVE Timed'
<1>1. /\ UNCHANGED <<action, building, runner>> /\ Model!Elapse
      /\ Spent' = Spent + 1 /\ Spent \in Int /\ AllCalls \in Nat
    BY AttemptsAdd, TimeAssumption DEF Tick, given, maker, Spent, StreamInv, Shapes
<1>2. \A d \in Directions :
          /\ call'[d].at = call[d].at
          /\ Taken(call'[d]) = IF call[d].at = "request" THEN Taken(call[d]) + 1 ELSE Taken(call[d])
          /\ Taken(call[d]) \in Nat /\ Taken(call'[d]) \in Nat /\ Taken(call'[d]) <= AllCalls
    BY <1>1, CallTicks, TakenBounded DEF StreamInv, CallsOK
<1>3. PICK d \in Directions : call[d].at = "request"
    BY <1>1 DEF Model!Elapse
<1>4. CASE action # "race"
    <2>1. OneAfterAnother
        BY <1>4 DEF Timed
    <2>2. d = Single /\ runner \in {"call", "elaborate"}
        BY <1>3, <2>1 DEF OneAfterAnother
    <2>3. Taken(call'[Single]) = Taken(call[Single]) + 1
        BY <1>2, <1>3, <2>2
    <2>4. runner = "call" => Spent' <= Taken(call'[Single])
        BY <1>1, <1>2, <2>1, <2>2, <2>3 DEF OneAfterAnother
    <2>5. runner = "elaborate" => Spent' <= AllCalls + Taken(call'[Single])
        BY <1>1, <1>2, <2>1, <2>2, <2>3 DEF OneAfterAnother
    <2>6. Spent' <= Longest' /\ (runner = "elaborate" => action = "plan")
        BY <1>1, <1>2, <1>4, <2>1, <2>2, <2>4, <2>5 DEF OneAfterAnother, Longest
    <2> QED
        BY <1>1, <1>2, <1>4, <2>1, <2>2, <2>4, <2>5, <2>6, SingleIsOne DEF Timed, OneAfterAnother
<1>5. CASE action = "race"
    <2>1. OneForEach
        BY <1>5 DEF Timed
    <2>2. \A e \in Directions : Elapsed(e) <= Elapsed(e)'
        BY <1>1, <1>2 DEF Elapsed
    <2>3. /\ Used \subseteq Used' /\ IsFiniteSet(Used) /\ IsFiniteSet(Used')
          /\ Cardinality(Used) \in Nat /\ Cardinality(Used') \in Nat
        BY <2>2, UsedStays DEF StreamInv
    <2> DEFINE x == <<d, Taken(call'[d])>>
    <2>4. /\ Elapsed(d) = Taken(call[d]) /\ Elapsed(d)' = Taken(call'[d])
          /\ Taken(call'[d]) = Taken(call[d]) + 1
        BY <1>2, <1>3 DEF Elapsed
    <2>5. x \in Directions \X (1..AllCalls) /\ x[1] = d /\ x[2] = Taken(call'[d])
        BY <1>1, <1>2, <2>4
    <2> HIDE DEF x
    <2>6. x \in Used'
        BY <1>2, <2>4, <2>5, AttemptsAdd DEF Used
    <2>7. x \notin Used
        BY <1>2, <2>4, <2>5 DEF Used
    <2>8. Cardinality(Used \cup {x}) = Cardinality(Used) + 1
        BY <2>3, <2>7, FS_AddElement
    <2>9. Used \cup {x} \subseteq Used'
        BY <2>3, <2>6
    <2>10. Cardinality(Used) + 1 <= Cardinality(Used')
        BY <2>3, <2>8, <2>9, FS_Subset
    <2>11. Spent' <= Cardinality(Used')
        BY <1>1, <2>1, <2>3, <2>10 DEF OneForEach
    <2>12. Cardinality(Used)' = Cardinality(Used')
        OBVIOUS
    <2> QED
        BY <1>1, <1>2, <1>5, <2>1, <2>11, <2>12 DEF Timed, OneForEach
<1> QED
    BY <1>4, <1>5

\* A call's outcome is taken: no call is under way, and its time is spent.
LEMMA TimedUse ==
    ASSUME IsFiniteSet(Directions), StreamInv, StreamInv', Timed, Use \/ Elaborate
    PROVE  Timed'
<1>1. /\ UNCHANGED <<action, open, building>> /\ action # "race" /\ OneAfterAnother
      /\ runner \in {"call", "elaborate"}
    <2>1. runner \in {"call", "elaborate"} /\ UNCHANGED <<given, open, building>>
        BY DEF Use, Elaborate
    <2> QED
        BY <2>1 DEF Timed, OneForEach, given
<1>2. Spent' = Spent /\ Longest' = Longest /\ Spent <= Longest /\ Spent \in Int /\ AllCalls \in Nat
    BY <1>1, SpentBounded, AttemptsAdd, TimeAssumption DEF Spent, Longest, StreamInv, Shapes
<1>3. \A d \in Directions : call'[d].at = "idle"
    <2>1. Model!Forget(Single)
        BY DEF Use, Elaborate, Called
    <2>2. Model!NoCall.at = "idle"
        BY SMT DEF Model!NoCall
    <2>3. /\ call'[Single] = Model!NoCall
          /\ \A d \in Directions \ {Single} : call'[d] = call[d]
        BY <2>1, SingleIsOne, Zenon DEF Model!Forget, StreamInv, CallsOK
    <2> QED
        BY <1>1, <2>2, <2>3 DEF OneAfterAnother
<1>4. /\ runner' \in {"check", "validating", "brief", "warn"}
      /\ runner' = "brief" => runner = "call" /\ action = "plan"
    BY SMT DEF Use, Elaborate, Answer
<1>5. runner' = "brief" => Spent <= AllCalls
    <2>1. Taken(call[Single]) \in Nat /\ Taken(call[Single]) <= AllCalls
        BY SingleIsOne, TakenBounded DEF StreamInv, CallsOK
    <2> QED
        BY <1>1, <1>2, <1>4, <2>1 DEF OneAfterAnother
<1> QED
    BY <1>1, <1>2, <1>3, <1>4, <1>5, SingleIsOne DEF Timed, OneAfterAnother

LEMMA TimedSend ==
    ASSUME IsFiniteSet(Directions), StreamInv, StreamInv', Timed, Send
    PROVE  Timed'
<1>1. /\ Sending /\ runner' = Onward /\ UNCHANGED <<action, open, call>> /\ Begin
    BY DEF Send, model
<1>2. Spent' = Spent /\ Longest' = Longest /\ Spent <= Longest /\ Spent \in Int /\ AllCalls \in Nat
    BY <1>1, SpentBounded, AttemptsAdd, TimeAssumption DEF Spent, Longest, StreamInv, Shapes
<1>3. CASE runner = "begin" /\ action = "race"
    <2>1. OneForEach /\ building' = Directions /\ runner' = "gather"
        BY <1>1, <1>3, Speaking DEF Timed, Begin
    <2>2. \A d \in Directions : Elapsed(d) <= Elapsed(d)'
        <3>1. \A d \in Directions : Taken(call[d]) \in Nat
            BY TakenBounded DEF StreamInv, CallsOK
        <3> QED
            BY <1>1, <1>3, <2>1, <3>1 DEF Elapsed
    <2>3. Cardinality(Used) <= Cardinality(Used') /\ Cardinality(Used) \in Nat /\ Cardinality(Used') \in Nat
        BY <2>2, UsedStays DEF StreamInv
    <2>4. Spent' <= Cardinality(Used')
        BY <1>2, <2>1, <2>3 DEF OneForEach
    <2>5. Cardinality(Used)' = Cardinality(Used')
        OBVIOUS
    <2> QED
        BY <1>1, <1>3, <2>1, <2>4, <2>5 DEF Timed, OneForEach
<1>4. CASE action # "race" /\ runner \in {"begin", "brief"}
    <2>1. /\ OneAfterAnother /\ UNCHANGED building
          /\ runner = "begin" => runner' = "call"
          /\ runner = "brief" => runner' = "elaborate"
        BY <1>1, <1>4, Speaking DEF Timed, Begin
    <2>2. Taken(call[Single]) \in Nat
        BY SingleIsOne, TakenBounded DEF StreamInv, CallsOK
    <2> QED
        BY <1>1, <1>2, <1>4, <2>1, <2>2 DEF Timed, OneAfterAnother
<1>5. CASE runner \notin {"begin", "brief"}
    <2>1. UNCHANGED building
        BY <1>1, <1>5 DEF Begin
    <2>2. runner' \notin {"begin", "call", "brief", "elaborate"}
          /\ (runner = "warn" \/ runner' \notin {"warn", "fallback"})
        BY <1>1, <1>5, Speaking, SMT DEF Sending
    <2>3. action = "race" => runner # "warn"
        BY DEF Timed, OneForEach
    <2>4. CASE action = "race"
        BY <1>1, <2>1, <2>2, <2>3, <2>4, TimedElsewhere
    <2>5. CASE action # "race"
        BY <1>1, <1>2, <1>5, <2>1, <2>2, <2>5, SMT DEF Timed, OneAfterAnother, Sending
    <2> QED
        BY <2>4, <2>5
<1>6. ~(action = "race" /\ runner = "brief")
    BY DEF Timed, OneForEach
<1> QED
    BY <1>3, <1>4, <1>5, <1>6

LEMMA TimedBuild ==
    ASSUME IsFiniteSet(Directions), StreamInv, StreamInv', Timed, NEW d \in Directions, Build(d)
    PROVE  Timed'
<1>1. /\ UNCHANGED <<action, open, runner>> /\ building' = building \ {d} /\ d \in building
      /\ Model!Forget(d)
    BY DEF Build, given
<1>2. action = "race" /\ OneForEach /\ runner # "begin"
    BY <1>1 DEF Timed, OneAfterAnother, OneForEach
<1>3. call'[d].at = "idle" /\ \A e \in Directions \ {d} : call'[e] = call[e]
    <2>1. Model!NoCall.at = "idle"
        BY SMT DEF Model!NoCall
    <2> QED
        BY <1>1, <2>1, Zenon DEF Model!Forget, StreamInv, CallsOK
<1>4. \A e \in Directions : Elapsed(e) <= Elapsed(e)'
    <2>1. \A e \in Directions : Taken(call[e]) \in Nat /\ Taken(call[e]) <= AllCalls
        BY TakenBounded DEF StreamInv, CallsOK
    <2> QED
        BY <1>1, <1>2, <1>3, <2>1, AttemptsAdd DEF Elapsed
<1>5. Cardinality(Used) <= Cardinality(Used') /\ Cardinality(Used) \in Nat /\ Cardinality(Used') \in Nat
    BY <1>4, UsedStays DEF StreamInv
<1>6. Spent' <= Cardinality(Used')
    <2>1. Spent' = Spent /\ Spent \in Int
        BY <1>1, TimeAssumption DEF Spent, StreamInv, Shapes
    <2> QED
        BY <1>2, <1>5, <2>1 DEF OneForEach
<1>7. Cardinality(Used)' = Cardinality(Used')
    OBVIOUS
<1> QED
    BY <1>1, <1>2, <1>3, <1>6, <1>7 DEF Timed, OneForEach

LEMMA TimedStep ==
    ASSUME IsFiniteSet(Directions), StreamInv, StreamInv', Timed, [Next]_vars PROVE Timed'
<1>1. CASE Send
    BY <1>1, TimedSend
<1>2. CASE Use \/ Elaborate
    BY <1>2, TimedUse
<1>3. CASE \E d \in Directions : Build(d)
    BY <1>3, TimedBuild
<1>4. CASE Tick
    BY <1>4, TimedTick
<1>5. CASE CallModel
    <2>1. UNCHANGED <<action, open, building, runner>> /\ Goes(Single) /\ runner \in {"call", "elaborate"}
        BY <1>5, SingleIsOne, CallGoes DEF CallModel, given, maker, StreamInv
    <2>2. action # "race"
        BY <2>1 DEF Timed, OneForEach
    <2> QED
        BY <2>1, <2>2, SingleIsOne, TimedCalls
<1>6. ASSUME NEW d \in Directions, BuildCalls(d) \/ ModelReplies(d) \/ ModelSilent(d)
      PROVE  Timed'
    <2>1. UNCHANGED <<action, open, building, runner>> /\ Goes(d)
        BY <1>6, CallGoes DEF BuildCalls, ModelReplies, ModelSilent, given, maker, StreamInv
    <2>2. d \in building \/ call[d].at # "idle"
        BY <1>6 DEF BuildCalls, ModelReplies, ModelSilent, Model!Reply, Model!Proceed, Model!TimeOut,
                    Model!Abandon, Model!Resume
    <2>3. /\ action = "race" => d \in building
          /\ action # "race" => d = Single /\ runner \in {"call", "elaborate"}
        BY <2>2 DEF Timed, OneForEach, OneAfterAnother
    <2> QED
        BY <2>1, <2>3, TimedCalls
<1>7. CASE Refused \/ Check \/ Fail \/ Gather \/ Gathered \/ Fallback
    <2>1. UNCHANGED <<action, open, call, building>> /\ runner \notin {"call", "elaborate"}
        BY <1>7 DEF Refused, Check, Fail, Gather, Gathered, Fallback, given, model, Sending
    <2>2. runner' # runner => runner' \notin {"begin", "call", "brief", "elaborate", "warn", "fallback"}
        BY <1>7, SMT DEF Refused, Check, Fail, Gather, Gathered, Fallback, GivesUp, Onward, Answer
    <2>3. action # "race" => \A d \in Directions : call[d].at = "idle"
        BY <2>1 DEF Timed, OneAfterAnother
    <2> QED
        BY <2>1, <2>2, <2>3, TimedElsewhere
<1>8. CASE Serve \/ Handler \/ ClientLeaves \/ UNCHANGED vars
    <2>1. UNCHANGED <<action, model, maker>>
        BY <1>8, Zenon DEF Serve, Forward, Settle, EmitReject, CheckContract, Store, Offer, Finish, Complete,
           Handler, HandlerClosed, HandlerCancelled, ClientLeaves, vars, given
    <2>2. UNCHANGED <<action, open, call, building, runner>>
        BY <2>1 DEF model, maker
    <2> QED
        BY <2>2, TimedElsewhere
<1> QED
    BY <1>1, <1>2, <1>3, <1>4, <1>5, <1>6, <1>7, <1>8 DEF Next, Runner, Builder

\* The time a run's calls take is that of all their requests at most.
TimeIsBounded == Spent <= Longest

\* Whatever the model does, a plan, build or revision takes the time of one call's requests,
\* or of two calls' for a team's plan; a race that of one call for each direction.
THEOREM CallsTakeBoundedTime == ASSUME IsFiniteSet(Directions) PROVE Spec => []TimeIsBounded
<1>1. Init => Timed
    <2> SUFFICES ASSUME Init PROVE Timed
        OBVIOUS
    <2>1. runner = "begin" /\ building = {} /\ open = WriteTimeout
        BY Zenon DEF Init
    <2>2. Spent = 0
        BY <2>1, TimeAssumption, SMT DEF Spent
    <2>3. \A d \in Directions : call[d].at = "idle"
        <3>1. Model!NoCall.at = "idle"
            BY SMT DEF Model!NoCall
        <3> QED
            BY <3>1, Zenon DEF Init, Model!CallInit
    <2>4. IsFiniteSet(Used) /\ Cardinality(Used) \in Nat
        <3>1. IsFiniteSet(Directions \X (1..AllCalls))
            BY SlotsFinite
        <3> QED
            BY <3>1, FS_Subset, FS_CardinalityType DEF Used
    <2>5. AllCalls \in Nat
        BY AttemptsAdd
    <2> QED
        BY <2>1, <2>2, <2>3, <2>4, <2>5, SingleIsOne DEF Timed, OneForEach, OneAfterAnother, Longest
<1>2. StreamInv /\ StreamInv' /\ Timed /\ [Next]_vars => Timed'
    BY TimedStep
<1>3. StreamInv /\ Timed => TimeIsBounded
    BY SpentBounded DEF TimeIsBounded
<1> QED
    BY <1>1, <1>2, <1>3, StreamHolds, PTL DEF Spec

\* So a connection that may be written to for longer can be written to throughout: what a
\* run tells after its model failed, it tells in time (the safety half of FallbackTold).
THEOREM LongConnectionsLast ==
    ASSUME IsFiniteSet(Directions),
           WriteTimeout > AllCalls + AllCalls,
           WriteTimeout > Cardinality(Directions) * AllCalls
    PROVE  Spec => [](open > 0)
<1>1. AllCalls \in Nat /\ Cardinality(Directions) * AllCalls \in Nat
    <2>1. AllCalls \in Nat /\ Cardinality(Directions) \in Nat
        BY AttemptsAdd, FS_CardinalityType
    <2> QED
        BY <2>1, SMT
<1>2. StreamInv /\ TimeIsBounded => open > 0
    BY <1>1, TimeAssumption DEF TimeIsBounded, Spent, Longest, StreamInv, Shapes
<1> QED
    BY <1>2, StreamHolds, CallsTakeBoundedTime, PTL
=============================================================================
