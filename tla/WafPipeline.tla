---------------------------- MODULE WafPipeline ----------------------------
(***************************************************************************)
(* The path of a request through a WAF worker: WAFMiddleware.dispatch of   *)
(* data_plane/proxy/middleware.py with the guard it asks first, the deep   *)
(* path it asks next, the forwarder, and the background task that counts   *)
(* the request in Redis and, for a block, logs it in PostgreSQL.           *)
(*                                                                         *)
(* The deep path is VerdictService, which Analyst implements.  The task is *)
(* detached with create_task: it runs while the response is on its way,    *)
(* nobody awaits it, and a worker that dies takes it along.                *)
(*                                                                         *)
(*   stage[r]     "scoring", "analyzing" and Exchange are the awaits of    *)
(*                dispatch; "dropped" died with its worker                 *)
(*   task[r]      the next command of the task of r: "total", "second",    *)
(*                "insert", then how it ended                              *)
(***************************************************************************)
EXTENDS VerdictService, Naturals, FiniteSets

CONSTANTS
    Scores,         \* the scores the model can give, as naturals
    EnvThreshold,   \* settings.sensitivity_threshold
    Saved           \* the thresholds an operator saves

ASSUME PipelineAssumption ==
    /\ IsFiniteSet(Requests)
    /\ Scores \subseteq Nat
    /\ EnvThreshold \in Nat
    /\ Saved \subseteq Nat

VARIABLES
    threshold,      \* _config["sensitivity_threshold"] of the worker
    stage,
    cutoff,         \* the threshold each request read on arrival
    score,          \* GuardResult.score
    response,       \* what the client got
    delivered,      \* the requests the upstream received
    task,
    counter,        \* the second counter each task increments
    stats,          \* cognithhorn:stats:* in Redis
    incidents       \* rows of the incidents table

requestVars == <<stage, cutoff, score, response, delivered>>
taskVars    == <<task, counter, stats, incidents>>
vars        == <<serviceVars, threshold, requestVars, taskVars>>

Clean         == "requests_clean"
FalsePositive == "false_positives_total"
Blocked       == "requests_blocked"
Total         == "requests_total"
Counters == {Total, Clean, FalsePositive, Blocked}

\* The environment gives a float; a published setting is a JSON string.
Float(n) == [type |-> "float", value |-> n]
Text(n)  == [type |-> "str", value |-> n]

InitPipeline ==
    /\ threshold = Float(EnvThreshold)
    /\ stage = [r \in Requests |-> "idle"]
    /\ cutoff = [r \in Requests |-> Float(EnvThreshold)]
    /\ score = [r \in Requests |-> 0]
    /\ response = [r \in Requests |-> None]
    /\ delivered = {}
    /\ task = [r \in Requests |-> None]
    /\ counter = [r \in Requests |-> None]
    /\ stats = [c \in Counters |-> 0]
    /\ incidents = {}

PipelineInit == Init /\ InitPipeline

Move(r, from, to) == stage[r] = from /\ stage' = [stage EXCEPT ![r] = to]

Incr(c) == stats' = [stats EXCEPT ![c] = @ + 1]

\* asyncio.create_task(...): the task starts with its first INCR.
CreateTask(r, c) ==
    /\ task' = [task EXCEPT ![r] = "total"]
    /\ counter' = [counter EXCEPT ![r] = c]
    /\ UNCHANGED <<stats, incidents>>

-----------------------------------------------------------------------------
\* The threshold is read before the inference is awaited.
Arrive(r) ==
    /\ Move(r, "idle", "scoring")
    /\ cutoff' = [cutoff EXCEPT ![r] = threshold]
    /\ UNCHANGED <<serviceVars, threshold, score, response, delivered, taskVars>>

\* The guard lets the request pass with score s.
GuardPasses(r, s) ==
    /\ Move(r, "scoring", "sending")
    /\ score' = [score EXCEPT ![r] = s]
    /\ CreateTask(r, Clean)
    /\ UNCHANGED <<serviceVars, threshold, cutoff, response, delivered>>

BelowCutoff(r, s) ==
    /\ cutoff[r].type = "float"
    /\ s < cutoff[r].value
    /\ GuardPasses(r, s)

\* Comparing a float with a str raises, and score() fails open.
CutoffNotANumber(r) ==
    /\ cutoff[r].type = "str"
    /\ GuardPasses(r, 0)

InferenceRaises(r) == GuardPasses(r, 0)

\* Mutant: the threshold is not respected by the guard.
SuspiciousAnyway(r, s, k) ==
    /\ Move(r, "scoring", "analyzing")
    /\ score' = [score EXCEPT ![r] = s]
    /\ Ask(r, k)
    /\ UNCHANGED <<threshold, cutoff, response, delivered, taskVars>>

Suspicious(r, s, k) ==
    /\ cutoff[r].type = "float"
    /\ s >= cutoff[r].value
    /\ Move(r, "scoring", "analyzing")
    /\ score' = [score EXCEPT ![r] = s]
    /\ Ask(r, k)
    /\ UNCHANGED <<threshold, cutoff, response, delivered, taskVars>>

\* The deep path hears from Gemini, then returns.  Its own count of fail-open
\* verdicts touches none of the counters below (Analyst has it).
DeepPathJudges(r) ==
    /\ \E a \in Answers : Judge(r, a)
    /\ UNCHANGED <<threshold, requestVars, taskVars>>

DeepPathReturns(r) ==
    /\ \/ \E a \in Answers : Return(r, a)
       \/ \E reason \in FailOpens : FailOpen(r, reason)
    /\ UNCHANGED <<threshold, requestVars, taskVars>>

NotAnAttack(r) ==
    /\ verdict[r] \in FailOpens \union {"benign"}
    /\ Move(r, "analyzing", "sending")
    /\ CreateTask(r, FalsePositive)
    /\ UNCHANGED <<serviceVars, threshold, cutoff, score, response, delivered>>

\* Mutant: the block is logged, then the request is forwarded all the same.
AttackForwarded(r) ==
    /\ verdict[r] = "attack"
    /\ Move(r, "analyzing", "sending")
    /\ response' = [response EXCEPT ![r] = "403"]
    /\ CreateTask(r, Blocked)
    /\ UNCHANGED <<serviceVars, threshold, cutoff, score, delivered>>

Attack(r) ==
    /\ verdict[r] = "attack"
    /\ Move(r, "analyzing", "responded")
    /\ response' = [response EXCEPT ![r] = "403"]
    /\ CreateTask(r, Blocked)
    /\ UNCHANGED <<serviceVars, threshold, cutoff, score, delivered>>

-----------------------------------------------------------------------------
\* forward(): one await, in which the request is handed over and the answer,
\* and that of the upstreams it redirects to, is read.
Exchange == {"sending", "waiting", "dripping"}

Deliver(r) ==
    /\ Move(r, "sending", "waiting")
    /\ delivered' = delivered \union {r}
    /\ UNCHANGED <<serviceVars, threshold, cutoff, score, response, taskVars>>

\* The upstream answers a piece at a time, each within the timeout.
UpstreamDrips(r) ==
    /\ Move(r, "waiting", "dripping")
    /\ UNCHANGED <<serviceVars, threshold, cutoff, score, response, delivered, taskVars>>

EndExchange(r) ==
    /\ stage[r] \in Exchange
    /\ stage' = [stage EXCEPT ![r] = "responded"]

Respond(r, code) ==
    /\ response' = [response EXCEPT ![r] = code]
    /\ UNCHANGED <<serviceVars, threshold, cutoff, score, delivered, taskVars>>

UpstreamAnswers(r) == stage[r] # "sending" /\ EndExchange(r) /\ Respond(r, "upstream")

\* A redirect may be what cannot be connected to (follow_redirects).
CannotConnect(r) == EndExchange(r) /\ Respond(r, "502")

\* Mutant: the timeout covers the connection only, not the answer.
UpstreamTimeoutConnect(r) ==
    /\ stage[r] = "sending"
    /\ EndExchange(r) /\ Respond(r, "504")

\* The timeout is one of each connect, write and read, not of the exchange:
\* it may run out at any of them.
UpstreamTimeout(r) == EndExchange(r) /\ Respond(r, "504")

\* Any other httpx error leaves dispatch: the server answers 500.
UpstreamBreaks(r) == EndExchange(r) /\ Respond(r, "500")

-----------------------------------------------------------------------------
(* The background task.  The pipeline is sent without MULTI: the INCRs of  *)
(* other tasks may come between its two.                                   *)

TaskStep(r, from, to) == task[r] = from /\ task' = [task EXCEPT ![r] = to]

\* Mutant: the first INCR of the pipeline is left out.
IncrTotalSkipped(r) ==
    /\ TaskStep(r, "total", "second")
    /\ UNCHANGED <<serviceVars, threshold, requestVars, counter, stats, incidents>>

IncrTotal(r) ==
    /\ TaskStep(r, "total", "second")
    /\ Incr(Total)
    /\ UNCHANGED <<serviceVars, threshold, requestVars, counter, incidents>>

IncrSecond(r) ==
    /\ TaskStep(r, "second", IF counter[r] = Blocked THEN "insert" ELSE "ended")
    /\ Incr(counter[r])
    /\ UNCHANGED <<serviceVars, threshold, requestVars, counter, incidents>>

\* Mutant: a pipeline that broke is sent again.
PipelineFailsRetrying(r) ==
    /\ TaskStep(r, "total", "uncounted") \/ TaskStep(r, "second", "total")
    /\ UNCHANGED <<serviceVars, threshold, requestVars, counter, stats, incidents>>

\* Mutant: the error of the pipeline is not caught.
PipelineFailsRaising(r) ==
    /\ TaskStep(r, "total", "raised") \/ TaskStep(r, "second", "raised")
    /\ UNCHANGED <<serviceVars, threshold, requestVars, counter, stats, incidents>>

\* The connection to Redis breaks: the except clause ends the task, and the
\* incident of a block is not logged.
PipelineFails(r) ==
    /\ TaskStep(r, "total", "uncounted") \/ TaskStep(r, "second", "uncounted")
    /\ UNCHANGED <<serviceVars, threshold, requestVars, counter, stats, incidents>>

InsertIncident(r) ==
    /\ TaskStep(r, "insert", "ended")
    /\ incidents' = incidents \union {r}
    /\ UNCHANGED <<serviceVars, threshold, requestVars, counter, stats>>

InsertFails(r) ==
    /\ TaskStep(r, "insert", "failed")
    /\ UNCHANGED <<serviceVars, threshold, requestVars, counter, stats, incidents>>

-----------------------------------------------------------------------------
\* config_subscriber applies a published setting, whose value is a string.
SetThreshold(n) ==
    /\ threshold' = Text(n)
    /\ UNCHANGED <<serviceVars, requestVars, taskVars>>

InFlight == {"scoring", "analyzing"} \union Exchange
Running  == {"total", "second", "insert"}

\* The worker dies and starts again from its environment.
Restart ==
    /\ threshold' = Float(EnvThreshold)
    /\ stage' = [r \in Requests |-> IF stage[r] \in InFlight THEN "dropped" ELSE stage[r]]
    /\ task' = [r \in Requests |-> IF task[r] \in Running THEN "lost" ELSE task[r]]
    /\ Lose({r \in Requests : Pending(r)})
    /\ UNCHANGED <<cutoff, score, response, delivered, counter, stats, incidents>>

Dispatch(r) ==
    \/ \E s \in Scores : BelowCutoff(r, s) \/ \E k \in Keys : Suspicious(r, s, k)
    \/ CutoffNotANumber(r) \/ InferenceRaises(r)
    \/ NotAnAttack(r) \/ Attack(r)

Forward(r) ==
    Deliver(r) \/ UpstreamDrips(r) \/ UpstreamAnswers(r) \/ CannotConnect(r)
        \/ UpstreamTimeout(r) \/ UpstreamBreaks(r)

Background(r) ==
    IncrTotal(r) \/ IncrSecond(r) \/ PipelineFails(r) \/ InsertIncident(r)
        \/ InsertFails(r)

PipelineNext ==
    \/ \E r \in Requests :
          \/ Arrive(r) \/ Dispatch(r) \/ DeepPathJudges(r) \/ DeepPathReturns(r)
          \/ Forward(r) \/ Background(r)
    \/ \E n \in Saved : SetThreshold(n)
    \/ Restart

PipelineSpec == PipelineInit /\ [][PipelineNext]_vars

\* A read of 30 s without a byte: an upstream that drips never gives one.
SilentTooLong(r) == stage[r] # "dripping" /\ UpstreamTimeout(r)

\* Inference ends, the deep path returns (Analyst!EveryCallReturns), httpx
\* times out, and Redis and PostgreSQL answer or refuse.  Nothing obliges
\* the upstream to answer, or to come to an end.
PipelineFairness ==
    \A r \in Requests :
        /\ WF_vars(Dispatch(r))
        /\ WF_vars(DeepPathReturns(r))
        /\ WF_vars(SilentTooLong(r))
        /\ WF_vars(Background(r))

FairPipelineSpec == PipelineSpec /\ PipelineFairness

-----------------------------------------------------------------------------
TypeOK ==
    /\ asked \in [Requests -> Keys \union {NoKey}]
    /\ said \in [Keys -> SUBSET Answers]
    /\ verdict \in [Requests -> Answers \union FailOpens \union {None, Lost}]
    /\ threshold \in [type : {"float", "str"}, value : Nat]
    /\ stage \in [Requests -> InFlight \union {"idle", "responded", "dropped"}]
    /\ cutoff \in [Requests -> [type : {"float", "str"}, value : Nat]]
    /\ score \in [Requests -> Nat]
    /\ response \in [Requests -> {None, "403", "upstream", "500", "502", "504"}]
    /\ delivered \in SUBSET Requests
    /\ task \in [Requests -> Running \union {None, "ended", "uncounted", "failed", "lost"}]
    /\ counter \in [Requests -> {None, Clean, FalsePositive, Blocked}]
    /\ stats \in [Counters -> Nat]
    /\ incidents \in SUBSET Requests

\* A client is refused only when both paths agree: the score reached the
\* cutoff in force on arrival, and Gemini called its payload an attack.
\* Whatever fails in between, the request passes (README.md:196).
BlockJustified ==
    \A r \in Requests :
        response[r] = "403" =>
            /\ cutoff[r].type = "float" /\ score[r] >= cutoff[r].value
            /\ asked[r] # NoKey /\ "attack" \in said[asked[r]]

\* The upstream never sees a blocked request (tests/test_proxy.py, test 3),
\* and PostgreSQL never sees any other (test 5), although the row is written
\* by a task nobody waits for.
BlockedOrDelivered ==
    \A r \in Requests :
        /\ response[r] = "403" => r \notin delivered
        /\ r \in incidents => response[r] = "403"

\* No reader of Redis sees more outcomes than requests, although pipelines
\* interleave and break off half way.
OutcomesWithinTotal ==
    stats[Clean] + stats[FalsePositive] + stats[Blocked] <= stats[Total]

\* Redis shows no more requests than arrived, and no more blocks than clients
\* that were refused, however pipelines break and workers die: what a broken
\* pipeline has counted already is not counted again (middleware.py:87, 123).
CountsAreHonest ==
    /\ stats[Total] <= Cardinality({r \in Requests : stage[r] # "idle"})
    /\ stats[Blocked] <= Cardinality({r \in Requests : response[r] = "403"})

\* Every request that arrives gets some response or dies with its worker,
\* however long the upstream is silent; but one whose upstream drips on may
\* be read for ever, as forwarder.py has no timeout for the whole exchange.
EveryRequestAnswered ==
    \A r \in Requests :
        stage[r] = "scoring" ~> stage[r] \in {"responded", "dropped", "dripping"}

-----------------------------------------------------------------------------
(* What the documents and tests say and the code does not do.              *)

\* tests/test_guard.py:153, "the sensitivity slider in the dashboard actually
\* works": a request that reaches the threshold is not passed by the guard,
\* unless inference failed.
SliderWorks ==
    [][\A r \in Requests, s \in Scores :
         CutoffNotANumber(r) => s < cutoff[r].value]_vars

\* README.md:190-191, "is_attack=true -> BLOCK 403" and "log to PostgreSQL":
\* a client that is refused has its row sooner or later, unless PostgreSQL
\* refuses the row itself or the worker dies first.
BlocksAreLogged ==
    \A r \in Requests :
        response[r] = "403" ~> r \in incidents \/ task[r] \in {"failed", "lost"}

=============================================================================
