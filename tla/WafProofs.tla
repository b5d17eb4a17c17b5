----------------------------- MODULE WafProofs -----------------------------
(***************************************************************************)
(* The path of a request, for any number of concurrent requests, setting   *)
(* changes, failures and restarts.  RequestInv says what a request has     *)
(* done at each of its awaits, which makes the properties of blocks        *)
(* inductive; CountInv gives the counters the tasks that are between two   *)
(* commands, which makes their inequalities inductive.                     *)
(***************************************************************************)
EXTENDS WafPipeline, FiniteSetTheorems, TLAPS

RequestInv(r) ==
    /\ stage[r] = "analyzing" =>
          /\ asked[r] # NoKey
          /\ cutoff[r].type = "float" /\ score[r] >= cutoff[r].value
    /\ verdict[r] \in Answers => asked[r] # NoKey /\ verdict[r] \in said[asked[r]]
    /\ response[r] # None => stage[r] = "responded"
    /\ response[r] = "403" =>
          /\ asked[r] # NoKey /\ "attack" \in said[asked[r]]
          /\ cutoff[r].type = "float" /\ score[r] >= cutoff[r].value
          /\ r \notin delivered
    /\ r \in delivered => stage[r] \in {"waiting", "dripping", "responded", "dropped"}
    /\ counter[r] = Blocked => response[r] = "403"
    /\ task[r] \in {"total", "second"} => counter[r] # None
    /\ task[r] = "insert" => counter[r] = Blocked
    /\ r \in incidents => response[r] = "403"

\* The tasks that have counted their request, and not yet its outcome.
Halfway == {r \in Requests : task[r] = "second"}

CountInv ==
    stats[Clean] + stats[FalsePositive] + stats[Blocked] + Cardinality(Halfway) <= stats[Total]

Inv == TypeOK /\ (\A r \in Requests : RequestInv(r)) /\ CountInv

\* The actions of one request that leave its background task alone.
Front(r) ==
    \/ Arrive(r)
    \/ \E s \in Scores, k \in Keys : Suspicious(r, s, k)
    \/ DeepPathJudges(r) \/ DeepPathReturns(r)
    \/ Forward(r)

\* The actions that create it.
Decides(r) ==
    \/ \E s \in Scores : BelowCutoff(r, s)
    \/ CutoffNotANumber(r) \/ InferenceRaises(r)
    \/ NotAnAttack(r) \/ Attack(r)

\* Every step is one of these.
LEMMA Steps ==
    ASSUME [PipelineNext]_vars
    PROVE  \/ \E r \in Requests : Front(r) \/ Decides(r) \/ Background(r)
           \/ \E n \in Saved : SetThreshold(n)
           \/ Restart
           \/ UNCHANGED vars
  BY DEF PipelineNext, Dispatch, Front, Decides

-----------------------------------------------------------------------------
\* Every step keeps the types.
LEMMA TypeStep == TypeOK /\ [PipelineNext]_vars => TypeOK'
<1> SUFFICES ASSUME TypeOK, [PipelineNext]_vars PROVE TypeOK'
  OBVIOUS
<1> USE PipelineAssumption
    DEF TypeOK, Answers, FailOpens, InFlight, Exchange, Running, Counters, Clean, FalsePositive,
        Blocked, Total, None, Lost, Move, requestVars, taskVars, serviceVars, Float, Text
<1>1. ASSUME NEW r \in Requests, Front(r) PROVE TypeOK'
  <2>1. CASE Arrive(r)
    BY <2>1 DEF Arrive
  <2>2. ASSUME NEW s \in Scores, NEW k \in Keys, Suspicious(r, s, k) PROVE TypeOK'
    BY <2>2 DEF Suspicious, Ask
  <2>3. CASE DeepPathJudges(r)
    BY <2>3 DEF DeepPathJudges, Judge, Pending
  <2>4. CASE DeepPathReturns(r)
    BY <2>4 DEF DeepPathReturns, Return, FailOpen
  <2>5. CASE Deliver(r) \/ UpstreamDrips(r)
    BY <2>5 DEF Deliver, UpstreamDrips
  <2>6. ASSUME NEW code \in {"upstream", "500", "502", "504"}, EndExchange(r) /\ Respond(r, code)
        PROVE  TypeOK'
    BY <2>6 DEF EndExchange, Respond
  <2>7. CASE UpstreamAnswers(r) \/ CannotConnect(r) \/ UpstreamTimeout(r) \/ UpstreamBreaks(r)
    BY <2>6, <2>7 DEF UpstreamAnswers, CannotConnect, UpstreamTimeout, UpstreamBreaks
  <2>. QED
    BY <1>1, <2>1, <2>2, <2>3, <2>4, <2>5, <2>7 DEF Front, Forward
<1>2. ASSUME NEW r \in Requests, Decides(r) PROVE TypeOK'
  <2>1. ASSUME NEW s \in Scores \union {0}, GuardPasses(r, s) PROVE TypeOK'
    <3>1. s \in Nat
      OBVIOUS
    <3>. QED
      BY <2>1, <3>1 DEF GuardPasses, CreateTask
  <2>2. ASSUME NotAnAttack(r) \/ Attack(r) PROVE TypeOK'
    BY <2>2 DEF NotAnAttack, Attack, CreateTask
  <2>. QED
    BY <1>2, <2>1, <2>2 DEF Decides, BelowCutoff, CutoffNotANumber, InferenceRaises
<1>3. ASSUME NEW r \in Requests, Background(r) PROVE TypeOK'
  <2>1. ASSUME NEW c, Incr(c) PROVE stats' \in [Counters -> Nat]
    <3>1. \A d \in Counters : stats'[d] \in Nat
      BY <2>1 DEF Incr
    <3>. QED
      BY <2>1, <3>1 DEF Incr
  <2>2. CASE IncrTotal(r) \/ IncrSecond(r)
    BY <2>1, <2>2 DEF IncrTotal, IncrSecond, TaskStep
  <2>3. CASE PipelineFails(r) \/ InsertIncident(r) \/ InsertFails(r)
    BY <2>3 DEF PipelineFails, InsertIncident, InsertFails, TaskStep
  <2>. QED
    BY <1>3, <2>2, <2>3 DEF Background
<1>4. ASSUME NEW n \in Saved, SetThreshold(n) PROVE TypeOK'
  BY <1>4 DEF SetThreshold
<1>5. CASE Restart
  BY <1>5 DEF Restart, Lose
<1>6. CASE UNCHANGED vars
  BY <1>6 DEF vars
<1>. QED
  BY <1>1, <1>2, <1>3, <1>4, <1>5, <1>6, Steps

-----------------------------------------------------------------------------
\* No other request is touched by what one request does; what Gemini has said
\* stays said.
LEMMA OtherRequests ==
    ASSUME Inv, NEW r \in Requests, Front(r) \/ Decides(r) \/ Background(r),
           NEW q \in Requests, q # r
    PROVE  RequestInv(q)'
<1> USE DEF Inv, TypeOK, Move, requestVars, taskVars, serviceVars
<1>1. /\ stage'[q] = stage[q] /\ cutoff'[q] = cutoff[q] /\ score'[q] = score[q]
      /\ response'[q] = response[q] /\ (q \in delivered' <=> q \in delivered)
      /\ asked'[q] = asked[q] /\ verdict'[q] = verdict[q]
  <2>1. CASE Front(r)
    BY <2>1 DEF Front, Arrive, Suspicious, Ask, DeepPathJudges, Judge, DeepPathReturns, Return,
                FailOpen, Forward, Deliver, Respond, UpstreamAnswers, CannotConnect,
                UpstreamTimeout, UpstreamBreaks,
                UpstreamDrips, EndExchange, Exchange
  <2>2. CASE Decides(r)
    BY <2>2 DEF Decides, BelowCutoff, CutoffNotANumber, InferenceRaises, GuardPasses,
                NotAnAttack, Attack
  <2>3. CASE Background(r)
    BY <2>3 DEF Background, IncrTotal, IncrSecond, PipelineFails, InsertIncident, InsertFails
  <2>. QED
    BY <2>1, <2>2, <2>3
<1>2. task'[q] = task[q] /\ counter'[q] = counter[q] /\ (q \in incidents' <=> q \in incidents)
  <2>1. CASE Front(r)
    BY <2>1 DEF Front, Arrive, Suspicious, DeepPathJudges, DeepPathReturns, Forward, Deliver,
                Respond, UpstreamAnswers, CannotConnect, UpstreamTimeout, UpstreamBreaks,
                UpstreamDrips, EndExchange, Exchange
  <2>2. CASE Decides(r)
    BY <2>2 DEF Decides, BelowCutoff, CutoffNotANumber, InferenceRaises, GuardPasses,
                NotAnAttack, Attack, CreateTask
  <2>3. CASE Background(r)
    BY <2>3 DEF Background, IncrTotal, IncrSecond, PipelineFails, InsertIncident, InsertFails,
                TaskStep
  <2>. QED
    BY <2>1, <2>2, <2>3
<1>3. \A k \in Keys : said[k] \subseteq said'[k]
  BY DEF Front, Arrive, Suspicious, Ask, DeepPathJudges, Judge, Pending, DeepPathReturns, Return,
         FailOpen, Forward, Deliver, Respond, UpstreamAnswers, CannotConnect, UpstreamTimeout,
         UpstreamBreaks,
         UpstreamDrips, EndExchange, Exchange, Decides, BelowCutoff, CutoffNotANumber,
         InferenceRaises, GuardPasses,
         NotAnAttack, Attack, Background, IncrTotal, IncrSecond, PipelineFails, InsertIncident,
         InsertFails
<1>. QED
  BY <1>1, <1>2, <1>3 DEF RequestInv

\* What a request does keeps its own invariant.
LEMMA ThisRequest ==
    ASSUME Inv, NEW r \in Requests, Front(r) \/ Decides(r) \/ Background(r)
    PROVE  RequestInv(r)'
<1> USE KeysAssumption
    DEF Inv, TypeOK, RequestInv, Move, requestVars, taskVars, serviceVars, Answers, FailOpens,
        InFlight, Exchange, Running, Clean, FalsePositive, Blocked, None, Lost
<1>1. CASE Arrive(r)
  BY <1>1 DEF Arrive
<1>2. ASSUME NEW s \in Scores, NEW k \in Keys, Suspicious(r, s, k) PROVE RequestInv(r)'
  <2>1. score' = [score EXCEPT ![r] = s] /\ s >= cutoff[r].value /\ cutoff[r].type = "float"
    BY <1>2 DEF Suspicious
  <2>. QED
    BY <1>2, <2>1 DEF Suspicious, Ask
<1>3. CASE DeepPathJudges(r)
  BY <1>3 DEF DeepPathJudges, Judge, Pending
<1>4. CASE DeepPathReturns(r)
  BY <1>4 DEF DeepPathReturns, Return, FailOpen, Pending
<1>5. CASE Forward(r)
  BY <1>5 DEF Forward, Deliver, Respond, UpstreamAnswers, CannotConnect, UpstreamTimeout,
              UpstreamBreaks,
              UpstreamDrips, EndExchange, Exchange
<1>6. ASSUME NEW s \in Scores \union {0}, GuardPasses(r, s) PROVE RequestInv(r)'
  BY <1>6 DEF GuardPasses, CreateTask
<1>7. CASE NotAnAttack(r)
  BY <1>7 DEF NotAnAttack, CreateTask
<1>8. CASE Attack(r)
  BY <1>8 DEF Attack, CreateTask
<1>9. CASE Background(r)
  BY <1>9 DEF Background, TaskStep, IncrTotal, IncrSecond, PipelineFails, InsertIncident,
              InsertFails
<1>. QED
  BY <1>1, <1>2, <1>3, <1>4, <1>5, <1>6, <1>7, <1>8, <1>9
     DEF Front, Decides, BelowCutoff, CutoffNotANumber, InferenceRaises

\* A saved setting or a restart takes back nothing that was done.
LEMMA WorkerStep ==
    ASSUME Inv, Restart \/ \E n \in Saved : SetThreshold(n), NEW r \in Requests
    PROVE  RequestInv(r)'
<1> USE DEF Inv, TypeOK, RequestInv, requestVars, taskVars, serviceVars
<1>1. CASE Restart
  BY <1>1 DEF Restart, Lose, Pending, InFlight, Exchange, Running, Answers, None, Lost
<1>2. CASE \E n \in Saved : SetThreshold(n)
  BY <1>2 DEF SetThreshold
<1>. QED
  BY <1>1, <1>2

-----------------------------------------------------------------------------
\* A set that gains at most one member grows by at most one.
LEMMA AtMostOneMore ==
    ASSUME NEW S, IsFiniteSet(S), NEW T, NEW x, T \subseteq S \union {x}
    PROVE  IsFiniteSet(T) /\ Cardinality(T) <= Cardinality(S) + 1
<1>1. IsFiniteSet(S \union {x}) /\ Cardinality(S \union {x}) <= Cardinality(S) + 1
  <2>1. Cardinality(S) \in Nat
    BY FS_CardinalityType
  <2>2. IsFiniteSet(S \union {x})
        /\ Cardinality(S \union {x}) = IF x \in S THEN Cardinality(S) ELSE Cardinality(S) + 1
    BY FS_AddElement
  <2>. QED
    BY <2>1, <2>2
<1>2. Cardinality(T) \in Nat /\ Cardinality(S) \in Nat /\ Cardinality(S \union {x}) \in Nat
  BY <1>1, FS_Subset, FS_CardinalityType
<1>3. Cardinality(T) <= Cardinality(S \union {x}) /\ IsFiniteSet(T)
  BY <1>1, FS_Subset
<1>. QED
  BY <1>1, <1>2, <1>3

\* Counters and tasks: a request is in the total before its outcome is
\* counted.
LEMMA CountStep == Inv /\ [PipelineNext]_vars => CountInv'
<1> SUFFICES ASSUME Inv, [PipelineNext]_vars PROVE CountInv'
  OBVIOUS
<1> USE DEF Inv, CountInv
<1>1. IsFiniteSet(Halfway) /\ Cardinality(Halfway) \in Nat
  <2>1. Halfway \subseteq Requests
    BY DEF Halfway
  <2>. QED
    BY <2>1, PipelineAssumption, FS_Subset, FS_CardinalityType
<1>2. stats \in [Counters -> Nat]
  BY DEF TypeOK
<1>3. ASSUME UNCHANGED stats, Halfway' \subseteq Halfway PROVE CountInv'
  <2>1. Cardinality(Halfway') <= Cardinality(Halfway) /\ Cardinality(Halfway') \in Nat
    BY <1>1, <1>3, FS_Subset, FS_CardinalityType
  <2>2. \A c \in Counters : stats'[c] = stats[c] /\ stats[c] \in Nat
    BY <1>2, <1>3
  <2>. QED
    BY <1>1, <2>1, <2>2 DEF Counters
<1>4. ASSUME NEW r \in Requests, Front(r) \/ Decides(r) PROVE CountInv'
  <2>1. UNCHANGED stats
    BY <1>4 DEF Front, Arrive, Suspicious, DeepPathJudges, DeepPathReturns, Forward, Deliver,
                Respond, UpstreamAnswers, CannotConnect, UpstreamTimeout, UpstreamBreaks,
                UpstreamDrips, EndExchange, Exchange, Decides,
                BelowCutoff, CutoffNotANumber, InferenceRaises, GuardPasses, NotAnAttack, Attack,
                CreateTask, taskVars
  <2>2. task' = task \/ task' = [task EXCEPT ![r] = "total"]
    BY <1>4 DEF Front, Arrive, Suspicious, DeepPathJudges, DeepPathReturns, Forward, Deliver,
                Respond, UpstreamAnswers, CannotConnect, UpstreamTimeout, UpstreamBreaks,
                UpstreamDrips, EndExchange, Exchange, Decides,
                BelowCutoff, CutoffNotANumber, InferenceRaises, GuardPasses, NotAnAttack, Attack,
                CreateTask, taskVars
  <2>. QED
    BY <1>3, <2>1, <2>2 DEF Halfway, TypeOK
<1>5. ASSUME NEW r \in Requests, IncrTotal(r) PROVE CountInv'
  <2>1. /\ task[r] = "total" /\ task' = [task EXCEPT ![r] = "second"]
        /\ stats' = [stats EXCEPT ![Total] = @ + 1]
    BY <1>5 DEF IncrTotal, TaskStep, Incr
  <2>2. Halfway' \subseteq Halfway \union {r}
    BY <2>1 DEF Halfway, TypeOK
  <2>3. Cardinality(Halfway') <= Cardinality(Halfway) + 1 /\ Cardinality(Halfway') \in Nat
    BY <1>1, <2>2, AtMostOneMore, FS_CardinalityType
  <2>. QED
    BY <1>1, <1>2, <2>1, <2>2, <2>3 DEF Counters, Clean, FalsePositive, Blocked, Total
<1>6. ASSUME NEW r \in Requests, IncrSecond(r) PROVE CountInv'
  <2>1. /\ task[r] = "second"
        /\ task' = [task EXCEPT ![r] = IF counter[r] = Blocked THEN "insert" ELSE "ended"]
        /\ stats' = [stats EXCEPT ![counter[r]] = @ + 1]
    BY <1>6 DEF IncrSecond, TaskStep, Incr
  <2>2. counter[r] \in {Clean, FalsePositive, Blocked}
    BY <2>1 DEF RequestInv, TypeOK, None
  <2>3. Halfway' = Halfway \ {r} /\ r \in Halfway
    BY <2>1 DEF Halfway, TypeOK
  <2>4. Cardinality(Halfway') = Cardinality(Halfway) - 1
    BY <1>1, <2>3, FS_RemoveElement
  <2>. QED
    BY <1>1, <1>2, <2>1, <2>2, <2>4 DEF Counters, Clean, FalsePositive, Blocked, Total
<1>7. ASSUME NEW r \in Requests, PipelineFails(r) \/ InsertIncident(r) \/ InsertFails(r)
      PROVE  CountInv'
  <2>1. UNCHANGED stats
    BY <1>7 DEF PipelineFails, InsertIncident, InsertFails
  <2>2. Halfway' \subseteq Halfway
    BY <1>7 DEF PipelineFails, InsertIncident, InsertFails, TaskStep, Halfway, TypeOK
  <2>. QED
    BY <1>3, <2>1, <2>2
<1>8. ASSUME Restart \/ UNCHANGED vars \/ \E n \in Saved : SetThreshold(n) PROVE CountInv'
  <2>1. UNCHANGED stats
    BY <1>8 DEF Restart, SetThreshold, vars, taskVars
  <2>2. Halfway' \subseteq Halfway
    BY <1>8 DEF Restart, SetThreshold, vars, taskVars, Halfway, TypeOK, Running
  <2>. QED
    BY <1>3, <2>1, <2>2
<1>. QED
  BY <1>4, <1>5, <1>6, <1>7, <1>8, Steps DEF Background

-----------------------------------------------------------------------------
\* Inv is the inductive invariant of WafPipeline.
THEOREM Invariance == PipelineSpec => []Inv
<1>1. PipelineInit => Inv
  <2> SUFFICES ASSUME PipelineInit PROVE Inv
    OBVIOUS
  <2> USE PipelineAssumption, KeysAssumption DEF PipelineInit, Init, InitPipeline
  <2>1. TypeOK
    BY DEF TypeOK, Float, Counters, None, InFlight, Exchange, Running
  <2>2. ASSUME NEW r \in Requests PROVE RequestInv(r)
    BY DEF RequestInv, None, Answers, Blocked
  <2>3. Halfway = {}
    BY DEF Halfway, None
  <2>4. CountInv
    BY <2>3, FS_EmptySet DEF CountInv, Counters
  <2>. QED
    BY <2>1, <2>2, <2>4 DEF Inv
<1>2. Inv /\ [PipelineNext]_vars => Inv'
  <2> SUFFICES ASSUME Inv, [PipelineNext]_vars PROVE Inv'
    OBVIOUS
  <2>1. TypeOK' /\ CountInv'
    BY TypeStep, CountStep DEF Inv
  <2>2. ASSUME NEW q \in Requests PROVE RequestInv(q)'
    <3>1. ASSUME NEW r \in Requests, Front(r) \/ Decides(r) \/ Background(r) PROVE RequestInv(q)'
      BY <3>1, ThisRequest, OtherRequests
    <3>2. CASE Restart \/ \E n \in Saved : SetThreshold(n)
      BY <3>2, WorkerStep
    <3>3. CASE UNCHANGED vars
      BY <3>3 DEF vars, serviceVars, requestVars, taskVars, Inv, RequestInv
    <3>. QED
      BY <3>1, <3>2, <3>3, Steps
  <2>. QED
    BY <2>1, <2>2 DEF Inv
<1>. QED
  BY <1>1, <1>2, PTL DEF PipelineSpec

\* Type correctness of the request path.
THEOREM TypeCorrect == PipelineSpec => []TypeOK
<1>1. Inv => TypeOK
  BY DEF Inv
<1>. QED
  BY <1>1, Invariance, PTL

\* A client is refused only when both paths agreed, whatever settings change,
\* parts fail and workers restart in between.
THEOREM BlocksAreJustified == PipelineSpec => []BlockJustified
<1>1. Inv => BlockJustified
  BY DEF Inv, RequestInv, BlockJustified
<1>. QED
  BY <1>1, Invariance, PTL

\* No blocked request reaches the upstream, and no other one is logged.
THEOREM BlockedAreNotDelivered == PipelineSpec => []BlockedOrDelivered
<1>1. Inv => BlockedOrDelivered
  <2>1. ASSUME NEW r \in Requests, RequestInv(r)
        PROVE  /\ response[r] = "403" => r \notin delivered
               /\ r \in incidents => response[r] = "403"
    BY <2>1 DEF RequestInv
  <2>. QED
    BY <2>1, Zenon DEF Inv, BlockedOrDelivered
<1>. QED
  BY <1>1, Invariance, PTL

\* Redis never shows more outcomes than requests.
THEOREM OutcomesAreCounted == PipelineSpec => []OutcomesWithinTotal
<1>1. Inv => OutcomesWithinTotal
  <2> SUFFICES ASSUME Inv PROVE OutcomesWithinTotal
    OBVIOUS
  <2>1. Cardinality(Halfway) \in Nat
    BY PipelineAssumption, FS_Subset, FS_CardinalityType DEF Halfway
  <2>2. \A c \in Counters : stats[c] \in Nat
    BY DEF Inv, TypeOK
  <2>. QED
    BY <2>1, <2>2 DEF Inv, CountInv, OutcomesWithinTotal, Counters
<1>. QED
  BY <1>1, Invariance, PTL

\* A client gets one response: nothing that ends late, the upstream's answer,
\* its timeout or a restart, replaces the one it got.
AnsweredOnce ==
    [][\A r \in Requests : response[r] # None => response'[r] = response[r]]_vars

\* dispatch answers each request once.
THEOREM ResponsesAreFinal == PipelineSpec => AnsweredOnce
<1>1. Inv /\ [PipelineNext]_vars =>
        [\A r \in Requests : response[r] # None => response'[r] = response[r]]_vars
  <2> SUFFICES ASSUME Inv, [PipelineNext]_vars, NEW r \in Requests, response[r] # None
               PROVE  response'[r] = response[r]
    OBVIOUS
  <2> USE DEF Inv, TypeOK, RequestInv, Move, requestVars
  <2>1. stage[r] = "responded"
    OBVIOUS
  <2>2. ASSUME NEW q \in Requests, Front(q) PROVE response'[r] = response[r]
    BY <2>1, <2>2 DEF Front, Arrive, Suspicious, DeepPathJudges, DeepPathReturns, Forward,
                Deliver, Respond, UpstreamAnswers, CannotConnect, UpstreamTimeout, UpstreamBreaks,
                UpstreamDrips, EndExchange, Exchange
  <2>3. ASSUME NEW q \in Requests, Decides(q) PROVE response'[r] = response[r]
    BY <2>1, <2>3 DEF Decides, BelowCutoff, CutoffNotANumber, InferenceRaises, GuardPasses,
                NotAnAttack, Attack
  <2>4. ASSUME NEW q \in Requests, Background(q) PROVE response'[r] = response[r]
    BY <2>4 DEF Background, IncrTotal, IncrSecond, PipelineFails, InsertIncident, InsertFails
  <2>5. CASE Restart \/ UNCHANGED vars \/ \E n \in Saved : SetThreshold(n)
    BY <2>5 DEF Restart, SetThreshold, vars
  <2>. QED
    BY <2>2, <2>3, <2>4, <2>5, Steps
<1>. QED
  BY <1>1, Invariance, PTL DEF PipelineSpec, AnsweredOnce

-----------------------------------------------------------------------------
(* What is behind a request when it is counted or taken to the deep path.  *)

Behind(r) ==
    /\ task[r] # None => stage[r] \notin {"idle", "scoring", "analyzing"}
    /\ asked[r] # NoKey =>
          /\ stage[r] \notin {"idle", "scoring"}
          /\ cutoff[r].type = "float" /\ score[r] >= cutoff[r].value

AllBehind == \A r \in Requests : Behind(r)

\* Every step keeps what is behind a request.
LEMMA BehindStep == TypeOK /\ AllBehind /\ [PipelineNext]_vars => AllBehind'
<1> SUFFICES ASSUME TypeOK, \A r \in Requests : Behind(r), [PipelineNext]_vars,
                    NEW r \in Requests
             PROVE  Behind(r)'
  BY DEF AllBehind
<1> USE DEF TypeOK, Behind, Move, requestVars, taskVars, serviceVars
<1>1. ASSUME NEW q \in Requests, Front(q) PROVE Behind(r)'
  <2>1. ASSUME NEW s \in Scores, NEW k \in Keys, Suspicious(q, s, k) PROVE Behind(r)'
    <3>1. /\ score' = [score EXCEPT ![q] = s] /\ s >= cutoff[q].value
          /\ cutoff[q].type = "float" /\ cutoff' = cutoff /\ task' = task
          /\ stage[q] = "scoring" /\ stage' = [stage EXCEPT ![q] = "analyzing"]
      BY <2>1 DEF Suspicious
    <3>2. asked' = [asked EXCEPT ![q] = k]
      BY <2>1 DEF Suspicious, Ask
    <3>. QED
      BY <3>1, <3>2
  <2>2. CASE Arrive(q) \/ DeepPathJudges(q) \/ DeepPathReturns(q)
    BY <2>2 DEF Arrive, DeepPathJudges, Judge, DeepPathReturns, Return, FailOpen
  <2>3. CASE Forward(q)
    BY <2>3 DEF Forward, Deliver, Respond, UpstreamAnswers, CannotConnect, UpstreamTimeout,
                UpstreamBreaks,
                UpstreamDrips, EndExchange, Exchange
  <2>. QED
    BY <1>1, <2>1, <2>2, <2>3 DEF Front
<1>2. ASSUME NEW q \in Requests, Decides(q) PROVE Behind(r)'
  <2>1. /\ task' = [task EXCEPT ![q] = "total"] /\ UNCHANGED <<asked, cutoff>>
        /\ \E to \in {"sending", "responded"} : stage' = [stage EXCEPT ![q] = to]
    BY <1>2 DEF Decides, BelowCutoff, CutoffNotANumber, InferenceRaises, GuardPasses,
                NotAnAttack, Attack, CreateTask
  <2>2. score' = score \/ (stage[q] = "scoring" /\ \E s : score' = [score EXCEPT ![q] = s])
    BY <1>2 DEF Decides, BelowCutoff, CutoffNotANumber, InferenceRaises, GuardPasses,
                NotAnAttack, Attack
  <2>. QED
    BY <2>1, <2>2
<1>3. ASSUME NEW q \in Requests, Background(q) PROVE Behind(r)'
  BY <1>3 DEF Background, TaskStep, IncrTotal, IncrSecond, PipelineFails, InsertIncident,
              InsertFails, None
<1>4. CASE Restart
  BY <1>4 DEF Restart, Lose, InFlight, Exchange, Running, None
<1>5. CASE UNCHANGED vars \/ \E n \in Saved : SetThreshold(n)
  BY <1>5 DEF SetThreshold, vars
<1>. QED
  BY <1>1, <1>2, <1>3, <1>4, <1>5, Steps

\* A request is counted after its decision, and asked about after its score.
LEMMA AlwaysBehind == PipelineSpec => [](TypeOK /\ AllBehind)
<1>1. PipelineInit => AllBehind
  <2>1. ASSUME PipelineInit, NEW r \in Requests PROVE Behind(r)
    BY <2>1 DEF PipelineInit, Init, InitPipeline, Behind
  <2>. QED
    BY <2>1, Zenon DEF AllBehind
<1>. QED
  BY <1>1, BehindStep, TypeCorrect, PTL DEF PipelineSpec

\* A request that arrives under a saved threshold is never judged: the guard
\* passes it, the deep path is not asked, and it is neither refused nor
\* logged.  Only a restart of the worker arms it again.
Disarmed ==
    \A r \in Requests :
        cutoff[r].type = "str" =>
            asked[r] = NoKey /\ response[r] # "403" /\ r \notin incidents

\* What a saved threshold does to middleware.py and guard.py, whatever scores
\* and thresholds there are.
THEOREM SavedThresholdDisarms == PipelineSpec => []Disarmed
<1>1. Inv /\ AllBehind => Disarmed
  BY DEF Inv, RequestInv, AllBehind, Behind, Disarmed
<1>. QED
  BY <1>1, Invariance, AlwaysBehind, PTL

-----------------------------------------------------------------------------
(* Redis against the clients.  A task leaves "total" and "second" for good *)
(* and a request has one task, so the counters are bounded by the tasks    *)
(* that are past these commands.                                           *)

Counted      == {r \in Requests : task[r] \notin {None, "total"}}
BlockCounted == {r \in Requests : task[r] \notin {None, "total", "second"} /\ counter[r] = Blocked}

TallyInv ==
    /\ stats[Total] <= Cardinality(Counted)
    /\ stats[Blocked] <= Cardinality(BlockCounted)

\* Whoever is counted stays counted.
LEMMA StaysCounted ==
    ASSUME TypeOK, AllBehind, [PipelineNext]_vars
    PROVE  Counted \subseteq Counted' /\ BlockCounted \subseteq BlockCounted'
<1> SUFFICES \A r \in Requests : task[r] \notin {None, "total"} =>
                /\ task'[r] \notin {None, "total"} /\ counter'[r] = counter[r]
                /\ task[r] # "second" => task'[r] # "second"
  BY DEF Counted, BlockCounted
<1> SUFFICES ASSUME NEW r \in Requests, task[r] \notin {None, "total"}
             PROVE  /\ task'[r] \notin {None, "total"} /\ counter'[r] = counter[r]
                    /\ task[r] # "second" => task'[r] # "second"
  OBVIOUS
<1> USE DEF TypeOK, taskVars
<1>1. ASSUME NEW q \in Requests, Front(q) PROVE UNCHANGED <<task, counter>>
  BY <1>1 DEF Front, Arrive, Suspicious, DeepPathJudges, DeepPathReturns, Forward, Deliver,
              Respond, UpstreamAnswers, CannotConnect, UpstreamTimeout, UpstreamBreaks,
              UpstreamDrips, EndExchange, Exchange
<1>2. ASSUME NEW q \in Requests, Decides(q)
      PROVE  q # r /\ task'[r] = task[r] /\ counter'[r] = counter[r]
  <2>1. stage[q] \in {"scoring", "analyzing"} /\ \E c : CreateTask(q, c)
    BY <1>2 DEF Decides, BelowCutoff, CutoffNotANumber, InferenceRaises, GuardPasses,
                NotAnAttack, Attack, Move
  <2>2. q # r
    BY <2>1 DEF AllBehind, Behind
  <2>. QED
    BY <2>1, <2>2 DEF CreateTask
<1>3. ASSUME NEW q \in Requests, Background(q)
      PROVE  /\ counter' = counter
             /\ task'[q] \notin {None, "total"}
             /\ task[q] = "total" \/ task'[q] # "second"
             /\ r # q => task'[r] = task[r]
  BY <1>3 DEF Background, TaskStep, IncrTotal, IncrSecond, PipelineFails, InsertIncident,
              InsertFails, None
<1>4. CASE Restart
  BY <1>4 DEF Restart, None
<1>5. CASE UNCHANGED vars \/ \E n \in Saved : SetThreshold(n)
  BY <1>5 DEF SetThreshold, vars
<1>. QED
  BY <1>1, <1>2, <1>3, <1>4, <1>5, Steps

\* A counter that grows by one with a set that gains a member.
LEMMA GrowsAlong ==
    ASSUME NEW S, IsFiniteSet(S), NEW T, IsFiniteSet(T), NEW x \in T, x \notin S, S \subseteq T,
           NEW n \in Nat, n <= Cardinality(S)
    PROVE  n + 1 <= Cardinality(T)
<1>1. IsFiniteSet(S \union {x}) /\ Cardinality(S \union {x}) = Cardinality(S) + 1
  BY FS_AddElement
<1>2. Cardinality(S \union {x}) <= Cardinality(T)
  BY <1>1, FS_Subset
<1>3. Cardinality(S) \in Nat /\ Cardinality(T) \in Nat
  BY FS_CardinalityType
<1>. QED
  BY <1>1, <1>2, <1>3

\* Every step keeps the counters within the tasks that are past them.
LEMMA TallyStep ==
    ASSUME TypeOK, AllBehind, TallyInv, [PipelineNext]_vars, TypeOK'
    PROVE  TallyInv'
<1>1. /\ Counted \subseteq Counted' /\ BlockCounted \subseteq BlockCounted'
      /\ Counted' \subseteq Requests /\ BlockCounted' \subseteq Requests
  BY StaysCounted DEF Counted, BlockCounted
<1>2. /\ IsFiniteSet(Counted) /\ IsFiniteSet(Counted')
      /\ IsFiniteSet(BlockCounted) /\ IsFiniteSet(BlockCounted')
  BY <1>1, PipelineAssumption, FS_Subset
<1>3. /\ Cardinality(Counted) <= Cardinality(Counted')
      /\ Cardinality(BlockCounted) <= Cardinality(BlockCounted')
  BY <1>1, <1>2, FS_Subset
<1>4. /\ Cardinality(Counted) \in Nat /\ Cardinality(Counted') \in Nat
      /\ Cardinality(BlockCounted) \in Nat /\ Cardinality(BlockCounted') \in Nat
  BY <1>2, FS_CardinalityType
<1>5. /\ stats \in [Counters -> Nat] /\ stats[Total] \in Nat /\ stats[Blocked] \in Nat
      /\ stats[Total] <= Cardinality(Counted) /\ stats[Blocked] <= Cardinality(BlockCounted)
  BY DEF TypeOK, Counters, TallyInv
<1>6. CASE stats'[Total] = stats[Total] /\ stats'[Blocked] = stats[Blocked]
  BY <1>3, <1>4, <1>5, <1>6 DEF TallyInv
<1>7. ASSUME NEW r \in Requests, IncrTotal(r) PROVE TallyInv'
  <2>1. /\ r \in Counted' /\ r \notin Counted
        /\ stats'[Total] = stats[Total] + 1 /\ stats'[Blocked] = stats[Blocked]
    BY <1>5, <1>7 DEF IncrTotal, TaskStep, Incr, Counted, TypeOK, None, Counters, Total, Blocked
  <2>2. stats[Total] + 1 <= Cardinality(Counted')
    BY <1>1, <1>2, <1>5, <2>1, GrowsAlong
  <2>. QED
    BY <1>3, <1>4, <1>5, <2>1, <2>2 DEF TallyInv
<1>8. ASSUME NEW r \in Requests, IncrSecond(r), counter[r] = Blocked PROVE TallyInv'
  <2>1. /\ r \in BlockCounted' /\ r \notin BlockCounted
        /\ stats'[Blocked] = stats[Blocked] + 1 /\ stats'[Total] = stats[Total]
    BY <1>5, <1>8 DEF IncrSecond, TaskStep, Incr, BlockCounted, TypeOK, None, Counters, Total,
                      Blocked
  <2>2. stats[Blocked] + 1 <= Cardinality(BlockCounted')
    BY <1>1, <1>2, <1>5, <2>1, GrowsAlong
  <2>. QED
    BY <1>3, <1>4, <1>5, <2>1, <2>2 DEF TallyInv
<1>9. ASSUME NEW r \in Requests, IncrSecond(r), counter[r] # Blocked
      PROVE stats'[Total] = stats[Total] /\ stats'[Blocked] = stats[Blocked]
  <2>1. counter[r] \in {None, Clean, FalsePositive}
    BY <1>9 DEF TypeOK
  <2>. QED
    BY <1>5, <1>9, <2>1
       DEF IncrSecond, Incr, None, Clean, FalsePositive, Counters, Total, Blocked
<1>10. stats' = stats \/ \E r \in Requests : IncrTotal(r) \/ IncrSecond(r)
  BY Steps DEF Front, Arrive, Suspicious, DeepPathJudges, DeepPathReturns, Forward, Deliver,
       Respond, UpstreamAnswers, CannotConnect, UpstreamTimeout, UpstreamBreaks,
       UpstreamDrips, EndExchange, Exchange, Decides,
       BelowCutoff, CutoffNotANumber, InferenceRaises, GuardPasses, NotAnAttack, Attack,
       CreateTask, Background, PipelineFails, InsertIncident, InsertFails, SetThreshold,
       Restart, vars, taskVars
<1>. QED
  BY <1>6, <1>7, <1>8, <1>9, <1>10

\* _increment_counters and _log_blocked never count a request twice.
THEOREM CountsHonest == PipelineSpec => []CountsAreHonest
<1> DEFINE B == TypeOK /\ AllBehind
<1>1. PipelineInit => TallyInv
  <2> SUFFICES ASSUME PipelineInit PROVE TallyInv
    OBVIOUS
  <2>1. Counted = {} /\ BlockCounted = {} /\ stats[Total] = 0 /\ stats[Blocked] = 0
    BY DEF PipelineInit, InitPipeline, Counted, BlockCounted, Counters
  <2>. QED
    BY <2>1, FS_EmptySet DEF TallyInv
<1>2. TallyInv /\ B /\ B' /\ [PipelineNext]_vars => TallyInv'
  BY TallyStep
<1>3. TallyInv /\ B /\ Inv => CountsAreHonest
  <2> SUFFICES ASSUME TallyInv, B, Inv PROVE CountsAreHonest
    OBVIOUS
  <2> DEFINE Arrived == {r \in Requests : stage[r] # "idle"}
             Refused == {r \in Requests : response[r] = "403"}
  <2>1. Counted \subseteq Arrived
    BY DEF Counted, AllBehind, Behind
  <2>2. BlockCounted \subseteq Refused
    BY DEF BlockCounted, Inv, RequestInv
  <2>3. IsFiniteSet(Arrived) /\ IsFiniteSet(Refused)
    BY PipelineAssumption, FS_Subset
  <2>4. Cardinality(Counted) <= Cardinality(Arrived)
        /\ Cardinality(BlockCounted) <= Cardinality(Refused)
    BY <2>1, <2>2, <2>3, FS_Subset
  <2>5. /\ Cardinality(Counted) \in Nat /\ Cardinality(Arrived) \in Nat
        /\ Cardinality(BlockCounted) \in Nat /\ Cardinality(Refused) \in Nat
    BY <2>1, <2>2, <2>3, FS_Subset, FS_CardinalityType
  <2>6. stats[Total] \in Nat /\ stats[Blocked] \in Nat
    BY DEF TypeOK, Counters
  <2>. QED
    BY <2>4, <2>5, <2>6 DEF TallyInv, CountsAreHonest
<1>. QED
  BY <1>1, <1>2, <1>3, AlwaysBehind, Invariance, PTL DEF PipelineSpec

-----------------------------------------------------------------------------
(* Termination.  That a request goes on is fairness, which TLC checks; that *)
(* none can go on for ever is proved here.                                 *)

\* The steps of dispatch and forward() that a request has before it.
StagesLeft(r) ==
    CASE stage[r] = "idle"      -> 6
      [] stage[r] = "scoring"   -> 5
      [] stage[r] = "analyzing" -> 4
      [] stage[r] = "sending"   -> 3
      [] stage[r] = "waiting"   -> 2
      [] stage[r] = "dripping"  -> 1
      [] OTHER                  -> 0

\* The commands its background task has, or will have, before it.
CommandsLeft(r) ==
    CASE task[r] \in {None, "total"} -> 3
      [] task[r] = "second"         -> 2
      [] task[r] = "insert"         -> 1
      [] OTHER                      -> 0

\* The one return of the deep path.
VerdictsLeft(r) == IF verdict[r] = None THEN 1 ELSE 0

StepsLeft(r) == StagesLeft(r) + CommandsLeft(r) + VerdictsLeft(r)

RequestStep(r) ==
    Arrive(r) \/ Dispatch(r) \/ DeepPathReturns(r) \/ Forward(r) \/ Background(r)

\* Each step of a request or of its task leaves it fewer, whatever fails; and
\* no other request, setting or restart gives it more.
RequestEnds ==
    [][\A r \in Requests :
          /\ RequestStep(r) => StepsLeft(r)' < StepsLeft(r)
          /\ StepsLeft(r)' <= StepsLeft(r)]_vars

\* A request has at most six steps, three commands and one verdict.
LEMMA LeftTyped ==
    ASSUME NEW r \in Requests
    PROVE  StagesLeft(r) \in 0 .. 6 /\ CommandsLeft(r) \in 0 .. 3 /\ VerdictsLeft(r) \in 0 .. 1
  BY DEF StagesLeft, CommandsLeft, VerdictsLeft

\* No step gives a request more of anything, and one of its own takes something.
LEMMA LeftDecreases ==
    ASSUME TypeOK, AllBehind, [PipelineNext]_vars, NEW r \in Requests
    PROVE  /\ StagesLeft(r)' <= StagesLeft(r)
           /\ CommandsLeft(r)' <= CommandsLeft(r)
           /\ VerdictsLeft(r)' <= VerdictsLeft(r)
           /\ RequestStep(r) => \/ StagesLeft(r)' < StagesLeft(r)
                               \/ CommandsLeft(r)' < CommandsLeft(r)
                               \/ VerdictsLeft(r)' < VerdictsLeft(r)
<1> USE DEF Move
<1>1. ASSUME NEW q \in Requests, Arrive(q) \/ Dispatch(q) \/ Forward(q)
      PROVE  /\ stage' = [stage EXCEPT ![q] = stage'[q]]
             /\ StagesLeft(q)' < StagesLeft(q)
             /\ \/ task' = task
                \/ task[q] = None /\ task' = [task EXCEPT ![q] = "total"]
             /\ verdict' = verdict
  <2> USE DEF TypeOK, StagesLeft
  <2>1. CASE Arrive(q)
    BY <2>1 DEF Arrive, taskVars, serviceVars
  <2>2. ASSUME NEW s \in Scores, NEW k \in Keys, Suspicious(q, s, k)
        PROVE  /\ Move(q, "scoring", "analyzing")
               /\ task' = task /\ verdict' = verdict
    BY <2>2 DEF Suspicious, Ask, taskVars
  <2>3. CASE Decides(q)
    <3>1. /\ \/ Move(q, "scoring", "sending")
             \/ Move(q, "analyzing", "sending")
             \/ Move(q, "analyzing", "responded")
          /\ \E c : CreateTask(q, c)
          /\ verdict' = verdict
      BY <2>3 DEF Decides, BelowCutoff, CutoffNotANumber, InferenceRaises, GuardPasses,
                  NotAnAttack, Attack, serviceVars
    <3>2. task[q] = None
      BY <3>1 DEF AllBehind, Behind
    <3>. QED
      BY <3>1, <3>2 DEF CreateTask
  <2>4. CASE Forward(q)
    <3>1. /\ \/ Move(q, "sending", "waiting") \/ Move(q, "waiting", "dripping")
             \/ EndExchange(q)
          /\ task' = task /\ verdict' = verdict
      BY <2>4 DEF Forward, Deliver, Respond, UpstreamAnswers, CannotConnect, UpstreamTimeout,
                  UpstreamBreaks,
                  UpstreamDrips, EndExchange, Exchange, taskVars, serviceVars
    <3>. QED
      BY <3>1 DEF EndExchange, Exchange
  <2>. QED
    BY <1>1, <2>1, <2>2, <2>3, <2>4 DEF Dispatch, Decides
<1>2. ASSUME NEW q \in Requests, DeepPathReturns(q)
      PROVE  /\ stage' = stage /\ task' = task
             /\ verdict' = [verdict EXCEPT ![q] = verdict'[q]]
             /\ verdict[q] = None /\ verdict'[q] # None
  BY <1>2 DEF TypeOK, DeepPathReturns, Return, FailOpen, Pending, Answers, FailOpens, None,
              requestVars, taskVars
<1>3. ASSUME NEW q \in Requests, Background(q)
      PROVE  /\ stage' = stage /\ verdict' = verdict
             /\ task' = [task EXCEPT ![q] = task'[q]]
             /\ CommandsLeft(q)' < CommandsLeft(q)
  BY <1>3 DEF TypeOK, Background, TaskStep, IncrTotal, IncrSecond, PipelineFails, InsertIncident,
              InsertFails, CommandsLeft, None, requestVars, serviceVars
<1>4. CASE RequestStep(r)
  <2>1. CASE Arrive(r) \/ Dispatch(r) \/ Forward(r)
    <3>1. StagesLeft(r)' < StagesLeft(r) /\ VerdictsLeft(r)' = VerdictsLeft(r)
      BY <1>1, <2>1 DEF VerdictsLeft
    <3>2. task'[r] = task[r] \/ (task[r] = None /\ task'[r] = "total")
      BY <1>1, <2>1 DEF TypeOK
    <3>3. CommandsLeft(r)' = CommandsLeft(r)
      BY <3>2 DEF CommandsLeft, None
    <3>4. StagesLeft(r) \in 0 .. 6 /\ StagesLeft(r)' \in 0 .. 6
      BY DEF StagesLeft
    <3>. QED
      BY <3>1, <3>3, <3>4, LeftTyped
  <2>2. CASE DeepPathReturns(r)
    BY <1>2, <2>2, LeftTyped DEF StagesLeft, CommandsLeft, VerdictsLeft
  <2>3. CASE Background(r)
    <3>1. StagesLeft(r)' = StagesLeft(r) /\ VerdictsLeft(r)' = VerdictsLeft(r)
      BY <1>3, <2>3 DEF StagesLeft, VerdictsLeft
    <3>2. CommandsLeft(r)' \in 0 .. 3
      BY DEF CommandsLeft
    <3>. QED
      BY <1>3, <2>3, <3>1, <3>2, LeftTyped
  <2>. QED
    BY <1>4, <2>1, <2>2, <2>3 DEF RequestStep
<1>5. CASE ~RequestStep(r)
  <2>1. \/ \E q \in Requests : q # r /\ RequestStep(q)
        \/ \E q \in Requests : DeepPathJudges(q)
        \/ Restart
        \/ UNCHANGED vars \/ \E n \in Saved : SetThreshold(n)
    BY <1>5 DEF PipelineNext, RequestStep
  <2>2. ASSUME NEW q \in Requests, q # r, RequestStep(q)
        PROVE  stage'[r] = stage[r] /\ task'[r] = task[r] /\ verdict'[r] = verdict[r]
    BY <1>1, <1>2, <1>3, <2>2 DEF TypeOK, RequestStep
  <2>3. ASSUME NEW q \in Requests, DeepPathJudges(q)
        PROVE  stage'[r] = stage[r] /\ task'[r] = task[r] /\ verdict'[r] = verdict[r]
    BY <2>3 DEF DeepPathJudges, Judge, requestVars, taskVars
  <2>4. ASSUME UNCHANGED vars \/ \E n \in Saved : SetThreshold(n)
        PROVE  stage'[r] = stage[r] /\ task'[r] = task[r] /\ verdict'[r] = verdict[r]
    BY <2>4 DEF SetThreshold, vars, requestVars, taskVars, serviceVars
  <2>5. CASE Restart
    <3>1. /\ stage'[r] \in {stage[r], "dropped"}
          /\ task'[r] = task[r] \/ (task[r] # None /\ task'[r] = "lost")
          /\ verdict'[r] \in {verdict[r], Lost}
      BY <2>5 DEF Restart, Lose, Running, None
    <3>2. StagesLeft(r)' <= StagesLeft(r)
      BY <3>1 DEF StagesLeft
    <3>3. CommandsLeft(r)' <= CommandsLeft(r)
      <4>1. CASE task'[r] = "lost"
        BY <4>1, LeftTyped DEF CommandsLeft, None
      <4>2. CASE task'[r] = task[r]
        BY <4>2, LeftTyped DEF CommandsLeft
      <4>. QED
        BY <3>1, <4>1, <4>2
    <3>4. VerdictsLeft(r)' <= VerdictsLeft(r)
      BY <3>1 DEF VerdictsLeft, None, Lost
    <3>. QED
      BY <1>5, <3>2, <3>3, <3>4
  <2>6. ASSUME stage'[r] = stage[r], task'[r] = task[r], verdict'[r] = verdict[r]
        PROVE  /\ StagesLeft(r)' <= StagesLeft(r)
               /\ CommandsLeft(r)' <= CommandsLeft(r)
               /\ VerdictsLeft(r)' <= VerdictsLeft(r)
    <3>1. /\ StagesLeft(r)' = StagesLeft(r)
          /\ CommandsLeft(r)' = CommandsLeft(r)
          /\ VerdictsLeft(r)' = VerdictsLeft(r)
      BY <2>6 DEF StagesLeft, CommandsLeft, VerdictsLeft
    <3>. QED
      BY <3>1, LeftTyped
  <2>. QED
    BY <1>5, <2>1, <2>2, <2>3, <2>4, <2>5, <2>6
<1>. QED
  BY <1>4, <1>5

\* A request and its task end after ten steps at most.
THEOREM RequestsEnd == PipelineSpec => RequestEnds
<1>1. TypeOK /\ AllBehind /\ [PipelineNext]_vars =>
        [\A r \in Requests :
            /\ RequestStep(r) => StepsLeft(r)' < StepsLeft(r)
            /\ StepsLeft(r)' <= StepsLeft(r)]_vars
  <2> SUFFICES ASSUME TypeOK, AllBehind, [PipelineNext]_vars, NEW r \in Requests
               PROVE  /\ RequestStep(r) => StepsLeft(r)' < StepsLeft(r)
                      /\ StepsLeft(r)' <= StepsLeft(r)
    OBVIOUS
  <2>1. /\ StagesLeft(r) \in Nat /\ CommandsLeft(r) \in Nat /\ VerdictsLeft(r) \in Nat
        /\ StagesLeft(r)' \in Nat /\ CommandsLeft(r)' \in Nat /\ VerdictsLeft(r)' \in Nat
    BY DEF StagesLeft, CommandsLeft, VerdictsLeft
  <2>. QED
    BY <2>1, LeftDecreases DEF StepsLeft
<1>. QED
  BY <1>1, AlwaysBehind, PTL DEF PipelineSpec, RequestEnds

=============================================================================
