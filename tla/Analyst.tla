------------------------------ MODULE Analyst ------------------------------
(***************************************************************************)
(* The deep path, data_plane/detection/analyst.py: concurrent calls of     *)
(* analyze() on the event loops of several WAF workers, the verdict cache  *)
(* they share in Redis, and one in-process circuit breaker per worker.     *)
(*                                                                         *)
(* An action is a stretch of analyze() between two awaits.  While a call   *)
(* waits for Redis or for Gemini, any other call may run, and what it read *)
(* before the await may be stale when it resumes.                          *)
(*                                                                         *)
(*   pc[r]       the await at which call r is suspended                    *)
(*   "lookup"    await redis.get(cache_key), not yet served                *)
(*   "resume"    the reply to it is on its way back                        *)
(*   "calling"   await wait_for(to_thread(generate_content), 5.0)          *)
(*   "backoff"   await asyncio.sleep(2 ** attempt) after a 429             *)
(*   "storing"   the awaits of the cache write                             *)
(*   "counting"  await redis.incr of the fail-open counter                 *)
(*   "expiring"  await redis.expire of the fail-open counter               *)
(*                                                                         *)
(* Time is counted in ticks and only measures the two timers of the code:  *)
(* a timer never fires early, and may fire late.                           *)
(***************************************************************************)
EXTENDS CircuitBreaker, FiniteSets

CONSTANTS
    Workers,        \* WAF worker processes
    Requests,       \* calls of analyze(), each made once
    Keys, NoKey,    \* cache keys
    ErrorTexts,     \* which of the codes "429" and "5xx" str(exc) contains
    CallTimeout,    \* the timeout of wait_for, in ticks
    MaxAttempts     \* range(3)

ASSUME AnalystAssumption ==
    /\ NoKey \notin Keys
    /\ IsFiniteSet(Requests)
    /\ ErrorTexts \subseteq SUBSET {"429", "5xx"}
    /\ CallTimeout \in Nat
    /\ MaxAttempts \in Nat \ {0}

VARIABLES
    breaker,        \* _breaker of each worker
    cache,          \* cognithhorn:analysis:<key> in Redis
    failOpens,      \* cognithhorn:stats:fail_open_count in Redis, and its TTL
    pc,
    worker,         \* the worker each call runs on
    key,            \* cache_key of each call
    attempt,        \* the loop variable of the retry loop
    age,            \* ticks since the call to Gemini was submitted
    verdict,        \* the verdict each call is about to return, or returned
    said            \* history: the answers Gemini has given, by key

redisVars == <<cache, failOpens>>
callVars  == <<pc, worker, key, attempt, age, verdict>>
vars      == <<breaker, redisVars, callVars, said>>

Answers   == {"attack", "benign"}
FailOpens == {"open", "timeout", "error"}
None      == "none"
Suspended == {"lookup", "resume", "calling", "backoff",
              "storing", "counting", "expiring"}

Init ==
    /\ breaker = [w \in Workers |-> FreshBreaker]
    /\ cache = [k \in Keys |-> None]
    /\ failOpens = [count |-> 0, ttl |-> FALSE]
    /\ pc = [r \in Requests |-> "idle"]
    /\ worker \in [Requests -> Workers]
    /\ key = [r \in Requests |-> NoKey]
    /\ attempt = [r \in Requests |-> 0]
    /\ age = [r \in Requests |-> 0]
    /\ verdict = [r \in Requests |-> None]
    /\ said = [k \in Keys |-> {}]

\* Call r moves from one await to another.
Move(r, from, to) == pc[r] = from /\ pc' = [pc EXCEPT ![r] = to]

Gives(r, v) == verdict' = [verdict EXCEPT ![r] = v]

\* The breaker of the worker that runs call r.
Home(r) == breaker[worker[r]]
SetHome(r, b) == breaker' = [breaker EXCEPT ![worker[r]] = b]

-----------------------------------------------------------------------------
\* analyze() is entered and sends its cache lookup.
Analyze(r, k) ==
    /\ Move(r, "idle", "lookup")
    /\ key' = [key EXCEPT ![r] = k]
    /\ UNCHANGED <<breaker, redisVars, worker, attempt, age, verdict, said>>

\* Redis serves the lookup; a failed or unreadable one counts as a miss.
ServeLookup(r) ==
    /\ Move(r, "lookup", "resume")
    /\ Gives(r, cache[key[r]]) \/ Gives(r, None)
    /\ UNCHANGED <<breaker, redisVars, worker, key, attempt, age, said>>

CacheHit(r) ==
    /\ verdict[r] # None
    /\ Move(r, "resume", "done")
    /\ UNCHANGED <<breaker, redisVars, worker, key, attempt, age, verdict, said>>

\* Mutant: a refused call passes for one Gemini found benign.
DeniedBenign(r) ==
    /\ verdict[r] = None
    /\ ~Allows(Home(r))
    /\ Move(r, "resume", "done")
    /\ Gives(r, "benign")
    /\ UNCHANGED <<breaker, redisVars, worker, key, attempt, age, said>>

\* allow_request() answers False: fail open, after counting it.
Denied(r) ==
    /\ verdict[r] = None
    /\ ~Allows(Home(r))
    /\ Move(r, "resume", "counting")
    /\ Gives(r, "open")
    /\ UNCHANGED <<breaker, redisVars, worker, key, attempt, age, said>>

Admitted(r) ==
    /\ verdict[r] = None
    /\ Allows(Home(r))
    /\ SetHome(r, AllowRequest(Home(r)))
    /\ Move(r, "resume", "calling")
    /\ age' = [age EXCEPT ![r] = 0]
    /\ UNCHANGED <<redisVars, worker, key, attempt, verdict, said>>

-----------------------------------------------------------------------------
\* Gemini answers with JSON that Verdict(**data) accepts.
Answered(r, a) ==
    /\ Move(r, "calling", "storing")
    /\ Gives(r, a)
    /\ said' = [said EXCEPT ![key[r]] = @ \union {a}]
    /\ SetHome(r, RecordSuccess(Home(r)))
    /\ UNCHANGED <<redisVars, worker, key, attempt, age>>

\* Mutant: retries for ever.
RateLimitedEndless(r, text) ==
    /\ "429" \in text
    /\ Move(r, "calling", "backoff")
    /\ UNCHANGED <<breaker, redisVars, worker, key, attempt, age, verdict, said>>

\* Mutant: a 429 that will be retried is counted as a failure.
RateLimitedCounted(r, text) ==
    /\ "429" \in text
    /\ attempt[r] < MaxAttempts - 1
    /\ Move(r, "calling", "backoff")
    /\ SetHome(r, RecordFailure(Home(r)))
    /\ UNCHANGED <<redisVars, worker, key, attempt, age, verdict, said>>

RateLimited(r, text) ==
    /\ "429" \in text
    /\ attempt[r] < MaxAttempts - 1
    /\ Move(r, "calling", "backoff")
    /\ UNCHANGED <<breaker, redisVars, worker, key, attempt, age, verdict, said>>

\* The retry does not ask the breaker again.
Retry(r) ==
    /\ Move(r, "backoff", "calling")
    /\ attempt' = [attempt EXCEPT ![r] = @ + 1]
    /\ age' = [age EXCEPT ![r] = 0]
    /\ UNCHANGED <<breaker, redisVars, worker, key, verdict, said>>

\* analyze() gives up on Gemini; the text of the exception alone decides
\* whether the breaker hears of it.
GivesUp(r, text) ==
    /\ Move(r, "calling", "counting")
    /\ Gives(r, "error")
    /\ SetHome(r, IF "5xx" \in text THEN RecordFailure(Home(r)) ELSE Home(r))
    /\ UNCHANGED <<redisVars, worker, key, attempt, age, said>>

\* generate_content raises something the loop does not retry.
Failed(r, text) ==
    /\ "429" \in text => attempt[r] = MaxAttempts - 1
    /\ GivesUp(r, text)

\* Mutant: an answer without is_attack is taken for a benign verdict.
BadAnswerTrusted(r, text) ==
    /\ Move(r, "calling", "storing")
    /\ Gives(r, "benign")
    /\ UNCHANGED <<breaker, redisVars, worker, key, attempt, age, said>>

\* Gemini answers with something json.loads or Verdict(**data) refuses.
BadAnswer(r, text) == GivesUp(r, text)

\* Mutant: the verdict of a call that timed out is cached as well.
TimedOutStored(r) ==
    /\ age[r] >= CallTimeout
    /\ Move(r, "calling", "storing")
    /\ Gives(r, "timeout")
    /\ SetHome(r, RecordFailure(Home(r)))
    /\ UNCHANGED <<redisVars, worker, key, attempt, age, said>>

\* Mutant: only the first attempt is wrapped in wait_for.
TimedOutOnce(r) ==
    /\ attempt[r] = 0
    /\ age[r] >= CallTimeout
    /\ Move(r, "calling", "counting")
    /\ Gives(r, "timeout")
    /\ SetHome(r, RecordFailure(Home(r)))
    /\ UNCHANGED <<redisVars, worker, key, attempt, age, said>>

TimedOut(r) ==
    /\ age[r] >= CallTimeout
    /\ Move(r, "calling", "counting")
    /\ Gives(r, "timeout")
    /\ SetHome(r, RecordFailure(Home(r)))
    /\ UNCHANGED <<redisVars, worker, key, attempt, age, said>>

-----------------------------------------------------------------------------
\* The cache write succeeds, or fails and is ignored; the verdict returns.
Store(r) ==
    /\ Move(r, "storing", "done")
    /\ cache' \in {cache, [cache EXCEPT ![key[r]] = verdict[r]]}
    /\ UNCHANGED <<breaker, failOpens, worker, key, attempt, age, verdict, said>>

\* _increment_fail_open: INCR, then EXPIRE; an error ends it silently.
CountFailOpen(r) ==
    /\ Move(r, "counting", "expiring")
    /\ failOpens' = [failOpens EXCEPT !.count = @ + 1]
    /\ UNCHANGED <<breaker, cache, worker, key, attempt, age, verdict, said>>

SetExpiry(r) ==
    /\ Move(r, "expiring", "done")
    /\ failOpens' = [failOpens EXCEPT !.ttl = TRUE]
    /\ UNCHANGED <<breaker, cache, worker, key, attempt, age, verdict, said>>

CountingFails(r) ==
    /\ Move(r, "counting", "done") \/ Move(r, "expiring", "done")
    /\ UNCHANGED <<breaker, redisVars, worker, key, attempt, age, verdict, said>>

-----------------------------------------------------------------------------
\* Redis drops a verdict whose TTL ran out.
CacheExpires(k) ==
    /\ cache[k] # None
    /\ cache' = [cache EXCEPT ![k] = None]
    /\ UNCHANGED <<breaker, failOpens, callVars, said>>

\* Ten minutes pass without a fail-open verdict being counted.
CountExpires ==
    /\ failOpens.ttl
    /\ failOpens' = [count |-> 0, ttl |-> FALSE]
    /\ UNCHANGED <<breaker, cache, callVars, said>>

Tick ==
    /\ breaker' = [w \in Workers |-> Elapse(breaker[w])]
    /\ age' = [r \in Requests |->
                 IF pc[r] = "calling" /\ age[r] < CallTimeout
                 THEN age[r] + 1 ELSE age[r]]
    /\ UNCHANGED <<redisVars, pc, worker, key, attempt, verdict, said>>

\* The process of worker w dies and is started again.
Restart(w) ==
    /\ breaker' = [breaker EXCEPT ![w] = FreshBreaker]
    /\ pc' = [r \in Requests |->
                IF worker[r] = w /\ pc[r] \in Suspended THEN "lost" ELSE pc[r]]
    /\ UNCHANGED <<redisVars, worker, key, attempt, age, verdict, said>>

GeminiStep(r) ==
    \/ \E a \in Answers : Answered(r, a)
    \/ \E text \in ErrorTexts : RateLimited(r, text) \/ Failed(r, text) \/ BadAnswer(r, text)
    \/ TimedOut(r)

RedisStep(r) ==
    ServeLookup(r) \/ Store(r) \/ CountFailOpen(r) \/ SetExpiry(r) \/ CountingFails(r)

LoopStep(r) == CacheHit(r) \/ Denied(r) \/ Admitted(r) \/ Retry(r)

Next ==
    \/ \E r \in Requests :
          \/ \E k \in Keys : Analyze(r, k)
          \/ RedisStep(r) \/ LoopStep(r) \/ GeminiStep(r)
    \/ \E k \in Keys : CacheExpires(k)
    \/ CountExpires
    \/ Tick
    \/ \E w \in Workers : Restart(w)

Spec == Init /\ [][Next]_vars

\* The event loop runs what is ready, Redis serves or refuses what it is
\* asked, the clock moves on and wait_for fires.  Nothing obliges Gemini.
Fairness ==
    /\ WF_vars(Tick)
    /\ \A r \in Requests :
          WF_vars(RedisStep(r)) /\ WF_vars(LoopStep(r)) /\ WF_vars(TimedOut(r))

FairSpec == Spec /\ Fairness

-----------------------------------------------------------------------------
TypeOK ==
    /\ breaker \in [Workers -> Breakers]
    /\ cache \in [Keys -> Answers \union {None}]
    /\ failOpens \in [count : Nat, ttl : BOOLEAN]
    /\ pc \in [Requests -> Suspended \union {"idle", "done", "lost"}]
    /\ worker \in [Requests -> Workers]
    /\ key \in [Requests -> Keys \union {NoKey}]
    /\ attempt \in [Requests -> 0 .. MaxAttempts - 1]
    /\ age \in [Requests -> 0 .. CallTimeout]
    /\ verdict \in [Requests -> Answers \union FailOpens \union {None}]
    /\ said \in [Keys -> SUBSET Answers]

\* The three fields of a breaker agree whatever order concurrent calls
\* report in: it is closed exactly while it has counted too few failures.
BreakerConsistent ==
    \A w \in Workers : breaker[w].state = "closed" <=> breaker[w].failures < Threshold

\* A verdict that is in the cache, or that a call returns without failing
\* open, was given by Gemini for that cache key.  In particular a fail-open
\* verdict is never cached: analyst.py returns it without writing.
CacheSound == \A k \in Keys : cache[k] \in said[k] \union {None}

VerdictsFromGemini ==
    \A r \in Requests : verdict[r] \in Answers => verdict[r] \in said[key[r]]

\* The calls of a worker that ended without an answer.
Unanswered(w) ==
    {r \in Requests : worker[r] = w /\ verdict[r] \in {"timeout", "error"}}

\* A breaker never refuses a call on less than THRESHOLD calls of its own
\* worker that failed: not on the failures of another worker, not on calls
\* it refused itself, and not on one failure counted twice.
OpenIsEarned ==
    \A r \in Requests :
        verdict[r] = "open" => Cardinality(Unanswered(worker[r])) >= Threshold

\* Every analysis of a worker that stays up returns, within its retries and
\* timeouts, whether or not Gemini ever answers.
EveryCallReturns ==
    \A r \in Requests : pc[r] = "lookup" ~> pc[r] \in {"done", "lost"}

\* What the caller of analyze() has seen of each call.
Returned ==
    [r \in Requests |->
        CASE pc[r] = "done" -> verdict[r]
          [] pc[r] = "lost" -> "lost"
          [] OTHER -> None]

Service == INSTANCE VerdictService WITH asked <- key, verdict <- Returned

\* The deep path keeps the promises of VerdictService: every cache fill,
\* retry, timeout, refusal and restart is a step of it, or invisible.
ServiceKept == Service!Spec

-----------------------------------------------------------------------------
(* What the comments and documents say and the code does not do.           *)

\* analyst.py:38, "HALF-OPEN -> trial -- one request is allowed through":
\* no call is admitted by a breaker that is already half-open.
OneTrial ==
    [][\A r \in Requests : Admitted(r) => Home(r).state # "half-open"]_vars

=============================================================================
