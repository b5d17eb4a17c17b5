--------------------------- MODULE AnalystProofs ---------------------------
(***************************************************************************)
(* What Analyst guarantees for every number of workers, calls and keys and *)
(* every threshold and timeout.                                            *)
(***************************************************************************)
EXTENDS Analyst, FiniteSetTheorems, TLAPS

\* Where a call is suspended tells what it holds: a key since it was made,
\* an answer of Gemini or of the cache, or a fail-open verdict.
CallsConsistent ==
    \A r \in Requests :
        /\ pc[r] = "idle" <=> key[r] = NoKey
        /\ pc[r] \in {"idle", "lookup", "calling", "backoff"} => verdict[r] = None
        /\ pc[r] = "resume" => verdict[r] \in Answers \union {None}
        /\ pc[r] = "storing" => verdict[r] \in Answers
        /\ pc[r] \in {"counting", "expiring"} => verdict[r] \in FailOpens
        /\ pc[r] = "done" => verdict[r] # None
        /\ pc[r] = "backoff" => attempt[r] < MaxAttempts - 1

\* A breaker has counted no more failures than calls of its worker failed.
FailuresEarned ==
    \A w \in Workers : breaker[w].failures <= Cardinality(Unanswered(w))

IInv ==
    /\ TypeOK
    /\ BreakerConsistent
    /\ CallsConsistent
    /\ CacheSound
    /\ VerdictsFromGemini

-----------------------------------------------------------------------------
(* The breaker's methods keep its fields consistent.                       *)

Agrees(b) == b.state = "closed" <=> b.failures < Threshold

\* A fresh breaker is closed: THRESHOLD is positive.
LEMMA FreshBreakerAgrees == FreshBreaker \in Breakers /\ Agrees(FreshBreaker)
  BY BreakerAssumption DEF FreshBreaker, Breakers, Agrees

\* Whatever method runs next, a consistent breaker stays consistent.
LEMMA MethodsAgree ==
    ASSUME NEW b \in Breakers, Agrees(b)
    PROVE  /\ RecordSuccess(b) \in Breakers /\ Agrees(RecordSuccess(b))
           /\ RecordFailure(b) \in Breakers /\ Agrees(RecordFailure(b))
           /\ AllowRequest(b) \in Breakers /\ Agrees(AllowRequest(b))
           /\ Elapse(b) \in Breakers /\ Agrees(Elapse(b))
  <1>1. RecordSuccess(b) \in Breakers
    BY DEF RecordSuccess, Breakers
  <1>1a. Agrees(RecordSuccess(b))
    BY BreakerAssumption DEF RecordSuccess, Breakers, Agrees
  <1>2. RecordFailure(b) \in Breakers /\ Agrees(RecordFailure(b))
    BY BreakerAssumption DEF RecordFailure, Breakers, Agrees
  <1>3. AllowRequest(b) \in Breakers /\ Agrees(AllowRequest(b))
    BY BreakerAssumption DEF AllowRequest, CoolDownOver, Breakers, Agrees
  <1>4. Elapse(b) \in Breakers /\ Agrees(Elapse(b))
    BY BreakerAssumption DEF Elapse, CoolDownOver, Breakers, Agrees
  <1> QED BY <1>1, <1>1a, <1>2, <1>3, <1>4

-----------------------------------------------------------------------------
\* The invariant holds when the workers start.
LEMMA InitEstablishes == Init => IInv
  <1> SUFFICES ASSUME Init PROVE IInv
    OBVIOUS
  <1>1. TypeOK
    BY FreshBreakerAgrees, AnalystAssumption
    DEF Init, TypeOK, Suspended, Answers, FailOpens, None
  <1>2. BreakerConsistent
    BY FreshBreakerAgrees DEF Init, BreakerConsistent, Agrees
  <1>3. CallsConsistent /\ CacheSound /\ VerdictsFromGemini
    BY DEF Init, CallsConsistent, CacheSound, VerdictsFromGemini,
               Answers, FailOpens, None
  <1> QED BY <1>1, <1>2, <1>3 DEF IInv

-----------------------------------------------------------------------------
\* A step that gives the breaker of r's worker a consistent value.
LEMMA SetHomeAgrees ==
    ASSUME TypeOK, BreakerConsistent, NEW r \in Requests,
           NEW b \in Breakers, Agrees(b), SetHome(r, b)
    PROVE  breaker' \in [Workers -> Breakers] /\ BreakerConsistent'
  BY DEF TypeOK, BreakerConsistent, SetHome, Agrees

\* The breaker a call meets is consistent.
LEMMA HomeAgrees ==
    ASSUME TypeOK, BreakerConsistent, NEW r \in Requests
    PROVE  Home(r) \in Breakers /\ Agrees(Home(r))
  BY DEF TypeOK, BreakerConsistent, Home, Agrees

\* Each step of a call, a timer, Redis or a restart keeps it.
LEMMA NextPreserves == IInv /\ [Next]_vars => IInv'
  <1> SUFFICES ASSUME IInv, [Next]_vars PROVE IInv'
    OBVIOUS
  <1> USE DEF IInv, redisVars, callVars, Move, Gives
  <1>1. ASSUME NEW r \in Requests, NEW k \in Keys, Analyze(r, k) PROVE IInv'
    <2>1. TypeOK'
      BY <1>1 DEF Analyze, TypeOK, Suspended
    <2>2. BreakerConsistent' /\ CacheSound'
      BY <1>1 DEF Analyze, BreakerConsistent, CacheSound
    <2>3. CallsConsistent'
      BY <1>1, AnalystAssumption DEF Analyze, TypeOK, CallsConsistent
    <2>4. VerdictsFromGemini'
      BY <1>1 DEF Analyze, TypeOK, CallsConsistent, VerdictsFromGemini, Answers, None
    <2> QED BY <2>1, <2>2, <2>3, <2>4
  <1>2. ASSUME NEW r \in Requests, ServeLookup(r) PROVE IInv'
    <2>0. key[r] \in Keys
      BY <1>2 DEF ServeLookup, TypeOK, CallsConsistent
    <2>1. TypeOK'
      BY <1>2, <2>0 DEF ServeLookup, TypeOK, Suspended, None
    <2>2. BreakerConsistent' /\ CacheSound'
      BY <1>2 DEF ServeLookup, BreakerConsistent, CacheSound
    <2>3. CallsConsistent'
      BY <1>2, <2>0 DEF ServeLookup, TypeOK, CallsConsistent, None
    <2>4. VerdictsFromGemini'
      BY <1>2, <2>0 DEF ServeLookup, TypeOK, VerdictsFromGemini, CacheSound, Answers, None
    <2> QED BY <2>1, <2>2, <2>3, <2>4
  <1>3. ASSUME NEW r \in Requests, CacheHit(r) PROVE IInv'
    <2>1. TypeOK'
      BY <1>3 DEF CacheHit, TypeOK, Suspended, FailOpens
    <2>2. BreakerConsistent' /\ CacheSound'
      BY <1>3 DEF CacheHit, BreakerConsistent, CacheSound
    <2>3. CallsConsistent'
      BY <1>3 DEF CacheHit, TypeOK, CallsConsistent, FailOpens, None
    <2>4. VerdictsFromGemini'
      BY <1>3 DEF CacheHit, TypeOK, VerdictsFromGemini, Answers, FailOpens
    <2> QED BY <2>1, <2>2, <2>3, <2>4
  <1>4. ASSUME NEW r \in Requests, Denied(r) PROVE IInv'
    <2>1. TypeOK'
      BY <1>4 DEF Denied, TypeOK, Suspended, FailOpens
    <2>2. BreakerConsistent' /\ CacheSound'
      BY <1>4 DEF Denied, BreakerConsistent, CacheSound
    <2>3. CallsConsistent'
      BY <1>4 DEF Denied, TypeOK, CallsConsistent, FailOpens, None
    <2>4. VerdictsFromGemini'
      BY <1>4 DEF Denied, TypeOK, VerdictsFromGemini, Answers, FailOpens
    <2> QED BY <2>1, <2>2, <2>3, <2>4
  <1>5. ASSUME NEW r \in Requests, Admitted(r) PROVE IInv'
    <2>1. breaker' \in [Workers -> Breakers] /\ BreakerConsistent'
      BY <1>5, HomeAgrees, MethodsAgree, SetHomeAgrees DEF Admitted
    <2>2. TypeOK'
      BY <1>5, <2>1, AnalystAssumption DEF Admitted, TypeOK, Suspended, FailOpens, CallsConsistent
    <2>3. CacheSound'
      BY <1>5 DEF Admitted, TypeOK, CacheSound, Answers
    <2>4. CallsConsistent'
      BY <1>5 DEF Admitted, TypeOK, CallsConsistent, FailOpens, None
    <2>5. VerdictsFromGemini'
      BY <1>5 DEF Admitted, TypeOK, CallsConsistent, VerdictsFromGemini, Answers, FailOpens
    <2> QED BY <2>1, <2>2, <2>3, <2>4, <2>5
  <1>6. ASSUME NEW r \in Requests, NEW a \in Answers, Answered(r, a) PROVE IInv'
    <2>1. breaker' \in [Workers -> Breakers] /\ BreakerConsistent'
      BY <1>6, HomeAgrees, MethodsAgree, SetHomeAgrees DEF Answered
    <2>2. TypeOK'
      BY <1>6, <2>1 DEF Answered, TypeOK, Suspended, FailOpens, CallsConsistent
    <2>3. CacheSound'
      BY <1>6 DEF Answered, TypeOK, CacheSound, Answers
    <2>4. CallsConsistent'
      BY <1>6 DEF Answered, TypeOK, CallsConsistent, FailOpens, None
    <2>5. VerdictsFromGemini'
      BY <1>6 DEF Answered, TypeOK, CallsConsistent, VerdictsFromGemini, Answers, FailOpens
    <2> QED BY <2>1, <2>2, <2>3, <2>4, <2>5
  <1>7. ASSUME NEW r \in Requests, NEW text \in ErrorTexts, RateLimited(r, text) PROVE IInv'
    <2>1. TypeOK'
      BY <1>7 DEF RateLimited, TypeOK, Suspended, FailOpens
    <2>2. BreakerConsistent' /\ CacheSound'
      BY <1>7 DEF RateLimited, BreakerConsistent, CacheSound
    <2>3. CallsConsistent'
      BY <1>7 DEF RateLimited, TypeOK, CallsConsistent, FailOpens, None
    <2>4. VerdictsFromGemini'
      BY <1>7 DEF RateLimited, TypeOK, VerdictsFromGemini, Answers, FailOpens
    <2> QED BY <2>1, <2>2, <2>3, <2>4
  <1>8. ASSUME NEW r \in Requests, Retry(r) PROVE IInv'
    <2>1. TypeOK'
      BY <1>8, AnalystAssumption DEF Retry, TypeOK, CallsConsistent, Suspended
    <2>2. BreakerConsistent' /\ CacheSound'
      BY <1>8 DEF Retry, BreakerConsistent, CacheSound
    <2>3. CallsConsistent'
      BY <1>8 DEF Retry, TypeOK, CallsConsistent, FailOpens, None
    <2>4. VerdictsFromGemini'
      BY <1>8 DEF Retry, TypeOK, VerdictsFromGemini, Answers, FailOpens
    <2> QED BY <2>1, <2>2, <2>3, <2>4
  <1>9. ASSUME NEW r \in Requests, NEW text \in ErrorTexts, GivesUp(r, text) PROVE IInv'
    <2>1. breaker' \in [Workers -> Breakers] /\ BreakerConsistent'
      BY <1>9, HomeAgrees, MethodsAgree, SetHomeAgrees DEF GivesUp
    <2>2. TypeOK'
      BY <1>9, <2>1 DEF GivesUp, TypeOK, Suspended, FailOpens, CallsConsistent
    <2>3. CacheSound'
      BY <1>9 DEF GivesUp, TypeOK, CacheSound, Answers
    <2>4. CallsConsistent'
      BY <1>9 DEF GivesUp, TypeOK, CallsConsistent, FailOpens, None
    <2>5. VerdictsFromGemini'
      BY <1>9 DEF GivesUp, TypeOK, CallsConsistent, VerdictsFromGemini, Answers, FailOpens
    <2> QED BY <2>1, <2>2, <2>3, <2>4, <2>5
  <1>10. ASSUME NEW r \in Requests, TimedOut(r) PROVE IInv'
    <2>1. breaker' \in [Workers -> Breakers] /\ BreakerConsistent'
      BY <1>10, HomeAgrees, MethodsAgree, SetHomeAgrees DEF TimedOut
    <2>2. TypeOK'
      BY <1>10, <2>1 DEF TimedOut, TypeOK, Suspended, FailOpens, CallsConsistent
    <2>3. CacheSound'
      BY <1>10 DEF TimedOut, TypeOK, CacheSound, Answers
    <2>4. CallsConsistent'
      BY <1>10 DEF TimedOut, TypeOK, CallsConsistent, FailOpens, None
    <2>5. VerdictsFromGemini'
      BY <1>10 DEF TimedOut, TypeOK, CallsConsistent, VerdictsFromGemini, Answers, FailOpens
    <2> QED BY <2>1, <2>2, <2>3, <2>4, <2>5
  <1>11. ASSUME NEW r \in Requests, Store(r) PROVE IInv'
    <2>0. key[r] \in Keys /\ verdict[r] \in Answers
      BY <1>11 DEF Store, TypeOK, CallsConsistent
    <2>1. cache' \in [Keys -> Answers \union {None}]
      BY <1>11, <2>0 DEF Store, TypeOK
    <2>2. TypeOK'
      BY <1>11, <2>1 DEF Store, TypeOK, Suspended
    <2>3. BreakerConsistent'
      BY <1>11 DEF Store, BreakerConsistent
    <2>4. CacheSound'
      <3>1. verdict[r] \in said[key[r]]
        BY <2>0 DEF VerdictsFromGemini
      <3>2. \A k \in Keys : cache'[k] = cache[k] \/ (k = key[r] /\ cache'[k] = verdict[r])
        BY <1>11, <2>0 DEF Store, TypeOK
      <3>3. said' = said
        BY <1>11 DEF Store
      <3> QED BY <3>1, <3>2, <3>3 DEF CacheSound
    <2>5. CallsConsistent'
      BY <1>11, <2>0 DEF Store, TypeOK, CallsConsistent, Answers, None
    <2>6. VerdictsFromGemini'
      BY <1>11 DEF Store, TypeOK, VerdictsFromGemini
    <2> QED BY <2>2, <2>3, <2>4, <2>5, <2>6
  <1>12. ASSUME NEW r \in Requests, CountFailOpen(r) PROVE IInv'
    <2>1. TypeOK'
      BY <1>12 DEF CountFailOpen, TypeOK, Suspended, FailOpens
    <2>2. BreakerConsistent' /\ CacheSound'
      BY <1>12 DEF CountFailOpen, BreakerConsistent, CacheSound
    <2>3. CallsConsistent'
      BY <1>12 DEF CountFailOpen, TypeOK, CallsConsistent, FailOpens, None
    <2>4. VerdictsFromGemini'
      BY <1>12 DEF CountFailOpen, TypeOK, VerdictsFromGemini, Answers, FailOpens
    <2> QED BY <2>1, <2>2, <2>3, <2>4
  <1>13. ASSUME NEW r \in Requests, SetExpiry(r) PROVE IInv'
    <2>1. TypeOK'
      BY <1>13 DEF SetExpiry, TypeOK, Suspended, FailOpens
    <2>2. BreakerConsistent' /\ CacheSound'
      BY <1>13 DEF SetExpiry, BreakerConsistent, CacheSound
    <2>3. CallsConsistent'
      BY <1>13 DEF SetExpiry, TypeOK, CallsConsistent, FailOpens, None
    <2>4. VerdictsFromGemini'
      BY <1>13 DEF SetExpiry, TypeOK, VerdictsFromGemini, Answers, FailOpens
    <2> QED BY <2>1, <2>2, <2>3, <2>4
  <1>14. ASSUME NEW r \in Requests, CountingFails(r) PROVE IInv'
    <2>1. TypeOK'
      BY <1>14 DEF CountingFails, TypeOK, Suspended, FailOpens
    <2>2. BreakerConsistent' /\ CacheSound'
      BY <1>14 DEF CountingFails, BreakerConsistent, CacheSound
    <2>3. CallsConsistent'
      BY <1>14 DEF CountingFails, TypeOK, CallsConsistent, FailOpens, None
    <2>4. VerdictsFromGemini'
      BY <1>14 DEF CountingFails, TypeOK, VerdictsFromGemini, Answers, FailOpens
    <2> QED BY <2>1, <2>2, <2>3, <2>4
  <1>15. ASSUME NEW k \in Keys, CacheExpires(k) PROVE IInv'
    <2>1. TypeOK'
      BY <1>15 DEF CacheExpires, TypeOK, Suspended, FailOpens
    <2>2. BreakerConsistent' /\ CacheSound'
      BY <1>15 DEF CacheExpires, BreakerConsistent, CacheSound
    <2>3. CallsConsistent'
      BY <1>15 DEF CacheExpires, TypeOK, CallsConsistent, FailOpens, None
    <2>4. VerdictsFromGemini'
      BY <1>15 DEF CacheExpires, TypeOK, VerdictsFromGemini, Answers, FailOpens
    <2> QED BY <2>1, <2>2, <2>3, <2>4
  <1>16. ASSUME CountExpires PROVE IInv'
    <2>1. TypeOK'
      BY <1>16 DEF CountExpires, TypeOK, Suspended, FailOpens
    <2>2. BreakerConsistent' /\ CacheSound'
      BY <1>16 DEF CountExpires, BreakerConsistent, CacheSound
    <2>3. CallsConsistent'
      BY <1>16 DEF CountExpires, TypeOK, CallsConsistent, FailOpens, None
    <2>4. VerdictsFromGemini'
      BY <1>16 DEF CountExpires, TypeOK, VerdictsFromGemini, Answers, FailOpens
    <2> QED BY <2>1, <2>2, <2>3, <2>4
  <1>17. ASSUME Tick PROVE IInv'
    <2>1. breaker' \in [Workers -> Breakers] /\ BreakerConsistent'
      <3>1. \A w \in Workers : breaker[w] \in Breakers /\ Agrees(breaker[w])
        BY DEF TypeOK, BreakerConsistent, Agrees
      <3>2. \A w \in Workers : Elapse(breaker[w]) \in Breakers /\ Agrees(Elapse(breaker[w]))
        BY <3>1, MethodsAgree
      <3> QED BY <1>17, <3>2 DEF Tick, BreakerConsistent, Agrees
    <2>2. age' \in [Requests -> 0 .. CallTimeout]
      BY <1>17, AnalystAssumption DEF Tick, TypeOK
    <2>3. TypeOK'
      BY <1>17, <2>1, <2>2 DEF Tick, TypeOK
    <2>4. CallsConsistent' /\ CacheSound' /\ VerdictsFromGemini'
      BY <1>17 DEF Tick, CallsConsistent, CacheSound, VerdictsFromGemini
    <2> QED BY <2>1, <2>3, <2>4
  <1>18. ASSUME NEW w \in Workers, Restart(w) PROVE IInv'
    <2>1. breaker' \in [Workers -> Breakers] /\ BreakerConsistent'
      BY <1>18, FreshBreakerAgrees DEF Restart, TypeOK, BreakerConsistent, Agrees
    <2>2. pc' \in [Requests -> Suspended \union {"idle", "done", "lost"}]
      BY <1>18 DEF Restart, TypeOK
    <2>3. TypeOK'
      BY <1>18, <2>1, <2>2 DEF Restart, TypeOK
    <2>4. CallsConsistent'
      BY <1>18 DEF Restart, TypeOK, CallsConsistent, Suspended
    <2>5. CacheSound' /\ VerdictsFromGemini'
      BY <1>18 DEF Restart, CacheSound, VerdictsFromGemini
    <2> QED BY <2>1, <2>3, <2>4, <2>5
  <1>19. CASE UNCHANGED vars
    BY <1>19 DEF vars, TypeOK, BreakerConsistent, CallsConsistent, CacheSound,
                 VerdictsFromGemini
  <1> QED
    BY <1>1, <1>2, <1>3, <1>4, <1>5, <1>6, <1>7, <1>8, <1>9, <1>10, <1>11, <1>12,
       <1>13, <1>14, <1>15, <1>16, <1>17, <1>18, <1>19
    DEF Next, RedisStep, LoopStep, GeminiStep, Failed, BadAnswer

-----------------------------------------------------------------------------
\* The inductive invariant holds in every reachable state.
THEOREM Invariance == Spec => []IInv
  BY InitEstablishes, NextPreserves, PTL DEF Spec

\* Type correctness.
THEOREM TypeCorrect == Spec => []TypeOK
  BY Invariance, PTL DEF IInv

\* No order of concurrent successes, failures and admissions makes a breaker
\* closed with THRESHOLD failures counted, or open with fewer.
THEOREM BreakersConsistent == Spec => []BreakerConsistent
  BY Invariance, PTL DEF IInv

\* Only answers of Gemini, for the same cache key, are cached.
THEOREM CacheIsSound == Spec => []CacheSound
  BY Invariance, PTL DEF IInv

\* Only answers of Gemini, for the same cache key, are returned as such.
THEOREM VerdictsComeFromGemini == Spec => []VerdictsFromGemini
  BY Invariance, PTL DEF IInv

-----------------------------------------------------------------------------
(* A breaker that refuses a call has THRESHOLD failed calls behind it.     *)

EarnedInv == IInv /\ FailuresEarned /\ OpenIsEarned

\* The set of failed calls is finite, and a step that lets no call forget
\* its failure does not shrink it.
LEMMA UnansweredGrows ==
    ASSUME NEW w \in Workers, worker' = worker,
           \A r \in Requests :
               verdict[r] \in {"timeout", "error"} => verdict'[r] = verdict[r]
    PROVE  /\ Unanswered(w) \subseteq Unanswered(w)'
           /\ IsFiniteSet(Unanswered(w)) /\ IsFiniteSet(Unanswered(w)')
           /\ Cardinality(Unanswered(w)) \in Nat /\ Cardinality(Unanswered(w)') \in Nat
           /\ Cardinality(Unanswered(w)) <= Cardinality(Unanswered(w)')
  <1>1. Unanswered(w) \subseteq Unanswered(w)'
    BY DEF Unanswered
  <1>2. Unanswered(w) \subseteq Requests /\ Unanswered(w)' \subseteq Requests
    BY DEF Unanswered
  <1>3. IsFiniteSet(Unanswered(w)) /\ IsFiniteSet(Unanswered(w)')
    BY <1>2, FS_Subset, AnalystAssumption
  <1> QED BY <1>1, <1>3, FS_Subset, FS_CardinalityType

\* A failure counted for a call that had no verdict yet adds that call.
LEMMA FailureAdds ==
    ASSUME TypeOK, NEW r \in Requests, NEW w \in Workers, worker[r] = w, verdict[r] = None,
           NEW v \in {"timeout", "error"}, Gives(r, v), worker' = worker
    PROVE  Cardinality(Unanswered(w)') = Cardinality(Unanswered(w)) + 1
  <1>1. Unanswered(w)' = Unanswered(w) \union {r}
    BY DEF Unanswered, Gives, TypeOK
  <1>2. r \notin Unanswered(w)
    BY DEF Unanswered, None
  <1>3. IsFiniteSet(Unanswered(w))
    BY FS_Subset, AnalystAssumption DEF Unanswered
  <1> QED BY <1>1, <1>2, <1>3, FS_AddElement

\* A breaker starts without failures.
LEMMA EarnedInit == Init => EarnedInv
  <1> SUFFICES ASSUME Init PROVE EarnedInv
    OBVIOUS
  <1>1. IInv
    BY InitEstablishes
  <1>2. \A w \in Workers : Cardinality(Unanswered(w)) \in Nat
    BY FS_Subset, FS_CardinalityType, AnalystAssumption DEF Unanswered
  <1>3. FailuresEarned
    BY <1>2 DEF Init, FailuresEarned, FreshBreaker
  <1>4. OpenIsEarned
    BY DEF Init, OpenIsEarned, None
  <1> QED BY <1>1, <1>3, <1>4 DEF EarnedInv

\* A breaker counts a failure only with a call that ends unanswered.
LEMMA EarnedNext == EarnedInv /\ [Next]_vars => EarnedInv'
  <1> SUFFICES ASSUME EarnedInv, [Next]_vars PROVE EarnedInv'
    OBVIOUS
  <1> USE DEF EarnedInv
  <1>1. IInv'
    BY NextPreserves
  <1>2. worker' = worker
    BY DEF Next, vars, callVars, RedisStep, LoopStep, GeminiStep, Analyze, ServeLookup,
           CacheHit, Denied, Admitted, Answered, RateLimited, Retry, Failed, BadAnswer,
           GivesUp, TimedOut, Store, CountFailOpen, SetExpiry, CountingFails,
           CacheExpires, CountExpires, Tick, Restart
  <1>3. \A r \in Requests : verdict[r] \in {"timeout", "error"} => verdict'[r] = verdict[r]
    <2> USE DEF IInv, TypeOK, CallsConsistent, Move, Gives, Answers, None
    <2>1. ASSUME NEW q \in Requests, LoopStep(q) \/ RedisStep(q)
          PROVE  \A r \in Requests :
                     verdict[r] \in {"timeout", "error"} => verdict'[r] = verdict[r]
      BY <2>1 DEF LoopStep, RedisStep, ServeLookup, CacheHit, Denied, Admitted, Retry,
                  Store, CountFailOpen, SetExpiry, CountingFails
    <2>2. ASSUME NEW q \in Requests, GeminiStep(q)
          PROVE  \A r \in Requests :
                     verdict[r] \in {"timeout", "error"} => verdict'[r] = verdict[r]
      BY <2>2 DEF GeminiStep, Answered, RateLimited, Failed, BadAnswer, GivesUp, TimedOut
    <2>3. CASE \/ \E r \in Requests, k \in Keys : Analyze(r, k)
               \/ \E k \in Keys : CacheExpires(k)
               \/ CountExpires \/ Tick \/ UNCHANGED vars
               \/ \E w \in Workers : Restart(w)
      BY <2>3 DEF Analyze, CacheExpires, CountExpires, Tick, Restart, vars, callVars
    <2> QED BY <2>1, <2>2, <2>3 DEF Next
  <1>4. \A w \in Workers :
            /\ Cardinality(Unanswered(w)) \in Nat /\ Cardinality(Unanswered(w)') \in Nat
            /\ Cardinality(Unanswered(w)) <= Cardinality(Unanswered(w)')
    BY <1>2, <1>3, UnansweredGrows
  <1>5. ASSUME NEW w \in Workers, breaker'[w].failures <= breaker[w].failures,
               breaker'[w].failures \in Nat, breaker[w].failures \in Nat
        PROVE  breaker'[w].failures <= Cardinality(Unanswered(w)')
    BY <1>4, <1>5 DEF FailuresEarned
  <1>6. \A w \in Workers : breaker[w].failures \in Nat /\ breaker'[w].failures \in Nat
    BY <1>1 DEF IInv, TypeOK, Breakers
  <1>7. ASSUME NEW r \in Requests, NEW v \in {"timeout", "error"},
               pc[r] = "calling", Gives(r, v),
               SetHome(r, RecordFailure(Home(r))) \/ SetHome(r, Home(r))
        PROVE  FailuresEarned'
    <2>1. PICK w \in Workers : w = worker[r]
      BY DEF IInv, TypeOK
    <2>2. Cardinality(Unanswered(w)') = Cardinality(Unanswered(w)) + 1
      BY <1>2, <1>7, <2>1, FailureAdds DEF IInv, CallsConsistent
    <2>3. /\ \A x \in Workers \ {w} : breaker'[x] = breaker[x]
          /\ breaker'[w].failures <= breaker[w].failures + 1
      BY <1>6, <1>7, <2>1 DEF SetHome, Home, RecordFailure, IInv, TypeOK, Breakers
    <2>4. breaker'[w].failures <= Cardinality(Unanswered(w)')
      BY <1>4, <1>6, <2>2, <2>3 DEF FailuresEarned
    <2> QED BY <1>5, <1>6, <2>3, <2>4 DEF FailuresEarned
  <1>8. FailuresEarned'
    <2>1. ASSUME NEW r \in Requests, NEW text \in ErrorTexts, GivesUp(r, text)
          PROVE  FailuresEarned'
      BY <1>7, <2>1 DEF GivesUp, Move
    <2>2. ASSUME NEW r \in Requests, TimedOut(r)
          PROVE  FailuresEarned'
      BY <1>7, <2>2 DEF TimedOut, Move
    <2>3. ASSUME NEW r \in Requests,
                 Admitted(r) \/ \E a \in Answers : Answered(r, a)
          PROVE  FailuresEarned'
      <3>1. /\ Home(r) \in Breakers /\ worker[r] \in Workers
            /\ SetHome(r, AllowRequest(Home(r))) \/ SetHome(r, RecordSuccess(Home(r)))
        BY <2>3, HomeAgrees DEF Admitted, Answered, IInv, TypeOK
      <3>2. /\ AllowRequest(Home(r)).failures <= Home(r).failures
            /\ RecordSuccess(Home(r)).failures <= Home(r).failures
        BY <3>1 DEF AllowRequest, RecordSuccess, Breakers
      <3>3. \A w \in Workers : breaker'[w].failures <= breaker[w].failures
        BY <1>6, <3>1, <3>2 DEF SetHome, Home, IInv, TypeOK
      <3> QED BY <1>5, <1>6, <3>3 DEF FailuresEarned
    <2>4. CASE Tick
      <3>1. \A w \in Workers : breaker'[w].failures <= breaker[w].failures
        BY <1>6, <2>4 DEF Tick, Elapse, IInv, TypeOK, Breakers
      <3> QED BY <1>5, <1>6, <3>1 DEF FailuresEarned
    <2>5. ASSUME NEW w \in Workers, Restart(w)
          PROVE  FailuresEarned'
      <3>1. \A v \in Workers : breaker'[v].failures <= breaker[v].failures
        BY <1>6, <2>5 DEF Restart, FreshBreaker, IInv, TypeOK
      <3> QED BY <1>5, <1>6, <3>1 DEF FailuresEarned
    <2>6. CASE breaker' = breaker
      BY <1>5, <1>6, <2>6 DEF FailuresEarned
    <2>7. ASSUME NEW r \in Requests,
                 \/ \E k \in Keys : Analyze(r, k)
                 \/ RedisStep(r)
                 \/ CacheHit(r) \/ Denied(r) \/ Retry(r)
                 \/ \E text \in ErrorTexts : RateLimited(r, text)
          PROVE  breaker' = breaker
      BY <2>7 DEF Analyze, RedisStep, ServeLookup, Store, CountFailOpen, SetExpiry,
                  CountingFails, CacheHit, Denied, Retry, RateLimited
    <2>8. (\E k \in Keys : CacheExpires(k)) \/ CountExpires \/ UNCHANGED vars
             => breaker' = breaker
      BY DEF CacheExpires, CountExpires, vars
    <2> QED
      BY <2>1, <2>2, <2>3, <2>4, <2>5, <2>6, <2>7, <2>8
      DEF Next, LoopStep, GeminiStep, Failed, BadAnswer
  <1>9. OpenIsEarned'
    <2>1. ASSUME NEW r \in Requests, verdict'[r] = "open"
          PROVE  verdict[r] = "open" \/ (Denied(r) /\ breaker' = breaker)
      <3> USE DEF IInv, TypeOK, CallsConsistent, Move, Gives, Answers, None
      <3>1. ASSUME NEW q \in Requests, Denied(q)
            PROVE  verdict[r] = "open" \/ (Denied(r) /\ breaker' = breaker)
        BY <2>1, <3>1 DEF Denied
      <3>2. ASSUME NEW q \in Requests, RedisStep(q) \/ CacheHit(q) \/ Admitted(q) \/ Retry(q)
            PROVE  verdict[r] = "open"
        BY <2>1, <3>2 DEF RedisStep, ServeLookup, CacheHit, Admitted, Retry,
                          Store, CountFailOpen, SetExpiry, CountingFails
      <3>3. ASSUME NEW q \in Requests, GeminiStep(q)
            PROVE  verdict[r] = "open"
        BY <2>1, <3>3 DEF GeminiStep, Answered, RateLimited, Failed, BadAnswer, GivesUp,
                          TimedOut
      <3>4. ASSUME \/ \E q \in Requests, k \in Keys : Analyze(q, k)
                   \/ \E k \in Keys : CacheExpires(k)
                   \/ CountExpires \/ Tick \/ UNCHANGED vars
                   \/ \E w \in Workers : Restart(w)
            PROVE  verdict[r] = "open"
        BY <2>1, <3>4 DEF Analyze, CacheExpires, CountExpires, Tick, Restart, vars, callVars
      <3> QED BY <3>1, <3>2, <3>3, <3>4 DEF Next, LoopStep
    <2>2. ASSUME NEW r \in Requests, verdict'[r] = "open"
          PROVE  Cardinality(Unanswered(worker[r])) >= Threshold
      <3>1. CASE verdict[r] = "open"
        BY <3>1 DEF OpenIsEarned
      <3>2. CASE Denied(r)
        <4>1. Home(r).state = "open" /\ worker[r] \in Workers
          BY <3>2 DEF Denied, Allows, IInv, TypeOK
        <4>2. ~(breaker[worker[r]].failures < Threshold)
          BY <4>1 DEF Home, IInv, BreakerConsistent
        <4> QED
          BY <1>4, <1>6, <4>1, <4>2, BreakerAssumption DEF FailuresEarned
      <3> QED BY <2>1, <2>2, <3>1, <3>2
    <2>3. ASSUME NEW r \in Requests, NEW w \in Workers, worker[r] = w, verdict'[r] = "open"
          PROVE  Cardinality(Unanswered(w)') >= Threshold
      <3>1. Cardinality(Unanswered(w)) >= Threshold
        BY <2>2, <2>3
      <3> QED BY <1>4, <3>1, BreakerAssumption
    <2>4. \A r \in Requests : worker[r] \in Workers
      BY DEF IInv, TypeOK
    <2> QED BY <1>2, <2>3, <2>4 DEF OpenIsEarned, Unanswered
  <1> QED BY <1>1, <1>8, <1>9

\* No call is refused by a breaker on less than THRESHOLD failed calls of
\* the same worker.
THEOREM RefusalsAreEarned == Spec => []OpenIsEarned
  BY EarnedInit, EarnedNext, PTL DEF Spec, EarnedInv

-----------------------------------------------------------------------------
(* Analyst implements VerdictService.                                      *)

\* No analysis was asked for, nothing was said.
LEMMA RefinesInit == Init => Service!Init
  BY DEF Init, Service!Init, Returned, None, Service!None

\* A step that neither ends a call nor touches its key or the answers
\* given is invisible to the caller.
LEMMA Invisible ==
    ASSUME UNCHANGED <<key, said>>,
           \A r \in Requests :
               \/ pc'[r] = pc[r] /\ verdict'[r] = verdict[r]
               \/ pc[r] \notin {"done", "lost"} /\ pc'[r] \notin {"done", "lost"}
    PROVE  UNCHANGED Service!serviceVars
  BY DEF Service!serviceVars, Returned

\* A step that ends the call r, and no other.
LEMMA Ending ==
    ASSUME TypeOK, NEW r \in Requests, pc[r] \notin {"done", "lost"},
           pc' = [pc EXCEPT ![r] = "done"], UNCHANGED <<verdict, key, said>>
    PROVE  /\ Returned' = [Returned EXCEPT ![r] = verdict[r]]
           /\ Returned[r] = None
  BY DEF TypeOK, Returned

\* A step of analyze() is a step of the service, or the service sees none.
LEMMA RefinesNext == IInv /\ [Next]_vars => [Service!Next]_Service!serviceVars
  <1> SUFFICES ASSUME IInv, [Next]_vars PROVE [Service!Next]_Service!serviceVars
    OBVIOUS
  <1> USE DEF Move, Gives, Answers, Service!Answers, FailOpens, Service!FailOpens,
              None, Service!None, Service!Lost
  <1>1. ASSUME NEW r \in Requests, NEW k \in Keys, Analyze(r, k)
        PROVE  Service!Next
    <2>1. Returned' = Returned
      BY <1>1 DEF Analyze, Returned, IInv, TypeOK
    <2>2. key[r] = NoKey
      BY <1>1 DEF Analyze, IInv, CallsConsistent
    <2>3. Service!Ask(r, k)
      BY <1>1, <2>1, <2>2 DEF Analyze, Service!Ask
    <2> QED BY <2>3 DEF Service!Next
  <1>2. ASSUME NEW r \in Requests, NEW a \in Answers, Answered(r, a)
        PROVE  Service!Next
    <2>1. Returned' = Returned /\ Returned[r] = None
      BY <1>2 DEF Answered, Returned, IInv, TypeOK
    <2>2. key[r] # NoKey
      BY <1>2 DEF Answered, IInv, CallsConsistent
    <2>3. Service!Judge(r, a)
      BY <1>2, <2>1, <2>2 DEF Answered, Service!Judge, Service!Pending
    <2> QED BY <2>3 DEF Service!Next
  <1>3. ASSUME NEW r \in Requests, CacheHit(r) \/ Store(r)
        PROVE  Service!Next
    <2>1. /\ pc[r] \in {"resume", "storing"} /\ verdict[r] \in Answers
          /\ pc' = [pc EXCEPT ![r] = "done"] /\ UNCHANGED <<verdict, key, said>>
      BY <1>3 DEF CacheHit, Store, IInv, CallsConsistent
    <2>2. key[r] # NoKey /\ verdict[r] \in said[key[r]]
      BY <2>1 DEF IInv, CallsConsistent, VerdictsFromGemini
    <2>3. Returned' = [Returned EXCEPT ![r] = verdict[r]] /\ Returned[r] = None
      BY <2>1, Ending DEF IInv
    <2>4. Service!Return(r, verdict[r])
      BY <2>1, <2>2, <2>3 DEF Service!Return, Service!Pending
    <2> QED BY <2>1, <2>4 DEF Service!Next
  <1>4. ASSUME NEW r \in Requests, SetExpiry(r) \/ CountingFails(r)
        PROVE  Service!Next
    <2>1. /\ pc[r] \in {"counting", "expiring"} /\ verdict[r] \in FailOpens
          /\ pc' = [pc EXCEPT ![r] = "done"] /\ UNCHANGED <<verdict, key, said>>
      BY <1>4 DEF SetExpiry, CountingFails, IInv, CallsConsistent
    <2>2. key[r] # NoKey
      BY <2>1 DEF IInv, CallsConsistent
    <2>3. Returned' = [Returned EXCEPT ![r] = verdict[r]] /\ Returned[r] = None
      BY <2>1, Ending DEF IInv
    <2>4. Service!FailOpen(r, verdict[r])
      BY <2>1, <2>2, <2>3 DEF Service!FailOpen, Service!Pending
    <2> QED BY <2>1, <2>4 DEF Service!Next
  <1>5. ASSUME NEW w \in Workers, Restart(w)
        PROVE  Service!Next
    <2> DEFINE R == {r \in Requests : worker[r] = w /\ pc[r] \in Suspended}
    <2>1. \A r \in R : Service!Pending(r)
      BY DEF IInv, CallsConsistent, Suspended, Service!Pending, Returned
    <2>2. Returned' = [r \in Requests |-> IF r \in R THEN "lost" ELSE Returned[r]]
      BY <1>5 DEF Restart, Returned, Suspended, IInv, TypeOK
    <2>3. Service!Lose(R)
      BY <1>5, <2>1, <2>2 DEF Restart, Service!Lose
    <2>4. R \in SUBSET Requests
      OBVIOUS
    <2> QED BY <2>3, <2>4 DEF Service!Next
  <1>6. ASSUME NEW r \in Requests,
               \/ ServeLookup(r) \/ Denied(r) \/ Admitted(r) \/ Retry(r)
               \/ TimedOut(r) \/ CountFailOpen(r)
               \/ \E text \in ErrorTexts : RateLimited(r, text) \/ GivesUp(r, text)
        PROVE  UNCHANGED Service!serviceVars
    <2>1. UNCHANGED <<key, said>>
      BY <1>6 DEF ServeLookup, Denied, Admitted, Retry, TimedOut, CountFailOpen,
                  RateLimited, GivesUp
    <2>2. \A q \in Requests :
              \/ pc'[q] = pc[q] /\ verdict'[q] = verdict[q]
              \/ pc[q] \notin {"done", "lost"} /\ pc'[q] \notin {"done", "lost"}
      BY <1>6 DEF ServeLookup, Denied, Admitted, Retry, TimedOut, CountFailOpen,
                  RateLimited, GivesUp, IInv, TypeOK
    <2> QED BY <2>1, <2>2, Invisible
  <1>7. (\E k \in Keys : CacheExpires(k)) \/ CountExpires \/ Tick \/ UNCHANGED vars
            => UNCHANGED Service!serviceVars
    BY DEF CacheExpires, CountExpires, Tick, vars, callVars, Service!serviceVars, Returned
  <1> QED
    BY <1>1, <1>2, <1>3, <1>4, <1>5, <1>6, <1>7
    DEF Next, RedisStep, LoopStep, GeminiStep, Failed, BadAnswer

\* The cache, the breakers, the retries and the timeouts are invisible to
\* the middleware: all it can see is a service that returns what Gemini
\* said or fails open, at most once per call.
THEOREM Implements == Spec => ServiceKept
  BY RefinesInit, RefinesNext, Invariance, PTL DEF Spec, ServiceKept, Service!Spec

-----------------------------------------------------------------------------
(* Termination.  That calls go on is fairness, which TLC checks; that none *)
(* can go on for ever is proved here.                                      *)

\* The steps call r may still take, two for each attempt it has left.
StepsLeft(r) ==
    CASE pc[r] = "idle"     -> 2 * MaxAttempts + 4
      [] pc[r] = "lookup"   -> 2 * MaxAttempts + 3
      [] pc[r] = "resume"   -> 2 * MaxAttempts + 2
      [] pc[r] = "calling"  -> 2 * (MaxAttempts - attempt[r]) + 1
      [] pc[r] = "backoff"  -> 2 * (MaxAttempts - attempt[r])
      [] pc[r] = "counting" -> 2
      [] pc[r] \in {"expiring", "storing"} -> 1
      [] OTHER              -> 0

CallStep(r) ==
    (\E k \in Keys : Analyze(r, k)) \/ RedisStep(r) \/ LoopStep(r) \/ GeminiStep(r)

\* Each step of a call leaves it fewer, whatever Redis, Gemini and the breaker
\* do; and nothing others do, restarts and the clock included, gives it more.
CallEnds ==
    [][\A r \in Requests :
          /\ CallStep(r) => StepsLeft(r)' < StepsLeft(r)
          /\ StepsLeft(r)' <= StepsLeft(r)]_vars

\* What StepsLeft is at each await.
LEMMA StepsTyped ==
    ASSUME TypeOK, NEW r \in Requests
    PROVE  /\ MaxAttempts \in Nat /\ MaxAttempts > 0
           /\ attempt[r] \in Nat /\ attempt[r] <= MaxAttempts - 1
           /\ StepsLeft(r) \in Nat
<1>1. MaxAttempts \in Nat /\ MaxAttempts > 0
  BY AnalystAssumption
<1>2. attempt[r] \in 0 .. MaxAttempts - 1
  BY DEF TypeOK
<1>. QED
  BY <1>1, <1>2 DEF StepsLeft

\* Each step of a call brings it closer to its verdict.
LEMMA CallDecreases ==
    ASSUME IInv, NEW r \in Requests, CallStep(r) PROVE StepsLeft(r)' < StepsLeft(r)
<1>1. TypeOK
  BY DEF IInv
<1> DEFINE Goes(from, to) == pc[r] = from /\ pc'[r] = to
<1>2. ASSUME NEW from, NEW to, Move(r, from, to) PROVE Goes(from, to)
  BY <1>1, <1>2 DEF Move, TypeOK
<1> DEFINE n == MaxAttempts  a == attempt[r]
<1>3. n \in Nat /\ n > 0 /\ a \in Nat /\ a <= n - 1
  BY <1>1, StepsTyped
<1>4. CASE \E k \in Keys : Analyze(r, k)
  BY <1>2, <1>3, <1>4 DEF Analyze, StepsLeft
<1>5. CASE RedisStep(r)
  <2>1. \/ Goes("lookup", "resume") \/ Goes("storing", "done") \/ Goes("counting", "expiring")
        \/ Goes("expiring", "done") \/ Goes("counting", "done")
    BY <1>2, <1>5 DEF RedisStep, ServeLookup, Store, CountFailOpen, SetExpiry, CountingFails
  <2>. QED
    BY <1>3, <2>1 DEF StepsLeft
<1>6. CASE CacheHit(r) \/ Denied(r)
  <2>1. Goes("resume", "done") \/ Goes("resume", "counting")
    BY <1>2, <1>6 DEF CacheHit, Denied
  <2>. QED
    BY <1>3, <2>1 DEF StepsLeft
<1>7. CASE Admitted(r)
  <2>1. Goes("resume", "calling") /\ attempt' = attempt
    BY <1>2, <1>7 DEF Admitted
  <2>. QED
    BY <1>3, <2>1 DEF StepsLeft
<1>8. CASE Retry(r)
  <2>1. Goes("backoff", "calling") /\ attempt'[r] = a + 1
    BY <1>1, <1>2, <1>8 DEF Retry, TypeOK
  <2>2. StepsLeft(r)' = 2 * (n - (a + 1)) + 1 /\ StepsLeft(r) = 2 * (n - a)
    BY <2>1 DEF StepsLeft
  <2>. QED
    BY <1>3, <2>2
<1>9. CASE GeminiStep(r)
  <2>1. \/ Goes("calling", "storing") \/ Goes("calling", "counting")
        \/ Goes("calling", "backoff") /\ attempt' = attempt
    BY <1>2, <1>9 DEF GeminiStep, Answered, RateLimited, Failed, BadAnswer, GivesUp, TimedOut
  <2>. QED
    BY <1>3, <2>1 DEF StepsLeft
<1>. QED
  BY <1>4, <1>5, <1>6, <1>7, <1>8, <1>9 DEF CallStep, LoopStep

\* What others do leaves a call where it is, or ends it.
LEMMA OthersKeepSteps ==
    ASSUME TypeOK, NEW r \in Requests, ~CallStep(r), [Next]_vars
    PROVE  pc'[r] = "lost" \/ (pc'[r] = pc[r] /\ attempt'[r] = attempt[r])
<1>1. ASSUME NEW q \in Requests, CallStep(q)
      PROVE  pc'[r] = pc[r] /\ attempt'[r] = attempt[r]
  <2>1. q # r
    BY <1>1
  <2>. QED
    BY <1>1, <2>1
       DEF TypeOK, CallStep, Analyze, RedisStep, ServeLookup, Store, CountFailOpen, SetExpiry,
           CountingFails, LoopStep, CacheHit, Denied, Admitted, Retry, GeminiStep, Answered,
           RateLimited, Failed, BadAnswer, GivesUp, TimedOut, Move
<1>2. ASSUME NEW w \in Workers, Restart(w)
      PROVE  pc'[r] = "lost" \/ (pc'[r] = pc[r] /\ attempt'[r] = attempt[r])
  BY <1>2 DEF Restart
<1>3. CASE (\E k \in Keys : CacheExpires(k)) \/ CountExpires \/ Tick \/ UNCHANGED vars
  BY <1>3 DEF CacheExpires, CountExpires, Tick, vars, callVars
<1>. QED
  BY <1>1, <1>2, <1>3 DEF Next, CallStep

\* analyze() ends after at most 2 * MaxAttempts + 4 steps of its own.
THEOREM CallsEnd == Spec => CallEnds
<1>1. IInv /\ IInv' /\ [Next]_vars =>
        [\A r \in Requests :
            /\ CallStep(r) => StepsLeft(r)' < StepsLeft(r)
            /\ StepsLeft(r)' <= StepsLeft(r)]_vars
  <2> SUFFICES ASSUME IInv, IInv', [Next]_vars, NEW r \in Requests
               PROVE  /\ CallStep(r) => StepsLeft(r)' < StepsLeft(r)
                      /\ StepsLeft(r)' <= StepsLeft(r)
    OBVIOUS
  <2>1. CallStep(r) => StepsLeft(r)' < StepsLeft(r)
    BY CallDecreases
  <2>2. StepsLeft(r) \in Nat
    BY StepsTyped DEF IInv
  <2>3. StepsLeft(r)' \in Nat
    <3>1. TypeOK'
      BY DEF IInv
    <3>2. attempt'[r] \in 0 .. MaxAttempts - 1
      BY <3>1 DEF TypeOK
    <3>. QED
      BY <3>2, AnalystAssumption DEF StepsLeft
  <2>4. ~CallStep(r) => StepsLeft(r)' = 0 \/ StepsLeft(r)' = StepsLeft(r)
    <3>1. ~CallStep(r) => pc'[r] = "lost" \/ (pc'[r] = pc[r] /\ attempt'[r] = attempt[r])
      BY OthersKeepSteps DEF IInv
    <3>. QED
      BY <3>1 DEF StepsLeft
  <2>. QED
    BY <2>1, <2>2, <2>3, <2>4
<1>. QED
  BY <1>1, Invariance, PTL DEF Spec, CallEnds

=============================================================================
