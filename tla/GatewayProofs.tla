--------------------------- MODULE GatewayProofs ---------------------------
(***************************************************************************)
(* The forward loop, for any number of workers and concurrent calls and    *)
(* any changes to the routing table.  TypeOK and the properties are not    *)
(* inductive: what a call has done so far depends on where it stands,      *)
(* which LoopInv says.                                                     *)
(***************************************************************************)
EXTENDS Gateway, Integers, FiniteSetTheorems, TLAPS

InHand == {"sending", "awaiting", "marking", "writing"}

\* The candidates of a call are split into those to come, the one in hand
\* and those that failed; only the one in hand and the failed ones may have
\* been handed the request.
LoopInv(c) ==
    /\ todo[c] \subseteq snapshot[c]
    /\ \A w \in Workers :
          /\ received[c][w] \in {0, 1}
          /\ w \in todo[c] \/ w \notin snapshot[c] => received[c][w] = 0
    /\ pc[c] = "idle" => snapshot[c] = {}
    /\ pc[c] \in {"idle", "selecting"} =>
          failed[c] = {} /\ \A w \in Workers : received[c][w] = 0
    /\ pc[c] \in InHand => at[c] \in snapshot[c] \ todo[c]
    /\ pc[c] = "sending" => received[c][at[c]] = 0
    /\ pc[c] = "awaiting" => received[c][at[c]] = 1
    /\ pc[c] \in {"sending", "awaiting"} =>
          failed[c] = snapshot[c] \ (todo[c] \union {at[c]})
    /\ pc[c] \in {"marking", "writing"} => failed[c] = snapshot[c] \ todo[c]
    /\ pc[c] # "done" => answer[c] = None
    /\ answer[c] = "503" => failed[c] = snapshot[c]
    /\ answer[c] = "worker" =>
          at[c] \in snapshot[c] \ failed[c] /\ received[c][at[c]] = 1

Inv == TypeOK /\ \A c \in Calls : LoopInv(c)

\* A step of one call leaves the state of every other alone.
LEMMA OtherCalls ==
    ASSUME Inv, NEW c \in Calls, Route(c), NEW d \in Calls, d # c
    PROVE  LoopInv(d)'
<1>1. /\ pc'[d] = pc[d] /\ snapshot'[d] = snapshot[d] /\ todo'[d] = todo[d]
      /\ at'[d] = at[d] /\ answer'[d] = answer[d]
      /\ received'[d] = received[d] /\ failed'[d] = failed[d]
  BY DEF Inv, TypeOK, Route, Snapshot, Select, RedisRaises, HandOver, Reply, BadStatus,
         Unreachable, CandidateFails, Mark, MarkRead, MarkWrite, MarkRaises, TryNext,
         Answers, Move
<1> QED
  BY <1>1 DEF Inv, LoopInv, InHand

\* A call that has marked its candidate turns to the next one, or gives up.
LEMMA NextCandidate ==
    ASSUME Inv, NEW c \in Calls, pc[c] \in {"marking", "writing"}, TryNext(c),
           UNCHANGED <<snapshot, received, failed>>
    PROVE  /\ LoopInv(c)'
           /\ pc' \in [Calls -> {"idle", "selecting", "sending", "awaiting", "marking",
                                 "writing", "done"}]
           /\ todo' \in [Calls -> SUBSET Workers]
           /\ at' \in [Calls -> Workers \union {None}]
           /\ answer' \in [Calls -> {None, "worker", "500", "503"}]
<1> USE DEF Inv, TypeOK, LoopInv, InHand, None
<1>1. ASSUME todo[c] = {}, pc' = [pc EXCEPT ![c] = "done"],
             answer' = [answer EXCEPT ![c] = "503"], UNCHANGED <<todo, at>>
      PROVE  LoopInv(c)'
  <2>1. failed[c] = snapshot[c] \ todo[c] /\ LoopInv(c)
    OBVIOUS
  <2>2. failed[c] = snapshot[c]
    BY <2>1, <1>1
  <2>3. pc'[c] = "done" /\ answer'[c] = "503"
    BY <1>1
  <2> QED
    BY <2>1, <2>2, <2>3, <1>1
<1>2. ASSUME NEW w \in todo[c],
             pc' = [pc EXCEPT ![c] = "sending"], at' = [at EXCEPT ![c] = w],
             todo' = [todo EXCEPT ![c] = @ \ {w}], UNCHANGED answer
      PROVE  LoopInv(c)' /\ todo' \in [Calls -> SUBSET Workers]
                         /\ at' \in [Calls -> Workers \union {None}]
  <2>1. /\ pc'[c] = "sending" /\ at'[c] = w /\ todo'[c] = todo[c] \ {w}
        /\ w \in Workers /\ received[c][w] = 0 /\ failed[c] = snapshot[c] \ todo[c]
    BY <1>2
  <2> QED
    BY <2>1, <1>2
<1>3. /\ pc' \in [Calls -> {"idle", "selecting", "sending", "awaiting", "marking",
                            "writing", "done"}]
      /\ answer' \in [Calls -> {None, "worker", "500", "503"}]
  BY DEF TryNext
<1> QED
  BY <1>1, <1>2, <1>3 DEF TryNext

\* No call has started.
LEMMA Initially == Init => Inv
BY DEF Init, Inv, TypeOK, LoopInv, InHand, Statuses, None

\* Each step of a call keeps what the loop knows, and the environment too.
LEMMA Invariance == Inv /\ [Next]_vars => Inv'
<1> SUFFICES ASSUME Inv, [Next]_vars PROVE Inv'
  OBVIOUS
<1> USE DEF Inv, Statuses, None
<1>1. ASSUME NEW c \in Calls, Route(c), TypeOK', LoopInv(c)' PROVE Inv'
  BY <1>1, OtherCalls
<1>2. ASSUME NEW c \in Calls, Snapshot(c) PROVE Inv'
  <2>1. TypeOK'
    BY <1>2 DEF Snapshot, Answers, Move, Healthy, TypeOK
  <2>2. /\ pc[c] = "idle" /\ todo[c] = {} /\ snapshot'[c] = Healthy
        /\ UNCHANGED <<todo, at, received, failed>>
    BY <1>2 DEF Snapshot, Answers, Move, TypeOK, LoopInv
  <2>3. \/ Healthy = {} /\ pc'[c] = "done" /\ answer'[c] = "503"
        \/ pc'[c] = "selecting" /\ answer'[c] = answer[c]
    BY <1>2 DEF Snapshot, Answers, Move, TypeOK
  <2>4. LoopInv(c)'
    BY <2>2, <2>3 DEF LoopInv, InHand
  <2> QED
    BY <2>1, <2>4, <1>1, <1>2 DEF Route
<1>3. ASSUME NEW c \in Calls, Select(c) PROVE Inv'
  <2>1. TypeOK' /\ LoopInv(c)'
    BY <1>3 DEF Select, Move, TypeOK, LoopInv, InHand
  <2> QED
    BY <2>1, <1>1, <1>3 DEF Route
<1>4. ASSUME NEW c \in Calls, RedisRaises(c) PROVE Inv'
  <2>1. TypeOK'
    BY <1>4 DEF RedisRaises, Answers, Move, TypeOK
  <2>2. pc'[c] = "done" /\ answer'[c] = "500"
    BY <1>4 DEF RedisRaises, Answers, Move, TypeOK
  <2>3. LoopInv(c)'
    BY <2>2, <1>4 DEF RedisRaises, TypeOK, LoopInv, InHand
  <2> QED
    BY <2>1, <2>3, <1>1, <1>4 DEF Route
<1>5. ASSUME NEW c \in Calls, HandOver(c) PROVE Inv'
  <2>1. at[c] \in Workers /\ received[c][at[c]] = 0
    BY <1>5 DEF HandOver, Move, TypeOK, LoopInv, InHand
  <2>2. received' = [received EXCEPT ![c] = [@ EXCEPT ![at[c]] = 1]]
    BY <2>1, <1>5 DEF HandOver, TypeOK
  <2>3. TypeOK'
    BY <2>1, <2>2, <1>5 DEF HandOver, Move, TypeOK
  <2>4. LoopInv(c)'
    BY <2>1, <2>2, <1>5 DEF HandOver, Move, TypeOK, LoopInv, InHand
  <2> QED
    BY <2>3, <2>4, <1>1, <1>5 DEF Route
<1>6. ASSUME NEW c \in Calls, Reply(c) PROVE Inv'
  <2>1. TypeOK' /\ LoopInv(c)'
    BY <1>6 DEF Reply, Answers, Move, TypeOK, LoopInv, InHand
  <2> QED
    BY <2>1, <1>1, <1>6 DEF Route
<1>7. ASSUME NEW c \in Calls, BadStatus(c) \/ Unreachable(c) PROVE Inv'
  <2>1. at[c] \in Workers
    BY <1>7 DEF BadStatus, Unreachable, Move, TypeOK, LoopInv, InHand
  <2>2. /\ pc[c] \in {"sending", "awaiting"} /\ pc' = [pc EXCEPT ![c] = "marking"]
        /\ failed' = [failed EXCEPT ![c] = @ \union {at[c]}]
        /\ UNCHANGED <<routes, listening, snapshot, todo, at, answer, received>>
    BY <1>7 DEF BadStatus, Unreachable, CandidateFails, Move
  <2>3. TypeOK'
    BY <2>1, <2>2 DEF TypeOK
  <2>4. pc'[c] = "marking" /\ failed'[c] = failed[c] \union {at[c]}
    BY <2>2 DEF TypeOK
  <2>5. failed'[c] = snapshot[c] \ todo[c]
    BY <2>2, <2>4 DEF LoopInv, InHand
  <2>6. LoopInv(c)'
    BY <2>2, <2>4, <2>5 DEF LoopInv, InHand
  <2> QED
    BY <2>3, <2>6, <1>1, <1>7 DEF Route
<1>8. ASSUME NEW c \in Calls, MarkRead(c) PROVE Inv'
  <2>1. CASE routes[at[c]] = "absent" /\ TryNext(c)
    <3>1. LoopInv(c)' /\ TypeOK'
      BY <2>1, <1>8, NextCandidate DEF MarkRead, TypeOK
    <3> QED
      BY <3>1, <1>1, <1>8 DEF Route, Mark
  <2>2. CASE pc' = [pc EXCEPT ![c] = "writing"] /\ UNCHANGED <<todo, at, answer>>
    <3>1. TypeOK' /\ LoopInv(c)'
      BY <2>2, <1>8 DEF MarkRead, TypeOK, LoopInv, InHand
    <3> QED
      BY <3>1, <1>1, <1>8 DEF Route, Mark
  <2> QED
    BY <2>1, <2>2, <1>8 DEF MarkRead
<1>9. ASSUME NEW c \in Calls, MarkWrite(c) PROVE Inv'
  <2>1. LoopInv(c)' /\ TypeOK'
    BY <1>9, NextCandidate DEF MarkWrite, TypeOK
  <2> QED
    BY <2>1, <1>1, <1>9 DEF Route, Mark
<1>10. ASSUME NEW c \in Calls, MarkRaises(c) PROVE Inv'
  <2>1. LoopInv(c)' /\ TypeOK'
    BY <1>10, NextCandidate DEF MarkRaises, TypeOK
  <2> QED
    BY <2>1, <1>1, <1>10 DEF Route, Mark
<1>11. CASE Environment \/ UNCHANGED vars
  <2>1. UNCHANGED gatewayVars
    BY <1>11 DEF Environment, vars
  <2>2. ASSUME NEW c \in Calls PROVE LoopInv(c)'
    BY <2>1 DEF gatewayVars, LoopInv, InHand
  <2>3. TypeOK'
    <3>1. CASE Environment
      BY <3>1 DEF Environment, gatewayVars, TypeOK
    <3>2. CASE UNCHANGED vars
      BY <3>2 DEF vars, gatewayVars, TypeOK
    <3> QED
      BY <1>11, <3>1, <3>2
  <2> QED
    BY <2>2, <2>3
<1> QED
  BY <1>2, <1>3, <1>4, <1>5, <1>6, <1>7, <1>8, <1>9, <1>10, <1>11
     DEF Next, Route, Mark

\* LoopInv holds at every await of every call.
LEMMA Always == Spec => []Inv
BY Initially, Invariance, PTL DEF Spec

\* Types of the gateway.
THEOREM TypeCorrect == Spec => []TypeOK
BY Always, PTL DEF Inv

\* However the routing table changes under the loop of worker_router.py, no
\* worker is handed the same request twice.
THEOREM HandedOnce == Spec => []AtMostOncePerWorker
<1>1. Inv => AtMostOncePerWorker
  BY DEF Inv, TypeOK, LoopInv, AtMostOncePerWorker
<1> QED
  BY <1>1, Always, PTL

\* A 503 comes after every candidate of the snapshot failed.
THEOREM TriesAll == Spec => []GivesUpLast
<1>1. Inv => GivesUpLast
  BY DEF Inv, LoopInv, GivesUpLast
<1> QED
  BY <1>1, Always, PTL

\* An answer relayed as a worker's comes from the candidate in hand, which
\* was handed the request and did not fail it.
THEOREM AnsweredByCandidate == Spec => []AnswerIsOfCandidate
<1>1. Inv => AnswerIsOfCandidate
  BY DEF Inv, LoopInv, AnswerIsOfCandidate
<1> QED
  BY <1>1, Always, PTL

\* _mark_worker_failed only hits workers that failed, whatever the table
\* becomes between the failure and the mark.
THEOREM MarksAreEarned == Spec => OnlyFailuresMarked
<1>1. Inv => [\A c \in Calls, w \in Workers :
                 Route(c) /\ routes'[w] # routes[w] =>
                     w \in failed[c] /\ routes'[w] = "unhealthy"]_vars
  <2> SUFFICES ASSUME Inv, NEW c \in Calls, NEW w \in Workers, Route(c), routes'[w] # routes[w]
               PROVE  w \in failed[c] /\ routes'[w] = "unhealthy"
    OBVIOUS
  <2>1. MarkWrite(c)
    BY DEF Route, Snapshot, Select, RedisRaises, HandOver, Reply, BadStatus, Unreachable,
           CandidateFails, Mark, MarkRead, MarkRaises
  <2>2. at[c] = w /\ routes'[w] = "unhealthy"
    BY <2>1 DEF MarkWrite, Inv, TypeOK
  <2>3. at[c] \in snapshot[c] \ todo[c] /\ failed[c] = snapshot[c] \ todo[c]
    BY <2>1 DEF MarkWrite, Inv, LoopInv, InHand
  <2>. QED
    BY <2>2, <2>3
<1>. QED
  BY <1>1, Always, PTL DEF OnlyFailuresMarked

-----------------------------------------------------------------------------
(* Termination.  That a step is taken is fairness, which TLC checks; that  *)
(* no call can go on taking them is proved here.                           *)

\* The steps a call may still take: four per candidate to come, and those of
\* the candidate in hand.
StepsLeft(c) ==
    CASE pc[c] = "idle"      -> 4 * Cardinality(Workers) + 6
      [] pc[c] = "selecting" -> 4 * Cardinality(Workers) + 5
      [] pc[c] = "sending"   -> 4 * Cardinality(todo[c]) + 4
      [] pc[c] = "awaiting"  -> 4 * Cardinality(todo[c]) + 3
      [] pc[c] = "marking"   -> 4 * Cardinality(todo[c]) + 2
      [] pc[c] = "writing"   -> 4 * Cardinality(todo[c]) + 1
      [] OTHER               -> 0

\* Each step of a call leaves it fewer, and nothing else gives it more: the
\* loop ends, however the table, the workers and the other calls go on.
LoopEnds ==
    [][\A c \in Calls :
          /\ Route(c) => StepsLeft(c)' < StepsLeft(c)
          /\ StepsLeft(c)' <= StepsLeft(c)]_vars

\* A call has at most four steps for each worker and six of its own.
StepsBounded == \A c \in Calls : StepsLeft(c) \in 0 .. 4 * Cardinality(Workers) + 6

\* How many candidates there can be.
LEMMA Candidates ==
    ASSUME TypeOK, NEW c \in Calls
    PROVE  /\ IsFiniteSet(todo[c]) /\ Cardinality(todo[c]) \in Nat
           /\ Cardinality(todo[c]) <= Cardinality(Workers)
           /\ IsFiniteSet(Workers) /\ Cardinality(Workers) \in Nat
  BY GatewayAssumption, FS_Subset, FS_CardinalityType DEF TypeOK

\* The loop turns to a next candidate with one less to come.
LEMMA TryNextCounts ==
    ASSUME TypeOK, NEW c \in Calls, TryNext(c)
    PROVE  \/ pc'[c] = "done"
           \/ /\ pc'[c] = "sending" /\ Cardinality(todo'[c]) \in Nat
              /\ Cardinality(todo'[c]) + 1 = Cardinality(todo[c])
<1>1. CASE pc' = [pc EXCEPT ![c] = "done"]
  BY <1>1 DEF TypeOK
<1>2. ASSUME NEW w \in todo[c], pc' = [pc EXCEPT ![c] = "sending"],
             todo' = [todo EXCEPT ![c] = @ \ {w}]
      PROVE  /\ pc'[c] = "sending" /\ Cardinality(todo'[c]) \in Nat
             /\ Cardinality(todo'[c]) + 1 = Cardinality(todo[c])
  <2>1. todo'[c] = todo[c] \ {w} /\ pc'[c] = "sending"
    BY <1>2 DEF TypeOK
  <2>2. IsFiniteSet(todo[c] \ {w}) /\ Cardinality(todo[c] \ {w}) = Cardinality(todo[c]) - 1
    BY Candidates, FS_RemoveElement
  <2>. QED
    BY <2>1, <2>2, Candidates, FS_CardinalityType
<1>. QED
  BY <1>1, <1>2 DEF TryNext

\* So a call that was marking its candidate has fewer steps left.
LEMMA TryNextDecreases ==
    ASSUME TypeOK, NEW c \in Calls, TryNext(c), pc[c] \in {"marking", "writing"}
    PROVE  StepsLeft(c)' < StepsLeft(c)
<1>1. StepsLeft(c) >= 4 * Cardinality(todo[c]) + 1 /\ StepsLeft(c) \in Nat
  BY Candidates DEF StepsLeft
<1>2. CASE pc'[c] = "done"
  BY <1>1, <1>2, Candidates DEF StepsLeft
<1>3. CASE /\ pc'[c] = "sending" /\ Cardinality(todo'[c]) \in Nat
           /\ Cardinality(todo'[c]) + 1 = Cardinality(todo[c])
  <2>1. StepsLeft(c)' = 4 * Cardinality(todo'[c]) + 4
    BY <1>3 DEF StepsLeft
  <2>. QED
    BY <1>1, <1>3, <2>1, Candidates
<1>. QED
  BY <1>2, <1>3, TryNextCounts

\* Each step of a call brings it closer to its answer.
LEMMA RouteDecreases ==
    ASSUME Inv, NEW c \in Calls, Route(c) PROVE StepsLeft(c)' < StepsLeft(c)
<1> USE DEF Inv
<1>1. TypeOK
  OBVIOUS
<1>2. CASE Snapshot(c)
  <2>1. pc[c] = "idle" /\ pc'[c] \in {"done", "selecting"}
    BY <1>1, <1>2 DEF Snapshot, Answers, Move, TypeOK
  <2>. QED
    BY <1>1, <2>1, Candidates DEF StepsLeft
<1>3. CASE Select(c)
  <2>1. pc[c] = "selecting" /\ pc'[c] = "sending"
    BY <1>1, <1>3 DEF Select, Move, TypeOK
  <2>2. Cardinality(todo'[c]) \in Nat /\ Cardinality(todo'[c]) < Cardinality(Workers)
    <3>1. PICK w \in snapshot[c] : todo'[c] = snapshot[c] \ {w}
      BY <1>1, <1>3 DEF Select, TypeOK
    <3>2. todo'[c] \subseteq Workers \ {w} /\ w \in Workers
      BY <1>1, <3>1 DEF TypeOK
    <3>3. IsFiniteSet(Workers \ {w}) /\ Cardinality(Workers \ {w}) = Cardinality(Workers) - 1
      BY <1>1, <3>2, Candidates, FS_RemoveElement
    <3>. QED
      BY <1>1, <3>2, <3>3, Candidates, FS_Subset, FS_CardinalityType
  <2>3. StepsLeft(c)' = 4 * Cardinality(todo'[c]) + 4 /\ StepsLeft(c) = 4 * Cardinality(Workers) + 5
    BY <2>1 DEF StepsLeft
  <2>. QED
    BY <1>1, <2>2, <2>3, Candidates
<1>4. CASE RedisRaises(c) \/ Reply(c)
  <2>1. pc[c] \in {"idle", "selecting", "awaiting"} /\ pc'[c] = "done"
    BY <1>1, <1>4 DEF RedisRaises, Reply, Answers, Move, TypeOK
  <2>. QED
    BY <1>1, <2>1, Candidates DEF StepsLeft
<1>5. CASE HandOver(c) \/ BadStatus(c) \/ Unreachable(c)
  <2>1. /\ todo' = todo
        /\ \/ pc[c] = "sending" /\ pc'[c] \in {"awaiting", "marking"}
           \/ pc[c] = "awaiting" /\ pc'[c] = "marking"
    BY <1>1, <1>5 DEF HandOver, BadStatus, Unreachable, CandidateFails, Move, TypeOK
  <2>. QED
    BY <1>1, <2>1, Candidates DEF StepsLeft
<1>6. CASE Mark(c)
  <2>1. CASE TryNext(c)
    BY <1>1, <1>6, <2>1, TryNextDecreases DEF Mark, MarkRead, MarkWrite, MarkRaises
  <2>2. CASE ~TryNext(c)
    <3>1. pc[c] = "marking" /\ pc'[c] = "writing" /\ todo' = todo
      BY <1>1, <1>6, <2>2 DEF Mark, MarkRead, MarkWrite, MarkRaises, TypeOK
    <3>. QED
      BY <1>1, <3>1, Candidates DEF StepsLeft
  <2>. QED
    BY <2>1, <2>2
<1>. QED
  BY <1>2, <1>3, <1>4, <1>5, <1>6 DEF Route

\* StepsLeft is a number, within its bound.
LEMMA StepsTyped == TypeOK => StepsBounded
  BY Candidates DEF StepsBounded, StepsLeft

\* forward_to_worker takes finitely many steps, for any number of workers.
THEOREM StepsAreBounded == Spec => []StepsBounded
BY StepsTyped, TypeCorrect, PTL

\* The loop of forward_to_worker ends, whatever else happens.
THEOREM LoopsEnd == Spec => LoopEnds
<1>1. Inv /\ [Next]_vars =>
        [\A c \in Calls :
            /\ Route(c) => StepsLeft(c)' < StepsLeft(c)
            /\ StepsLeft(c)' <= StepsLeft(c)]_vars
  <2> SUFFICES ASSUME Inv, Next, NEW c \in Calls
               PROVE  /\ Route(c) => StepsLeft(c)' < StepsLeft(c)
                      /\ StepsLeft(c)' <= StepsLeft(c)
    OBVIOUS
  <2>1. Route(c) => StepsLeft(c)' < StepsLeft(c)
    BY RouteDecreases
  <2>2. StepsLeft(c) \in Int /\ StepsLeft(c)' \in Int
    <3>1. TypeOK /\ TypeOK'
      BY Invariance DEF Inv
    <3>2. StepsBounded /\ StepsBounded'
      BY <3>1, StepsTyped, PTL
    <3>. QED
      BY <3>2 DEF StepsBounded
  <2>3. CASE ~Route(c)
    <3>1. pc'[c] = pc[c] /\ todo'[c] = todo[c]
      <4>1. CASE Environment
        BY <4>1 DEF Environment, gatewayVars
      <4>2. ASSUME NEW d \in Calls, Route(d), d # c PROVE pc'[c] = pc[c] /\ todo'[c] = todo[c]
        BY <4>2 DEF Inv, TypeOK, Route, Snapshot, Select, RedisRaises, HandOver, Reply,
                    BadStatus, Unreachable, CandidateFails, Mark, MarkRead, MarkWrite,
                    MarkRaises, TryNext, Answers, Move
      <4>. QED
        BY <2>3, <4>1, <4>2 DEF Next
    <3>2. StepsLeft(c)' = StepsLeft(c)
      BY <3>1 DEF StepsLeft
    <3>. QED
      BY <2>2, <2>3, <3>2
  <2>. QED
    BY <2>1, <2>2, <2>3
<1>. QED
  BY <1>1, Always, PTL DEF LoopEnds, Spec

=============================================================================
