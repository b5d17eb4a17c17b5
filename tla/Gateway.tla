------------------------------ MODULE Gateway ------------------------------
(***************************************************************************)
(* The load balancer of the SSL gateway, ssl_gateway/worker_router.py:     *)
(* forward_to_worker for concurrent requests, over the routing table in    *)
(* the Redis hash cognithhorn:workers, which the control plane and the     *)
(* workers change at any time (module Fleet says how; here, arbitrarily).  *)
(*                                                                         *)
(*   pc[c]        "selecting"  await of the INCR, the snapshot in hand     *)
(*                "sending"    connecting to candidate at[c]               *)
(*                "awaiting"   the candidate has the request               *)
(*                "marking"    await of the HGET of _mark_worker_failed    *)
(*                "writing"    await of its HSET                           *)
(***************************************************************************)
EXTENDS Naturals, FiniteSets

CONSTANTS
    Workers,
    Calls           \* requests to the gateway, each made once

ASSUME GatewayAssumption == IsFiniteSet(Workers)

VARIABLES
    routes,         \* status of each worker's entry in cognithhorn:workers
    listening,      \* the workers that accept connections
    pc,
    snapshot,       \* the workers list of each call
    todo,           \* the candidates the loop has not reached
    at,             \* the candidate in hand
    answer,         \* what the client got
    received,       \* history: how often each worker was handed each call
    failed          \* history: the candidates that failed each call

gatewayVars == <<pc, snapshot, todo, at, answer, received, failed>>
vars == <<routes, listening, gatewayVars>>

Statuses == {"absent", "healthy", "unhealthy", "draining"}
Healthy == {w \in Workers : routes[w] = "healthy"}

None == "none"

Init ==
    /\ routes = [w \in Workers |-> "absent"]
    /\ listening = {}
    /\ pc = [c \in Calls |-> "idle"]
    /\ snapshot = [c \in Calls |-> {}]
    /\ todo = [c \in Calls |-> {}]
    /\ at = [c \in Calls |-> None]
    /\ answer = [c \in Calls |-> None]
    /\ received = [c \in Calls |-> [w \in Workers |-> 0]]
    /\ failed = [c \in Calls |-> {}]

Move(c, from, to) == pc[c] = from /\ pc' = [pc EXCEPT ![c] = to]

Answers(c, from, code) == Move(c, from, "done") /\ answer' = [answer EXCEPT ![c] = code]

-----------------------------------------------------------------------------
\* get_workers(): the healthy entries of one HGETALL.
Snapshot(c) ==
    /\ snapshot' = [snapshot EXCEPT ![c] = Healthy]
    /\ \/ Healthy = {} /\ Answers(c, "idle", "503")
       \/ Healthy # {} /\ Move(c, "idle", "selecting") /\ UNCHANGED answer
    /\ UNCHANGED <<routes, listening, todo, at, received, failed>>

\* Mutant: the selected worker stays among the remaining ones.
SelectKept(c) ==
    /\ Move(c, "selecting", "sending")
    /\ \E w \in snapshot[c] :
          /\ at' = [at EXCEPT ![c] = w]
          /\ todo' = [todo EXCEPT ![c] = snapshot[c]]
    /\ UNCHANGED <<routes, listening, snapshot, answer, received, failed>>

\* select_worker(): what INCR gives is a place in the order of HGETALL, which
\* removals, a new encoding of the hash and failovers change, and an INCR
\* whose reply was lost skips a number: any worker of the snapshot.
Select(c) ==
    /\ Move(c, "selecting", "sending")
    /\ \E w \in snapshot[c] :
          /\ at' = [at EXCEPT ![c] = w]
          /\ todo' = [todo EXCEPT ![c] = snapshot[c] \ {w}]
    /\ UNCHANGED <<routes, listening, snapshot, answer, received, failed>>

\* A Redis error in either of them leaves forward_to_worker.
RedisRaises(c) ==
    /\ Answers(c, "idle", "500") \/ Answers(c, "selecting", "500")
    /\ UNCHANGED <<routes, listening, snapshot, todo, at, received, failed>>

\* The loop turns to a next candidate, or ends in a 503.
TryNext(c) ==
    \/ /\ todo[c] = {}
       /\ pc' = [pc EXCEPT ![c] = "done"]
       /\ answer' = [answer EXCEPT ![c] = "503"]
       /\ UNCHANGED <<todo, at>>
    \/ \E w \in todo[c] :
          /\ pc' = [pc EXCEPT ![c] = "sending"]
          /\ at' = [at EXCEPT ![c] = w]
          /\ todo' = [todo EXCEPT ![c] = @ \ {w}]
          /\ UNCHANGED answer

-----------------------------------------------------------------------------
HandOver(c) ==
    /\ Move(c, "sending", "awaiting")
    /\ at[c] \in listening
    /\ received' = [received EXCEPT ![c][at[c]] = @ + 1]
    /\ UNCHANGED <<routes, listening, snapshot, todo, at, answer, failed>>

\* Mutant: the status is looked at after the worker was marked.
ReplyLate(c) ==
    /\ Answers(c, "awaiting", "worker") \/ Answers(c, "marking", "worker")
    /\ UNCHANGED <<routes, listening, snapshot, todo, at, received, failed>>

\* Any status but 502, 503 and 504 is the client's answer.
Reply(c) ==
    /\ Answers(c, "awaiting", "worker")
    /\ UNCHANGED <<routes, listening, snapshot, todo, at, received, failed>>

CandidateFails(c) ==
    /\ failed' = [failed EXCEPT ![c] = @ \union {at[c]}]
    /\ UNCHANGED <<routes, listening, snapshot, todo, at, answer, received>>

\* The worker relays the 502, 503 or 504 of its upstream.
BadStatus(c) == Move(c, "awaiting", "marking") /\ CandidateFails(c)

\* Mutant: the timeout covers the connection only.
UnreachableConnect(c) == Move(c, "sending", "marking") /\ CandidateFails(c)

\* It refuses the connection, breaks it, or takes more than 30 seconds.
Unreachable(c) ==
    /\ Move(c, "sending", "marking") \/ Move(c, "awaiting", "marking")
    /\ CandidateFails(c)

\* _mark_worker_failed reads the entry, which may be gone by now ...
MarkRead(c) ==
    /\ pc[c] = "marking"
    /\ \/ /\ routes[at[c]] # "absent"
          /\ pc' = [pc EXCEPT ![c] = "writing"]
          /\ UNCHANGED <<todo, at, answer>>
       \/ routes[at[c]] = "absent" /\ TryNext(c)
    /\ UNCHANGED <<routes, listening, snapshot, received, failed>>

\* Mutant: the status written is the name of the function.
MarkWriteFailed(c) ==
    /\ pc[c] = "writing"
    /\ routes' = [routes EXCEPT ![at[c]] = "failed"]
    /\ TryNext(c)
    /\ UNCHANGED <<listening, snapshot, received, failed>>

\* Mutant: the entry marked is that of the candidate the loop turns to.
MarkWriteNext(c) ==
    /\ pc[c] = "writing"
    /\ TryNext(c)
    /\ routes' = [routes EXCEPT ![at'[c]] = "unhealthy"]
    /\ UNCHANGED <<listening, snapshot, received, failed>>

\* ... and writes it back, though it may be gone, or new, by then.
MarkWrite(c) ==
    /\ pc[c] = "writing"
    /\ routes' = [routes EXCEPT ![at[c]] = "unhealthy"]
    /\ TryNext(c)
    /\ UNCHANGED <<listening, snapshot, received, failed>>

\* Mutant: a Redis error in between ends the loop.
MarkRaisesGivingUp(c) ==
    /\ pc[c] \in {"marking", "writing"}
    /\ pc' = [pc EXCEPT ![c] = "done"]
    /\ answer' = [answer EXCEPT ![c] = "503"]
    /\ UNCHANGED <<routes, listening, snapshot, todo, at, received, failed>>

\* A Redis error in between is swallowed.
MarkRaises(c) ==
    /\ pc[c] \in {"marking", "writing"}
    /\ TryNext(c)
    /\ UNCHANGED <<routes, listening, snapshot, received, failed>>

-----------------------------------------------------------------------------
\* Workers come and go, and others write to the table.
Environment ==
    /\ \E w \in Workers :
          \/ /\ \E s \in Statuses : routes' = [routes EXCEPT ![w] = s]
             /\ UNCHANGED listening
          \/ /\ listening' \in {listening \union {w}, listening \ {w}}
             /\ UNCHANGED routes
    /\ UNCHANGED gatewayVars

Mark(c) == MarkRead(c) \/ MarkWrite(c) \/ MarkRaises(c)

Route(c) ==
    \/ Snapshot(c) \/ Select(c) \/ RedisRaises(c)
    \/ HandOver(c) \/ Reply(c) \/ BadStatus(c) \/ Unreachable(c)
    \/ Mark(c)

Next == (\E c \in Calls : Route(c)) \/ Environment

Spec == Init /\ [][Next]_vars

\* Redis answers or refuses, and the 30-second timeout of httpx fires: it is
\* for each read, and a worker has its whole answer before it sends any of it.
Fairness ==
    \A c \in Calls :
        /\ WF_vars(Select(c) \/ RedisRaises(c))
        /\ WF_vars(Mark(c))
        /\ WF_vars(Unreachable(c))

FairSpec == Spec /\ Fairness

-----------------------------------------------------------------------------
TypeOK ==
    /\ routes \in [Workers -> Statuses]
    /\ listening \in SUBSET Workers
    /\ pc \in [Calls -> {"idle", "selecting", "sending", "awaiting", "marking",
                         "writing", "done"}]
    /\ snapshot \in [Calls -> SUBSET Workers]
    /\ todo \in [Calls -> SUBSET Workers]
    /\ at \in [Calls -> Workers \union {None}]
    /\ answer \in [Calls -> {None, "worker", "500", "503"}]
    /\ received \in [Calls -> [Workers -> Nat]]
    /\ failed \in [Calls -> SUBSET Workers]

\* No worker is handed the same request twice, however often the table
\* changes under the loop: a request that fails is repeated at most once
\* per worker of its snapshot.
AtMostOncePerWorker ==
    \A c \in Calls, w \in Workers :
        received[c][w] <= 1 /\ (received[c][w] = 1 => w \in snapshot[c])

\* The docstring of forward_to_worker: a 503 comes only after every worker
\* of the snapshot was tried and failed.
GivesUpLast ==
    \A c \in Calls : answer[c] = "503" => failed[c] = snapshot[c]

\* An answer is a worker's only if the worker in hand was handed the request
\* and did not fail it.
AnswerIsOfCandidate ==
    \A c \in Calls :
        answer[c] = "worker" => at[c] \notin failed[c] /\ received[c][at[c]] = 1

\* The loop changes an entry only to call it unhealthy, and only the entry of
\* a worker that failed the request of this very call, whatever the table
\* became between the failure, the HGET and the HSET (worker_router.py:87-95).
OnlyFailuresMarked ==
    [][\A c \in Calls, w \in Workers :
          Route(c) /\ routes'[w] # routes[w] =>
              w \in failed[c] /\ routes'[w] = "unhealthy"]_vars

\* Every request the gateway starts to route is answered.
EveryCallAnswered == \A c \in Calls : pc[c] = "selecting" ~> pc[c] = "done"

=============================================================================
