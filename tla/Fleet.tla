------------------------------- MODULE Fleet -------------------------------
(***************************************************************************)
(* The gateway among the processes that share its routing table:           *)
(*                                                                         *)
(*   workers        data_plane/main.py and worker/registration.py: start,  *)
(*                  the registration task, the shutdown hook, crashes      *)
(*   control plane  api/workers_api.py over registry/registry.py, whose    *)
(*                  handlers write Redis, then PostgreSQL; and             *)
(*                  registry/health_checker.py; restarts                   *)
(*                                                                         *)
(* upsert_worker (shared/db/crud.py:117) calls what only the insert of     *)
(* SQLAlchemy's dialects has; where Upserts is FALSE, as with the pinned   *)
(* release, it always raises.                                              *)
(*                                                                         *)
(* A handler is a record of what it still has to do; attempts of one       *)
(* worker are told apart by its life and the attempt's number.             *)
(*                                                                         *)
(*   phase[w]   "serving", then the awaits of the shutdown hook: "reading" *)
(*              and "writing" the entry, "sleeping", "leaving"             *)
(*   check[w]   the awaits of _check_worker: "pinging"; "reading",         *)
(*              "writing" and "mirroring" of mark_worker_unhealthy;        *)
(*              "removing" and "deleting" of deregister_worker             *)
(***************************************************************************)
EXTENDS Gateway

CONSTANTS
    Upserts,        \* whether Table.insert() has an on_conflict_do_update
    Attempts,       \* the range(5) of register
    MaxFailures,    \* MAX_FAILURES of the health checker
    MaxLives,       \* bound: starts of each worker
    MaxRestarts     \* bound: restarts of the control plane

ASSUME FleetAssumption ==
    /\ Upserts \in BOOLEAN
    /\ Attempts \in Nat \ {0}
    /\ MaxFailures \in Nat \ {0}
    /\ MaxLives \in Nat
    /\ MaxRestarts \in Nat

VARIABLES
    phase,
    life,           \* how often each worker has started
    task,           \* the registration task: "ready", "waiting" or "ended"
    tried,          \* the attempts it has made
    handlers,       \* requests in the hands of the control plane
    mirror,         \* status in the workers table, or "absent"
    check,
    failures,       \* _failure_counts, saturating at MaxFailures
    restarts

workerVars  == <<phase, life, task, tried>>
controlVars == <<handlers, mirror, check, failures, restarts>>
fleetVars   == <<vars, workerVars, controlVars>>

FleetInit ==
    /\ Init
    /\ phase = [w \in Workers |-> "down"]
    /\ life = [w \in Workers |-> 0]
    /\ task = [w \in Workers |-> "ended"]
    /\ tried = [w \in Workers |-> 0]
    /\ handlers = {}
    /\ mirror = [w \in Workers |-> "absent"]
    /\ check = [w \in Workers |-> "idle"]
    /\ failures = [w \in Workers |-> 0]
    /\ restarts = 0

Registration(w, step) ==
    [op |-> "register", worker |-> w, life |-> life[w], attempt |-> tried[w] + 1,
     step |-> step]
Deregistration(w, step) ==
    [op |-> "deregister", worker |-> w, life |-> life[w], attempt |-> 0, step |-> step]

Put(w, status) == routes' = [routes EXCEPT ![w] = status]
Phase(w, from, to) == phase[w] = from /\ phase' = [phase EXCEPT ![w] = to]

-----------------------------------------------------------------------------
(* A worker.                                                               *)

\* The startup hook creates the registration task before uvicorn listens.
Start(w) ==
    /\ Phase(w, "down", "serving")
    /\ life[w] < MaxLives
    /\ life' = [life EXCEPT ![w] = @ + 1]
    /\ task' = [task EXCEPT ![w] = "ready"]
    /\ tried' = [tried EXCEPT ![w] = 0]
    /\ UNCHANGED <<vars, controlVars>>

Listen(w) ==
    /\ phase[w] = "serving"
    /\ listening' = listening \union {w}
    /\ UNCHANGED <<routes, gatewayVars, workerVars, controlVars>>

\* One attempt of register(): a POST the control plane may get to late.
PostRegistration(w) ==
    /\ task[w] = "ready"
    /\ task' = [task EXCEPT ![w] = "waiting"]
    /\ handlers' = handlers \union {Registration(w, "redis")}
    /\ UNCHANGED <<vars, phase, life, tried, mirror, check, failures, restarts>>

\* Mutant: the attempts are compared before they are counted.
RegistrationFailsLate(w) ==
    /\ task[w] \in {"ready", "waiting"}
    /\ tried' = [tried EXCEPT ![w] = @ + 1]
    /\ task' = [task EXCEPT ![w] = IF tried[w] < Attempts THEN "ready" ELSE "ended"]
    /\ UNCHANGED <<vars, phase, life, controlVars>>

\* No connection, an error status, or no answer in 5 seconds.
RegistrationFails(w) ==
    /\ task[w] \in {"ready", "waiting"}
    /\ tried' = [tried EXCEPT ![w] = @ + 1]
    /\ task' = [task EXCEPT ![w] = IF tried'[w] < Attempts THEN "ready" ELSE "ended"]
    /\ UNCHANGED <<vars, phase, life, controlVars>>

\* uvicorn closes the listener, then runs the shutdown hook; nothing stops
\* the registration task.
Shutdown(w) ==
    /\ Phase(w, "serving", "reading")
    /\ listening' = listening \ {w}
    /\ UNCHANGED <<routes, gatewayVars, life, task, tried, controlVars>>

DrainRead(w) ==
    /\ Phase(w, "reading", IF routes[w] = "absent" THEN "sleeping" ELSE "writing")
    /\ UNCHANGED <<vars, life, task, tried, controlVars>>

\* Mutant: the status of a leaving worker is one the readers do not know.
DrainWriteStopping(w) ==
    /\ Phase(w, "writing", "sleeping")
    /\ Put(w, "stopping")
    /\ UNCHANGED <<listening, gatewayVars, life, task, tried, controlVars>>

DrainWrite(w) ==
    /\ Phase(w, "writing", "sleeping")
    /\ Put(w, "draining")
    /\ UNCHANGED <<listening, gatewayVars, life, task, tried, controlVars>>

DrainRaises(w) ==
    /\ Phase(w, "reading", "sleeping") \/ Phase(w, "writing", "sleeping")
    /\ UNCHANGED <<vars, life, task, tried, controlVars>>

\* After the drain window, a DELETE that may not reach the control plane.
Deregister(w) ==
    /\ Phase(w, "sleeping", "leaving")
    /\ handlers' \in {handlers, handlers \union {Deregistration(w, "redis")}}
    /\ UNCHANGED <<vars, life, task, tried, mirror, check, failures, restarts>>

Stop(w) ==
    /\ phase' = [phase EXCEPT ![w] = "down"]
    /\ listening' = listening \ {w}
    /\ task' = [task EXCEPT ![w] = "ended"]
    /\ UNCHANGED <<routes, gatewayVars, life, tried, controlVars>>

\* The DELETE is answered or times out, and the process ends.
Exit(w) == phase[w] = "leaving" /\ Stop(w)

Crash(w) == phase[w] # "down" /\ Stop(w)

-----------------------------------------------------------------------------
(* The handlers of the control plane.                                      *)

Replace(h, hs) == handlers' = (handlers \ {h}) \union hs

\* register_worker and deregister_worker, the Redis half.
WriteRoute(h) ==
    /\ h.step = "redis"
    /\ Put(h.worker, IF h.op = "register" THEN "healthy" ELSE "absent")
    /\ Replace(h, {[h EXCEPT !.step = "db"]})
    /\ UNCHANGED <<listening, gatewayVars, workerVars, mirror, check, failures, restarts>>

\* After the audit entry, whose errors are swallowed, the 200 of an attempt
\* reaches the worker that still waits for it, unless the network loses it.
AnswerAttempt(h) ==
    LET w == h.worker
    IN \/ UNCHANGED task
       \/ /\ h.op = "register" /\ task[w] = "waiting"
          /\ h.life = life[w] /\ h.attempt = tried[w] + 1
          /\ task' = [task EXCEPT ![w] = "ended"]

\* ... and the PostgreSQL half.
WriteRow(h) ==
    /\ h.step = "db"
    /\ h.op = "register" => Upserts
    /\ mirror' = [mirror EXCEPT ![h.worker] =
                     IF h.op = "register" THEN "healthy" ELSE "absent"]
    /\ AnswerAttempt(h)
    /\ Replace(h, {})
    /\ UNCHANGED <<vars, phase, life, tried, check, failures, restarts>>

\* Redis or PostgreSQL refuses, or upsert_worker raises: the handler ends in a 500 where it is.
HandlerRaises(h) ==
    /\ Replace(h, {})
    /\ UNCHANGED <<vars, workerVars, mirror, check, failures, restarts>>

-----------------------------------------------------------------------------
(* The health checker.                                                     *)

Check(w, from, to) == check[w] = from /\ check' = [check EXCEPT ![w] = to]

\* One gather over every entry, whatever its status; the next cycle starts
\* when all of its checks have ended.
StartCycle ==
    /\ \A w \in Workers : check[w] = "idle"
    /\ check' = [w \in Workers |-> IF routes[w] = "absent" THEN "idle" ELSE "pinging"]
    /\ UNCHANGED <<vars, workerVars, handlers, mirror, failures, restarts>>

PingAnswered(w) ==
    /\ Check(w, "pinging", "idle")
    /\ w \in listening
    /\ failures' = [failures EXCEPT ![w] = 0]
    /\ UNCHANGED <<vars, workerVars, handlers, mirror, restarts>>

\* Mutant: only the latest failure is counted.
PingFailsForgetful(w) ==
    /\ failures' = [failures EXCEPT ![w] = 1]
    /\ Check(w, "pinging", IF MaxFailures <= 1 THEN "reading" ELSE "idle")
    /\ UNCHANGED <<vars, workerVars, handlers, mirror, restarts>>

\* No answer in 3 seconds, or a status other than 200: the middleware
\* proxies /health, so that one is the upstream's.
PingFails(w) ==
    /\ failures' = [failures EXCEPT ![w] = IF @ < MaxFailures THEN @ + 1 ELSE @]
    /\ Check(w, "pinging", IF failures'[w] = MaxFailures THEN "reading" ELSE "idle")
    /\ UNCHANGED <<vars, workerVars, handlers, mirror, restarts>>

\* mark_worker_unhealthy.
UnhealthyRead(w) ==
    /\ Check(w, "reading", IF routes[w] = "absent" THEN "mirroring" ELSE "writing")
    /\ UNCHANGED <<vars, workerVars, handlers, mirror, failures, restarts>>

UnhealthyWrite(w) ==
    /\ Check(w, "writing", "mirroring")
    /\ Put(w, "unhealthy")
    /\ UNCHANGED <<listening, gatewayVars, workerVars, handlers, mirror, failures, restarts>>

UnhealthyMirror(w) ==
    /\ Check(w, "mirroring", "removing")
    /\ Upserts
    /\ mirror' = [mirror EXCEPT ![w] = "unhealthy"]
    /\ UNCHANGED <<vars, workerVars, handlers, failures, restarts>>

\* deregister_worker, then the pop of the failure count.
RemoveRoute(w) ==
    /\ Check(w, "removing", "deleting")
    /\ Put(w, "absent")
    /\ UNCHANGED <<listening, gatewayVars, workerVars, handlers, mirror, failures, restarts>>

DeleteRow(w) ==
    /\ Check(w, "deleting", "idle")
    /\ mirror' = [mirror EXCEPT ![w] = "absent"]
    /\ failures' = [failures EXCEPT ![w] = 0]
    /\ UNCHANGED <<vars, workerVars, handlers, restarts>>

\* An error of Redis, PostgreSQL or upsert_worker ends the check: gather
\* returns it.
CheckRaises(w) ==
    /\ check[w] \in {"reading", "writing", "mirroring", "removing", "deleting"}
    /\ check' = [check EXCEPT ![w] = "idle"]
    /\ UNCHANGED <<vars, workerVars, handlers, mirror, failures, restarts>>

\* The control plane dies and starts again: what it had in hand is lost.
ControlRestart ==
    /\ restarts < MaxRestarts
    /\ restarts' = restarts + 1
    /\ handlers' = {}
    /\ check' = [w \in Workers |-> "idle"]
    /\ failures' = [w \in Workers |-> 0]
    /\ UNCHANGED <<vars, workerVars, mirror>>

-----------------------------------------------------------------------------
RegistrationTask(w) == PostRegistration(w) \/ RegistrationFails(w)

Lifecycle(w) ==
    \/ Start(w) \/ Listen(w) \/ RegistrationTask(w)
    \/ Shutdown(w) \/ DrainRead(w) \/ DrainWrite(w) \/ DrainRaises(w)
    \/ Deregister(w) \/ Exit(w) \/ Crash(w)

Handle(h) == WriteRoute(h) \/ WriteRow(h) \/ HandlerRaises(h)

CheckWorker(w) ==
    \/ PingAnswered(w) \/ PingFails(w)
    \/ UnhealthyRead(w) \/ UnhealthyWrite(w) \/ UnhealthyMirror(w)
    \/ RemoveRoute(w) \/ DeleteRow(w) \/ CheckRaises(w)

FleetNext ==
    \/ (\E c \in Calls : Route(c)) /\ UNCHANGED <<workerVars, controlVars>>
    \/ \E w \in Workers : Lifecycle(w) \/ CheckWorker(w)
    \/ \E h \in handlers : Handle(h)
    \/ StartCycle
    \/ ControlRestart

FleetSpec == FleetInit /\ [][FleetNext]_fleetVars

\* asyncio runs what is ready, every await ends in an answer or an error,
\* and Redis does not refuse for ever.
RedisFairness ==
    /\ WF_fleetVars(StartCycle)
    /\ WF_fleetVars(\E h \in handlers : Handle(h))
    /\ \A w \in Workers :
          /\ WF_fleetVars(RegistrationTask(w))
          /\ WF_fleetVars(CheckWorker(w))
          /\ SF_fleetVars(UnhealthyRead(w))
          /\ SF_fleetVars(UnhealthyWrite(w))

FairFleetSpec == FleetSpec /\ RedisFairness /\ Fairness

-----------------------------------------------------------------------------
FleetTypeOK ==
    /\ TypeOK
    /\ phase \in [Workers -> {"down", "serving", "reading", "writing", "sleeping", "leaving"}]
    /\ life \in [Workers -> 0 .. MaxLives]
    /\ task \in [Workers -> {"ready", "waiting", "ended"}]
    /\ tried \in [Workers -> 0 .. Attempts]
    /\ handlers \subseteq [op : {"register", "deregister"}, worker : Workers,
                           life : 0 .. MaxLives, attempt : 0 .. Attempts,
                           step : {"redis", "db"}]
    /\ mirror \in [Workers -> {"absent", "healthy", "unhealthy"}]
    /\ check \in [Workers -> {"idle", "pinging", "reading", "writing", "mirroring",
                              "removing", "deleting"}]
    /\ failures \in [Workers -> 0 .. MaxFailures]
    /\ restarts \in 0 .. MaxRestarts

Dead(w) == phase[w] = "down"

\* The gateway stops routing to a worker that stays dead, even if every write
\* to PostgreSQL raises, although late registrations bring its entry back.
DeadWorkersUnrouted ==
    \A w \in Workers : <>[]Dead(w) => <>[](routes[w] # "healthy")

-----------------------------------------------------------------------------
(* What the documents and tests say and the code does not do.              *)

\* tests/test_worker_router.py:369, "health_checker.py will eventually
\* restore it to healthy when the worker recovers": a worker that listens
\* and answers pings from some time on is routed again.
Answering(w) == w \in listening /\ failures[w] = 0 /\ routes[w] # "absent"
RecoveredRestored ==
    \A w \in Workers : <>[]Answering(w) => []<>(routes[w] = "healthy")

=============================================================================
