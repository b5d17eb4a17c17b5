---------------------------- MODULE FleetProofs ----------------------------
(***************************************************************************)
(* The fleet is one of the environments module Gateway allows: whatever    *)
(* the workers and the control plane do to the routing table, the forward  *)
(* loop keeps the promises proved in GatewayProofs.                        *)
(***************************************************************************)
EXTENDS Fleet, GatewayProofs

\* The part of the state the gateway shares with the others.
SharedTypeOK ==
    /\ routes \in [Workers -> Statuses]
    /\ listening \in SUBSET Workers

\* What a worker or the control plane does, the gateway sees as its
\* environment or not at all.
LEMMA OthersAreEnvironment ==
    ASSUME SharedTypeOK,
           \/ \E w \in Workers : Lifecycle(w) \/ CheckWorker(w)
           \/ \E h \in handlers : Handle(h)
           \/ StartCycle
           \/ ControlRestart
    PROVE  Environment \/ UNCHANGED vars
<1> USE DEF SharedTypeOK, Statuses
<1>1. ASSUME NEW w \in Workers, Lifecycle(w) PROVE Environment \/ UNCHANGED vars
  <2>1. CASE Listen(w)
    BY <2>1 DEF Listen, Environment
  <2>2. CASE Shutdown(w)
    BY <2>2 DEF Shutdown, Environment
  <2>3. CASE DrainWrite(w)
    BY <2>3 DEF DrainWrite, Put, Environment
  <2>4. CASE Exit(w) \/ Crash(w)
    BY <2>4 DEF Exit, Crash, Stop, Environment
  <2>5. CASE Start(w) \/ RegistrationTask(w)
    BY <2>5 DEF Start, RegistrationTask, PostRegistration, RegistrationFails
  <2>6. CASE DrainRead(w) \/ DrainRaises(w) \/ Deregister(w)
    BY <2>6 DEF DrainRead, DrainRaises, Deregister
  <2> QED
    BY <1>1, <2>1, <2>2, <2>3, <2>4, <2>5, <2>6 DEF Lifecycle
<1>2. ASSUME NEW w \in Workers, CheckWorker(w) PROVE Environment \/ UNCHANGED vars
  <2>1. CASE UnhealthyWrite(w) \/ RemoveRoute(w)
    BY <2>1 DEF UnhealthyWrite, RemoveRoute, Put, Environment
  <2>2. CASE PingAnswered(w) \/ PingFails(w) \/ UnhealthyRead(w)
    BY <2>2 DEF PingAnswered, PingFails, UnhealthyRead
  <2>3. CASE UnhealthyMirror(w) \/ DeleteRow(w) \/ CheckRaises(w)
    BY <2>3 DEF UnhealthyMirror, DeleteRow, CheckRaises
  <2> QED
    BY <1>2, <2>1, <2>2, <2>3 DEF CheckWorker
<1>3. ASSUME NEW h \in handlers, Handle(h) PROVE Environment \/ UNCHANGED vars
  <2>1. CASE WriteRoute(h)
    <3> DEFINE status == IF h.op = "register" THEN "healthy" ELSE "absent"
    <3>1. /\ status \in Statuses
          /\ routes' = [routes EXCEPT ![h.worker] = status]
          /\ UNCHANGED <<listening, gatewayVars>>
      BY <2>1 DEF WriteRoute, Put
    <3> HIDE DEF status
    <3>2. CASE h.worker \in Workers
      BY <3>1, <3>2 DEF Environment
    <3>3. CASE h.worker \notin Workers
      BY <3>1, <3>3 DEF vars
    <3> QED
      BY <3>2, <3>3
  <2>2. CASE WriteRow(h) \/ HandlerRaises(h)
    BY <2>2 DEF WriteRow, HandlerRaises
  <2> QED
    BY <1>3, <2>1, <2>2 DEF Handle
<1>4. StartCycle \/ ControlRestart => UNCHANGED vars
  BY DEF StartCycle, ControlRestart
<1> QED
  BY <1>1, <1>2, <1>3, <1>4

\* A step of the fleet is one the gateway specification allows.
LEMMA StepSimulation == SharedTypeOK /\ [FleetNext]_fleetVars => [Next]_vars
BY OthersAreEnvironment DEF FleetNext, Next, fleetVars

\* Every step keeps the types of what is shared.
LEMMA SharedTyped == SharedTypeOK /\ [Next]_vars => SharedTypeOK'
<1> SUFFICES ASSUME SharedTypeOK, [Next]_vars PROVE SharedTypeOK'
  OBVIOUS
<1> USE DEF SharedTypeOK, Statuses
<1>1. ASSUME NEW c \in Calls, Route(c) PROVE SharedTypeOK'
  <2>1. CASE MarkWrite(c)
    BY <2>1 DEF MarkWrite
  <2>2. CASE MarkRead(c) \/ MarkRaises(c)
    BY <2>2 DEF MarkRead, MarkRaises
  <2>3. CASE Snapshot(c) \/ Select(c) \/ RedisRaises(c) \/ HandOver(c) \/ Reply(c)
    BY <2>3 DEF Snapshot, Select, RedisRaises, HandOver, Reply
  <2>4. CASE BadStatus(c) \/ Unreachable(c)
    BY <2>4 DEF BadStatus, Unreachable, CandidateFails
  <2> QED
    BY <1>1, <2>1, <2>2, <2>3, <2>4 DEF Route, Mark
<1>2. CASE Environment
  BY <1>2 DEF Environment
<1>3. CASE UNCHANGED vars
  BY <1>3 DEF vars
<1> QED
  BY <1>1, <1>2, <1>3 DEF Next

\* A gateway among workers that start, drain, crash and are checked behaves
\* as module Gateway says.
THEOREM FleetImplementsGateway == FleetSpec => Spec
<1>1. FleetInit => Init /\ SharedTypeOK
  BY DEF FleetInit, Init, SharedTypeOK, Statuses
<1>2. SharedTypeOK /\ [FleetNext]_fleetVars => SharedTypeOK' /\ [Next]_vars
  BY StepSimulation, SharedTyped
<1> QED
  BY <1>1, <1>2, PTL DEF FleetSpec, Spec

\* So a request is handed to each worker at most once while the fleet
\* changes around it.
THEOREM FleetHandsOnce == FleetSpec => []AtMostOncePerWorker
BY FleetImplementsGateway, HandedOnce

-----------------------------------------------------------------------------
HandlerRecords ==
    [op : {"register", "deregister"}, worker : Workers, life : 0 .. MaxLives,
     attempt : 0 .. Attempts, step : {"redis", "db"}]

\* The state the fleet adds to the gateway's.
OwnTypeOK ==
    /\ phase \in [Workers -> {"down", "serving", "reading", "writing", "sleeping", "leaving"}]
    /\ life \in [Workers -> 0 .. MaxLives]
    /\ task \in [Workers -> {"ready", "waiting", "ended"}]
    /\ tried \in [Workers -> 0 .. Attempts]
    /\ handlers \subseteq HandlerRecords
    /\ mirror \in [Workers -> {"absent", "healthy", "unhealthy"}]
    /\ check \in [Workers -> {"idle", "pinging", "reading", "writing", "mirroring",
                              "removing", "deleting"}]
    /\ failures \in [Workers -> 0 .. MaxFailures]
    /\ restarts \in 0 .. MaxRestarts

\* The registration task runs only while it has attempts left, without which
\* the number of the next attempt is out of range.
AttemptLeft == \A w \in Workers : task[w] # "ended" => tried[w] < Attempts

OwnInv == OwnTypeOK /\ AttemptLeft

\* What a worker does keeps the fleet's own state in range.
LEMMA LifecycleTyped ==
    ASSUME OwnInv, NEW w \in Workers, Lifecycle(w) PROVE OwnInv'
<1> USE FleetAssumption DEF OwnInv, OwnTypeOK, AttemptLeft
<1>1. CASE Start(w)
  BY <1>1 DEF Start, Phase, controlVars
<1>2. CASE Listen(w)
  BY <1>2 DEF Listen, workerVars, controlVars
<1>3. CASE PostRegistration(w)
  <2>1. Registration(w, "redis") \in HandlerRecords
    BY <1>3 DEF PostRegistration, Registration, HandlerRecords
  <2> QED
    BY <2>1, <1>3 DEF PostRegistration
<1>4. CASE RegistrationFails(w)
  BY <1>4 DEF RegistrationFails, controlVars
<1>5. CASE Shutdown(w)
  BY <1>5 DEF Shutdown, Phase, controlVars
<1>6. CASE DrainRead(w)
  BY <1>6 DEF DrainRead, Phase, controlVars
<1>7. CASE DrainWrite(w) \/ DrainRaises(w)
  BY <1>7 DEF DrainWrite, DrainRaises, Phase, controlVars
<1>8. CASE Deregister(w)
  <2>1. Deregistration(w, "redis") \in HandlerRecords
    BY DEF Deregistration, HandlerRecords
  <2> QED
    BY <2>1, <1>8 DEF Deregister, Phase
<1>9. CASE Exit(w) \/ Crash(w)
  BY <1>9 DEF Exit, Crash, Stop, controlVars
<1> QED
  BY <1>1, <1>2, <1>3, <1>4, <1>5, <1>6, <1>7, <1>8, <1>9 DEF Lifecycle, RegistrationTask

\* So does what the handlers of the control plane do,
LEMMA HandlersTyped ==
    ASSUME OwnInv, NEW h \in handlers, Handle(h) PROVE OwnInv'
<1> USE DEF OwnInv, OwnTypeOK, AttemptLeft
<1>1. h \in HandlerRecords
  OBVIOUS
<1>2. CASE WriteRoute(h)
  <2>1. [h EXCEPT !.step = "db"] \in HandlerRecords
    BY <1>1 DEF HandlerRecords
  <2> QED
    BY <2>1, <1>2 DEF WriteRoute, Replace, workerVars
<1>3. CASE WriteRow(h)
  <2>1. h.worker \in Workers
    BY <1>1 DEF HandlerRecords
  <2> QED
    BY <2>1, <1>3 DEF WriteRow, AnswerAttempt, Replace
<1>4. CASE HandlerRaises(h)
  BY <1>4 DEF HandlerRaises, Replace, workerVars
<1> QED
  BY <1>2, <1>3, <1>4 DEF Handle

\* and what the health checker does.
LEMMA ChecksTyped ==
    ASSUME OwnInv, NEW w \in Workers, CheckWorker(w) PROVE OwnInv'
<1> USE FleetAssumption DEF OwnInv, OwnTypeOK, AttemptLeft, Check, workerVars
<1>1. CASE PingAnswered(w)
  BY <1>1 DEF PingAnswered
<1>2. CASE PingFails(w)
  BY <1>2 DEF PingFails
<1>3. CASE UnhealthyRead(w) \/ UnhealthyWrite(w) \/ UnhealthyMirror(w)
  BY <1>3 DEF UnhealthyRead, UnhealthyWrite, UnhealthyMirror
<1>4. CASE RemoveRoute(w) \/ DeleteRow(w)
  BY <1>4 DEF RemoveRoute, DeleteRow
<1>5. CASE CheckRaises(w)
  BY <1>5 DEF CheckRaises
<1> QED
  BY <1>1, <1>2, <1>3, <1>4, <1>5 DEF CheckWorker

\* The fleet's own state stays in range.
LEMMA OwnInvariant == FleetSpec => []OwnInv
<1>1. FleetInit => OwnInv
  BY FleetAssumption DEF FleetInit, OwnInv, OwnTypeOK, AttemptLeft
<1>2. OwnInv /\ [FleetNext]_fleetVars => OwnInv'
  <2> SUFFICES ASSUME OwnInv, [FleetNext]_fleetVars PROVE OwnInv'
    OBVIOUS
  <2>1. CASE UNCHANGED <<workerVars, controlVars>>
    BY <2>1 DEF OwnInv, OwnTypeOK, AttemptLeft, workerVars, controlVars
  <2>2. CASE StartCycle \/ ControlRestart
    BY <2>2, FleetAssumption
       DEF StartCycle, ControlRestart, OwnInv, OwnTypeOK, AttemptLeft, workerVars
  <2> QED
    BY <2>1, <2>2, LifecycleTyped, HandlersTyped, ChecksTyped DEF FleetNext, fleetVars
<1> QED
  BY <1>1, <1>2, PTL DEF FleetSpec

\* Type correctness of the fleet: every attempt number, life and failure
\* count stays in its range, whoever restarts when.
THEOREM FleetTypeCorrect == FleetSpec => []FleetTypeOK
<1>1. OwnInv /\ TypeOK => FleetTypeOK
  BY DEF OwnInv, OwnTypeOK, HandlerRecords, FleetTypeOK
<1> QED
  BY <1>1, OwnInvariant, FleetImplementsGateway, TypeCorrect, PTL

\* The gateway marks a worker only after a failure of its own, whoever writes
\* the entry between its reading and its writing.
THEOREM FleetMarksAreEarned == FleetSpec => OnlyFailuresMarked
BY FleetImplementsGateway, MarksAreEarned

\* The forward loop ends, whatever workers join, drain or die meanwhile.
THEOREM FleetLoopsEnd == FleetSpec => LoopEnds
BY FleetImplementsGateway, LoopsEnd

\* Nothing but a registration of the worker itself makes its entry healthy:
\* neither a ping that is answered nor any other step of the health checker,
\* the gateway or the worker's shutdown.
RestoredByRegistration ==
    [][\A w \in Workers :
          routes[w] # "healthy" /\ routes'[w] = "healthy" =>
              \E h \in handlers : h.op = "register" /\ h.worker = w /\ WriteRoute(h)]_fleetVars

\* So an entry the gateway marked stays so until its worker registers again.
THEOREM OnlyRegistrationRestores == FleetSpec => RestoredByRegistration
<1>1. SharedTypeOK /\ [FleetNext]_fleetVars =>
        [\A w \in Workers :
            routes[w] # "healthy" /\ routes'[w] = "healthy" =>
                \E h \in handlers : h.op = "register" /\ h.worker = w /\ WriteRoute(h)]_fleetVars
  <2> SUFFICES ASSUME SharedTypeOK, [FleetNext]_fleetVars, NEW w \in Workers,
                      routes[w] # "healthy", routes'[w] = "healthy"
               PROVE  \E h \in handlers : h.op = "register" /\ h.worker = w /\ WriteRoute(h)
    OBVIOUS
  <2> USE DEF SharedTypeOK
  <2>1. ASSUME NEW c \in Calls, Route(c) PROVE FALSE
    BY <2>1 DEF Route, Snapshot, Select, RedisRaises, HandOver, Reply, BadStatus, Unreachable,
                CandidateFails, Mark, MarkRead, MarkWrite, MarkRaises
  <2>2. ASSUME NEW v \in Workers, Lifecycle(v) PROVE FALSE
    BY <2>2 DEF Lifecycle, Start, Listen, RegistrationTask, PostRegistration, RegistrationFails,
                Shutdown, DrainRead, DrainWrite, DrainRaises, Deregister, Exit, Crash, Stop, Put,
                vars
  <2>3. ASSUME NEW v \in Workers, CheckWorker(v) PROVE FALSE
    BY <2>3 DEF CheckWorker, PingAnswered, PingFails, UnhealthyRead, UnhealthyWrite,
                UnhealthyMirror, RemoveRoute, DeleteRow, CheckRaises, Put, vars
  <2>4. ASSUME NEW h \in handlers, Handle(h)
        PROVE  h.op = "register" /\ h.worker = w /\ WriteRoute(h)
    BY <2>4 DEF Handle, WriteRoute, WriteRow, HandlerRaises, Put, vars
  <2>5. ~StartCycle /\ ~ControlRestart /\ ~UNCHANGED fleetVars
    BY DEF StartCycle, ControlRestart, fleetVars, vars
  <2>. QED
    BY <2>1, <2>2, <2>3, <2>4, <2>5 DEF FleetNext
<1>2. Spec => []SharedTypeOK
  <2>1. TypeOK => SharedTypeOK
    BY DEF TypeOK, SharedTypeOK
  <2>. QED
    BY <2>1, TypeCorrect, PTL
<1>. QED
  BY <1>1, <1>2, FleetImplementsGateway, PTL DEF FleetSpec, RestoredByRegistration

-----------------------------------------------------------------------------
(* The pinned SQLAlchemy: upsert_worker always raises.                     *)

\* Nothing but a DELETE of a worker removes its entry.
RemovedByDelete ==
    [][\A w \in Workers :
          routes[w] # "absent" /\ routes'[w] = "absent" =>
              \E h \in handlers : h.op = "deregister" /\ h.worker = w /\ WriteRoute(h)]_fleetVars

\* No check gets past the mirror write.
NoneRemoving == \A w \in Workers : check[w] \notin {"removing", "deleting"}

\* Where upsert_worker raises, the health checker never cleans up: the entry
\* of a dead worker stays, for any number of workers, checks and restarts
\* (health_checker.py:41-43, registry.py:54, shared/db/crud.py:117).
THEOREM HealthCheckerNeverRemoves == ASSUME ~Upserts PROVE FleetSpec => RemovedByDelete
<1>1. FleetInit => NoneRemoving
  BY DEF FleetInit, NoneRemoving
<1>2. OwnTypeOK /\ NoneRemoving /\ [FleetNext]_fleetVars => NoneRemoving'
  <2> SUFFICES ASSUME OwnTypeOK, NoneRemoving, [FleetNext]_fleetVars PROVE NoneRemoving'
    OBVIOUS
  <2> USE DEF NoneRemoving
  <2>1. ASSUME NEW w \in Workers, CheckWorker(w) PROVE NoneRemoving'
    BY <2>1 DEF CheckWorker, Check, PingAnswered, PingFails, UnhealthyRead, UnhealthyWrite,
                UnhealthyMirror, RemoveRoute, DeleteRow, CheckRaises, OwnTypeOK
  <2>2. ASSUME NEW w \in Workers, Lifecycle(w) PROVE UNCHANGED check
    BY <2>2 DEF Lifecycle, Start, Listen, RegistrationTask, PostRegistration, RegistrationFails,
                Shutdown, DrainRead, DrainWrite, DrainRaises, Deregister, Exit, Crash, Stop,
                controlVars
  <2>3. ASSUME NEW h \in handlers, Handle(h) PROVE UNCHANGED check
    BY <2>3 DEF Handle, WriteRoute, WriteRow, HandlerRaises
  <2>4. CASE StartCycle \/ ControlRestart
    BY <2>4 DEF StartCycle, ControlRestart
  <2>5. CASE UNCHANGED <<workerVars, controlVars>> \/ UNCHANGED fleetVars
    BY <2>5 DEF controlVars, fleetVars
  <2>. QED
    BY <2>1, <2>2, <2>3, <2>4, <2>5 DEF FleetNext
<1>3. SharedTypeOK /\ OwnTypeOK /\ NoneRemoving /\ [FleetNext]_fleetVars =>
        [\A w \in Workers :
            routes[w] # "absent" /\ routes'[w] = "absent" =>
                \E h \in handlers :
                    h.op = "deregister" /\ h.worker = w /\ WriteRoute(h)]_fleetVars
  <2> SUFFICES ASSUME SharedTypeOK, OwnTypeOK, NoneRemoving, [FleetNext]_fleetVars,
                      NEW w \in Workers, routes[w] # "absent", routes'[w] = "absent"
               PROVE  \E h \in handlers : h.op = "deregister" /\ h.worker = w /\ WriteRoute(h)
    OBVIOUS
  <2> USE DEF SharedTypeOK
  <2>1. ASSUME NEW c \in Calls, Route(c) PROVE FALSE
    BY <2>1 DEF Route, Snapshot, Select, RedisRaises, HandOver, Reply, BadStatus, Unreachable,
                CandidateFails, Mark, MarkRead, MarkWrite, MarkRaises
  <2>2. ASSUME NEW v \in Workers, Lifecycle(v) PROVE FALSE
    BY <2>2 DEF Lifecycle, Start, Listen, RegistrationTask, PostRegistration, RegistrationFails,
                Shutdown, DrainRead, DrainWrite, DrainRaises, Deregister, Exit, Crash, Stop, Put,
                vars
  <2>3. ASSUME NEW v \in Workers, CheckWorker(v) PROVE FALSE
    BY <2>3 DEF CheckWorker, PingAnswered, PingFails, UnhealthyRead, UnhealthyWrite,
                UnhealthyMirror, RemoveRoute, DeleteRow, CheckRaises, Put, Check, vars,
                NoneRemoving
  <2>4. ASSUME NEW h \in handlers, Handle(h), ~WriteRoute(h) PROVE FALSE
    BY <2>4 DEF Handle, WriteRow, HandlerRaises, vars
  <2>5. ASSUME NEW h \in handlers, WriteRoute(h) PROVE h.op # "register" /\ h.worker = w
    BY <2>5 DEF WriteRoute, Put
  <2>6. ~StartCycle /\ ~ControlRestart /\ ~UNCHANGED fleetVars
    BY DEF StartCycle, ControlRestart, fleetVars, vars
  <2>7. PICK h \in handlers : WriteRoute(h)
    BY <2>1, <2>2, <2>3, <2>4, <2>6 DEF FleetNext
  <2>8. h.op \in {"register", "deregister"}
    BY <2>7 DEF OwnTypeOK, HandlerRecords
  <2>. QED
    BY <2>5, <2>7, <2>8
<1>4. Spec => []SharedTypeOK
  <2>1. TypeOK => SharedTypeOK
    BY DEF TypeOK, SharedTypeOK
  <2>. QED
    BY <2>1, TypeCorrect, PTL
<1>5. OwnInv => OwnTypeOK
  BY DEF OwnInv
<1>. QED
  BY <1>1, <1>2, <1>3, <1>4, <1>5, OwnInvariant, FleetImplementsGateway, PTL
     DEF FleetSpec, RemovedByDelete

-----------------------------------------------------------------------------
(* Termination of a check.                                                 *)

\* The steps the check of w may still take.
CheckLeft(w) ==
    CASE check[w] = "pinging"   -> 6
      [] check[w] = "reading"   -> 5
      [] check[w] = "writing"   -> 4
      [] check[w] = "mirroring" -> 3
      [] check[w] = "removing"  -> 2
      [] check[w] = "deleting"  -> 1
      [] OTHER                  -> 0

\* Each step of a check leaves it fewer, and only a new cycle, which begins when
\* no check has any left, gives it more: gather always comes to an end.
ChecksEnd ==
    [][\A w \in Workers :
          /\ CheckWorker(w) => CheckLeft(w)' < CheckLeft(w)
          /\ CheckLeft(w)' > CheckLeft(w) =>
                StartCycle /\ \A v \in Workers : CheckLeft(v) = 0]_fleetVars

\* A cycle of the health checker ends after six steps of each check at most.
THEOREM HealthCyclesEnd == FleetSpec => ChecksEnd
<1>1. OwnTypeOK /\ [FleetNext]_fleetVars =>
        [\A w \in Workers :
            /\ CheckWorker(w) => CheckLeft(w)' < CheckLeft(w)
            /\ CheckLeft(w)' > CheckLeft(w) =>
                  StartCycle /\ \A v \in Workers : CheckLeft(v) = 0]_fleetVars
  <2> SUFFICES ASSUME OwnTypeOK, [FleetNext]_fleetVars, NEW w \in Workers
               PROVE  /\ CheckWorker(w) => CheckLeft(w)' < CheckLeft(w)
                      /\ CheckLeft(w)' > CheckLeft(w) =>
                            StartCycle /\ \A v \in Workers : CheckLeft(v) = 0
    OBVIOUS
  <2>1. CheckLeft(w) \in Nat /\ CheckLeft(w)' \in Nat
    BY DEF CheckLeft
  <2>2. ASSUME CheckWorker(w) PROVE CheckLeft(w)' < CheckLeft(w)
    BY <2>2 DEF CheckWorker, Check, PingAnswered, PingFails, UnhealthyRead, UnhealthyWrite,
                UnhealthyMirror, RemoveRoute, DeleteRow, CheckRaises, OwnTypeOK, CheckLeft
  <2>3. ASSUME ~CheckWorker(w), ~StartCycle PROVE CheckLeft(w)' <= CheckLeft(w)
    <3>1. check'[w] = check[w] \/ check'[w] = "idle"
      <4>1. ASSUME NEW v \in Workers, v # w, CheckWorker(v) PROVE check'[w] = check[w]
        BY <4>1 DEF CheckWorker, Check, PingAnswered, PingFails, UnhealthyRead, UnhealthyWrite,
                    UnhealthyMirror, RemoveRoute, DeleteRow, CheckRaises, OwnTypeOK
      <4>2. ASSUME NEW v \in Workers, Lifecycle(v) PROVE check' = check
        BY <4>2 DEF Lifecycle, Start, Listen, RegistrationTask, PostRegistration,
                    RegistrationFails, Shutdown, DrainRead, DrainWrite, DrainRaises, Deregister,
                    Exit, Crash, Stop, controlVars
      <4>3. ASSUME NEW h \in handlers, Handle(h) PROVE check' = check
        BY <4>3 DEF Handle, WriteRoute, WriteRow, HandlerRaises
      <4>4. CASE ControlRestart \/ UNCHANGED <<workerVars, controlVars>> \/ UNCHANGED fleetVars
        BY <4>4 DEF ControlRestart, controlVars, fleetVars
      <4>. QED
        BY <2>3, <4>1, <4>2, <4>3, <4>4 DEF FleetNext
    <3>2. CASE check'[w] = check[w]
      <4>1. CheckLeft(w)' = CheckLeft(w)
        BY <3>2 DEF CheckLeft
      <4>. QED
        BY <2>1, <4>1
    <3>3. CASE check'[w] = "idle"
      <4>1. CheckLeft(w)' = 0
        BY <3>3 DEF CheckLeft
      <4>. QED
        BY <2>1, <4>1
    <3>. QED
      BY <3>1, <3>2, <3>3
  <2>4. StartCycle => \A v \in Workers : CheckLeft(v) = 0
    BY DEF StartCycle, CheckLeft
  <2>5. CASE CheckWorker(w)
    BY <2>1, <2>2, <2>5
  <2>6. CASE ~CheckWorker(w)
    BY <2>1, <2>3, <2>4, <2>6
  <2>. QED
    BY <2>5, <2>6
<1>2. OwnInv => OwnTypeOK
  BY DEF OwnInv
<1>. QED
  BY <1>1, <1>2, OwnInvariant, PTL DEF FleetSpec, ChecksEnd

=============================================================================
