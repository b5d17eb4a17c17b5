----------------------------- MODULE ConfigSync -----------------------------
(***************************************************************************)
(* How a setting travels: PUT /api/settings of control_plane/api/          *)
(* settings_api.py saves it key by key in PostgreSQL, logs each key in the *)
(* audit log, and publishes the whole update on a Redis channel;           *)
(* data_plane/worker/config_subscriber.py merges what it hears into the    *)
(* _config of its worker.  Nobody else reads the settings table, Redis     *)
(* keeps nothing for a subscriber that is away, and the control plane      *)
(* seeds the table whenever it starts (shared/db/setup.py).                *)
(*                                                                         *)
(* PUTs run concurrently in the loop of one control plane, which may die,  *)
(* as may the workers and their subscriptions.  A setting is a function    *)
(* from keys to values; what type a value has is WafPipeline's business.   *)
(***************************************************************************)
EXTENDS Naturals, Sequences, FiniteSets

CONSTANTS
    Workers,
    Updates,        \* calls of update_settings
    Settings,       \* keys of the settings table
    Values,         \* what a row may hold
    Default,        \* DEFAULT_SETTINGS
    Bodies,         \* bodies of PUT requests: functions on a set of keys
    FromEnv,        \* what _config holds before any message
    Absent,         \* no row; no key yet
    Upserts,        \* whether Table.insert() has on_conflict_do_update
    MaxDeaths       \* bound on deaths of a control plane that serves or seeds

ASSUME ConfigAssumption ==
    /\ FromEnv \notin Values
    /\ Absent \notin Values
    /\ Default \in [Settings -> Values]
    /\ Bodies \subseteq UNION {[S -> Values] : S \in SUBSET Settings}
    /\ Upserts \in BOOLEAN
    /\ MaxDeaths \in Nat

VARIABLES
    control,        \* "down", "seeding" or "up"
    deaths,
    unseeded,       \* rows seed_default_settings has still to write
    table,          \* the settings table
    audit,          \* the audit log
    pc,             \* the await each PUT sits in
    body,
    current,        \* the rows each PUT read on arrival
    left,           \* the keys each PUT has still to save
    key,            \* the key it saved last
    link,           \* the subscription of each worker
    inbox,          \* messages on their way to it
    config,         \* _config of each worker
    saves,          \* history: the saves that happened
    latest,         \* history: _config of a worker that heard everything
    missed,         \* history: who did not hear everything
    mishaps         \* history: "overlap", "partial", "seeded"

controlVars == <<control, deaths, unseeded>>
storeVars   == <<table, audit, saves, mishaps>>
putVars     == <<pc, body, current, left, key>>
workerVars  == <<link, inbox, config, latest, missed>>
vars        == <<controlVars, storeVars, putVars, workerVars>>

Active(u) == pc[u] \in {"saving", "auditing", "publishing"}
AtStart   == [k \in Settings |-> FromEnv]

\* _config.update(data)
Merge(data, old) == [k \in Settings |-> IF k \in DOMAIN data THEN data[k] ELSE old[k]]

Init ==
    /\ control = "down" /\ deaths = 0 /\ unseeded = {}
    /\ table = [k \in Settings |-> Absent] /\ audit = {} /\ saves = {} /\ mishaps = {}
    /\ pc = [u \in Updates |-> "idle"]
    /\ body = [u \in Updates |-> <<>>]
    /\ current = [u \in Updates |-> [k \in Settings |-> Absent]]
    /\ left = [u \in Updates |-> {}]
    /\ key = [u \in Updates |-> Absent]
    /\ link = [w \in Workers |-> "connecting"]
    /\ inbox = [w \in Workers |-> <<>>]
    /\ config = [w \in Workers |-> AtStart]
    /\ latest = AtStart
    /\ missed = [w \in Workers |-> FALSE]

\* What has gone wrong so far, for the properties below.
Note(mishap, condition) ==
    mishaps' = IF condition THEN mishaps \union {mishap} ELSE mishaps

-----------------------------------------------------------------------------
(* The control plane.  uvicorn accepts requests after startup() only.      *)

Boot ==
    /\ control = "down"
    /\ control' = "seeding"
    /\ unseeded' = Settings
    /\ UNCHANGED <<deaths, storeVars, putVars, workerVars>>

\* upsert_setting: it raises, here and in Save, where Table.insert() has no
\* on_conflict_do_update (crud.py:102).
Seed(k) ==
    /\ control = "seeding"
    /\ Upserts
    /\ k \in unseeded
    /\ unseeded' = unseeded \ {k}
    /\ table' = [table EXCEPT ![k] = Default[k]]
    /\ Note("seeded", table[k] \notin {Absent, Default[k]})
    /\ UNCHANGED <<control, deaths, audit, saves, putVars, workerVars>>

Serve ==
    /\ control = "seeding"
    /\ unseeded = {}
    /\ control' = "up"
    /\ UNCHANGED <<deaths, unseeded, storeVars, putVars, workerVars>>

\* An upsert, or the migrations before it, raises in startup(): the process ends.
SeedFails ==
    /\ control = "seeding"
    /\ unseeded # {}
    /\ control' = "down"
    /\ unseeded' = {}
    /\ UNCHANGED <<deaths, storeVars, putVars, workerVars>>

\* The control plane dies, and the PUTs with it.
Stop ==
    /\ control # "down"
    /\ deaths < MaxDeaths
    /\ control' = "down"
    /\ deaths' = deaths + 1
    /\ unseeded' = {}
    /\ pc' = [u \in Updates |-> IF Active(u) THEN "lost" ELSE pc[u]]
    /\ Note("partial", \E u \in Updates : Active(u) /\ left[u] # DOMAIN body[u])
    /\ UNCHANGED <<table, audit, saves, body, current, left, key, workerVars>>

-----------------------------------------------------------------------------
(* PUT /api/settings.  The order of the keys is the client's.              *)

Put(u, b) ==
    /\ control = "up"
    /\ pc[u] = "idle"
    /\ pc' = [pc EXCEPT ![u] = IF b = <<>> THEN "publishing" ELSE "saving"]
    /\ body' = [body EXCEPT ![u] = b]
    /\ left' = [left EXCEPT ![u] = DOMAIN b]
    /\ current' = [current EXCEPT ![u] = table]
    /\ UNCHANGED <<key, controlVars, storeVars, workerVars>>

SaveRow(u, k) ==
    /\ k \in left[u]
    /\ table' = [table EXCEPT ![k] = body[u][k]]
    /\ saves' = saves \union {[by |-> u, key |-> k, old |-> table[k], new |-> body[u][k]]}
    /\ left' = [left EXCEPT ![u] = @ \ {k}]
    /\ key' = [key EXCEPT ![u] = k]
    /\ Note("overlap", \E v \in Updates \ {u} : Active(v) /\ k \in DOMAIN body[v])

\* Mutant: the old value is read when the row is written.
AuditRowLate(u, k) == [by |-> u, key |-> k, old |-> table[k], new |-> body[u][k]]

AuditRow(u, k) == [by |-> u, key |-> k, old |-> current[u][k], new |-> body[u][k]]

Save(u, k) ==
    /\ pc[u] = "saving"
    /\ Upserts
    /\ pc' = [pc EXCEPT ![u] = "auditing"]
    /\ SaveRow(u, k)
    /\ UNCHANGED <<audit, body, current, controlVars, workerVars>>

\* write_audit_log swallows its errors.
Audit(u) ==
    /\ pc[u] = "auditing"
    /\ pc' = [pc EXCEPT ![u] = IF left[u] = {} THEN "publishing" ELSE "saving"]
    /\ audit' \in {audit, audit \union {AuditRow(u, key[u])}}
    /\ UNCHANGED <<table, saves, mishaps, body, current, left, key, controlVars, workerVars>>

\* Who is subscribed gets the message, nobody else ever does.
Broadcast(data) ==
    /\ inbox' = [w \in Workers |->
                    IF link[w] = "subscribed" THEN Append(inbox[w], data) ELSE inbox[w]]
    /\ missed' = [w \in Workers |-> missed[w] \/ link[w] # "subscribed"]
    /\ latest' = Merge(data, latest)

\* Mutant: the update is published before the last key is saved.
PublishEarly(u) ==
    /\ pc[u] \in {"saving", "publishing"}
    /\ pc' = [pc EXCEPT ![u] = IF left[u] = {} THEN "done" ELSE "saving"]
    /\ Broadcast(body[u])
    /\ UNCHANGED <<body, current, left, key, link, config, controlVars, storeVars>>

\* Redis may have published although its answer got lost.
Publish(u) ==
    /\ pc[u] = "publishing"
    /\ \E end \in {"done", "failed"} : pc' = [pc EXCEPT ![u] = end]
    /\ Broadcast(body[u])
    /\ UNCHANGED <<body, current, left, key, link, config, controlVars, storeVars>>

\* Mutant: a failed save is forgotten, and the rest is published.
PutFailsSoftly(u) ==
    /\ pc[u] = "saving"
    /\ pc' = [pc EXCEPT ![u] = "publishing"]
    /\ UNCHANGED <<body, current, left, key, controlVars, storeVars, workerVars>>

\* PostgreSQL refuses a row, or Redis the message: the client gets a 500.
PutFails(u) ==
    /\ pc[u] \in {"saving", "publishing"}
    /\ pc' = [pc EXCEPT ![u] = "failed"]
    /\ Note("partial", left[u] # DOMAIN body[u])
    /\ UNCHANGED <<table, audit, saves, body, current, left, key, controlVars, workerVars>>

-----------------------------------------------------------------------------
(* The subscriber of a worker.                                             *)

Subscribe(w) ==
    /\ link[w] = "connecting"
    /\ link' = [link EXCEPT ![w] = "subscribed"]
    /\ UNCHANGED <<inbox, config, latest, missed, controlVars, storeVars, putVars>>

\* Mutant: the message replaces _config.
ReceiveReplacing(w) ==
    /\ inbox[w] # <<>>
    /\ config' = [config EXCEPT ![w] = Merge(Head(inbox[w]), AtStart)]
    /\ inbox' = [inbox EXCEPT ![w] = Tail(@)]
    /\ UNCHANGED <<link, latest, missed, controlVars, storeVars, putVars>>

\* Mutant: the message is taken for _config.
ReceiveAssigning(w) ==
    /\ inbox[w] # <<>>
    /\ config' = [config EXCEPT ![w] = Head(inbox[w])]
    /\ inbox' = [inbox EXCEPT ![w] = Tail(@)]
    /\ UNCHANGED <<link, latest, missed, controlVars, storeVars, putVars>>

Receive(w) ==
    /\ inbox[w] # <<>>
    /\ config' = [config EXCEPT ![w] = Merge(Head(inbox[w]), @)]
    /\ inbox' = [inbox EXCEPT ![w] = Tail(@)]
    /\ UNCHANGED <<link, latest, missed, controlVars, storeVars, putVars>>

\* Mutant: an error ends the loop.
DisconnectForGood(w) ==
    /\ link[w] = "subscribed"
    /\ link' = [link EXCEPT ![w] = "ended"]
    /\ inbox' = [inbox EXCEPT ![w] = <<>>]
    /\ missed' = [missed EXCEPT ![w] = @ \/ inbox[w] # <<>>]
    /\ UNCHANGED <<config, latest, controlVars, storeVars, putVars>>

\* The connection breaks; the loop sleeps for 5 s and subscribes again.
Disconnect(w) ==
    /\ link[w] = "subscribed"
    /\ link' = [link EXCEPT ![w] = "connecting"]
    /\ inbox' = [inbox EXCEPT ![w] = <<>>]
    /\ missed' = [missed EXCEPT ![w] = @ \/ inbox[w] # <<>>]
    /\ UNCHANGED <<config, latest, controlVars, storeVars, putVars>>

\* The worker dies and starts again from its environment.
Restart(w) ==
    /\ link' = [link EXCEPT ![w] = "connecting"]
    /\ inbox' = [inbox EXCEPT ![w] = <<>>]
    /\ config' = [config EXCEPT ![w] = AtStart]
    /\ missed' = [missed EXCEPT ![w] = latest # AtStart]
    /\ UNCHANGED <<latest, controlVars, storeVars, putVars>>

-----------------------------------------------------------------------------
UpdateSettings(u) ==
    \/ \E b \in Bodies : Put(u, b)
    \/ \E k \in Settings : Save(u, k)
    \/ Audit(u) \/ Publish(u) \/ PutFails(u)

Subscriber(w) == Subscribe(w) \/ Receive(w) \/ Disconnect(w) \/ Restart(w)

Next ==
    \/ Boot \/ Serve \/ SeedFails \/ Stop
    \/ \E k \in Settings : Seed(k)
    \/ \E u \in Updates : UpdateSettings(u)
    \/ \E w \in Workers : Subscriber(w)

Spec == Init /\ [][Next]_vars

\* The loop runs what is ready, and Redis does not refuse subscriptions for
\* ever.
FairSpec == Spec /\ \A w \in Workers : WF_vars(Subscribe(w)) /\ WF_vars(Receive(w))

-----------------------------------------------------------------------------
Rows == [by : Updates, key : Settings, old : Values \union {Absent}, new : Values]

TypeOK ==
    /\ control \in {"down", "seeding", "up"}
    /\ deaths \in 0 .. MaxDeaths
    /\ unseeded \subseteq Settings
    /\ table \in [Settings -> Values \union {Absent}]
    /\ audit \subseteq Rows
    /\ pc \in [Updates -> {"idle", "saving", "auditing", "publishing", "done",
                           "failed", "lost"}]
    /\ body \in [Updates -> Bodies \union {<<>>}]
    /\ current \in [Updates -> [Settings -> Values \union {Absent}]]
    /\ left \in [Updates -> SUBSET Settings]
    /\ \A u \in Updates : left[u] \subseteq DOMAIN body[u]
    /\ key \in [Updates -> Settings \union {Absent}]
    /\ link \in [Workers -> {"connecting", "subscribed"}]
    /\ inbox \in [Workers -> Seq(Bodies \union {<<>>})]
    /\ config \in [Workers -> [Settings -> Values \union {FromEnv}]]
    /\ saves \subseteq Rows
    /\ latest \in [Settings -> Values \union {FromEnv}]
    /\ missed \in [Workers -> BOOLEAN]
    /\ mishaps \subseteq {"overlap", "partial", "seeded"}

\* The table's row of k is settled: no PUT in progress is about it.
Settled(k) == \A u \in Updates : Active(u) => k \notin DOMAIN body[u]

\* A worker never runs a value that PostgreSQL never held: everything it
\* hears was saved first, whatever fails or dies on the way
\* (settings_api.py:19-28).
RunsSaved ==
    \A w \in Workers, k \in Settings :
        config[w][k] # FromEnv =>
            \E s \in saves : s.key = k /\ s.new = config[w][k]

\* A worker that was subscribed at every publication, and whose connection
\* lost none, runs exactly what the publications add up to: partial updates
\* are merged, in the order of the channel (config_subscriber.py:33-38).
HeardIsLatest ==
    \A w \in Workers :
        ~missed[w] /\ inbox[w] = <<>> => config[w] = latest

\* "Settings saved and broadcast to all workers" (04_configuration.py:48)
\* is true of such a worker, unless two PUTs of a key overlapped, one broke
\* off half way, or the control plane seeded its defaults over a saved row.
AgreesWithTable ==
    \A w \in Workers, k \in Settings :
        /\ ~missed[w] /\ inbox[w] = <<>>
        /\ mishaps = {} /\ Settled(k)
        /\ config[w][k] # FromEnv
        => config[w][k] = table[k]

\* The audit log records saves that happened, with the value each of them
\* replaced, unless another PUT of the key overlapped: current is read once,
\* before the first save (settings_api.py:19, 26).
AuditTruthful ==
    \A a \in audit :
        \E s \in saves :
            /\ s.by = a.by /\ s.key = a.key /\ s.new = a.new
            /\ s.old = a.old \/ "overlap" \in mishaps

\* However often its connection breaks, a worker is subscribed again, and
\* applies what it has heard.
KeepsListening ==
    \A w \in Workers : []<>(link[w] = "subscribed" /\ inbox[w] = <<>>)

=============================================================================
