# CogniThorn: a TLA+ verification project

CogniThorn is a web application firewall in three kinds of processes that share
a Redis and a PostgreSQL: **WAF workers** (`data_plane/`) that judge and forward
requests, a **control plane** (`control_plane/`) that keeps the registry of
workers, the settings, the domains and the self-healing, and an **SSL gateway**
(`ssl_gateway/`) that terminates TLS and spreads requests over the workers.
All of it is asyncio code: between two `await`s a handler runs alone in its
process, at every `await` anything else may run, and nothing runs alone with
respect to the other processes. The models cut the code at its awaits.

Line numbers below refer to the files under `src/`.

## 1. Inventory

| Part | State it keeps | Operations | Talks to |
|---|---|---|---|
| Deep path, `data_plane/detection/analyst.py` | `_breaker` of the process; Redis `cognithhorn:analysis:*`, `stats:fail_open_count` | `analyze` | Redis, Gemini (thread) |
| Guard, `detection/guard.py` | ONNX session | `score` | thread pool |
| Middleware, `proxy/middleware.py` | detached tasks; Redis `stats:*` | `dispatch`, `_increment_counters`, `_log_blocked` | guard, deep path, forwarder, Redis, PostgreSQL |
| Forwarder and parser, `proxy/forwarder.py`, `proxy/request_parser.py` | none | `forward`, `parse_request` | upstream |
| Configuration: `control_plane/api/settings_api.py`, `data_plane/worker/config_subscriber.py`, `shared/db/setup.py` | settings table; `_config` of each worker; Redis channel | PUT settings, publish, subscribe, seed | PostgreSQL, Redis |
| Worker lifecycle, `data_plane/main.py`, `worker/registration.py` | its entry in Redis `cognithhorn:workers`; the registration task | startup, `register`, shutdown hook, `deregister` | control plane (HTTP), Redis |
| Registry, workers API, health checker, `control_plane/registry/`, `api/workers_api.py` | `cognithhorn:workers`; workers table; `_failure_counts` | register, deregister, health cycle | workers (HTTP), Redis, PostgreSQL |
| Gateway router, `ssl_gateway/worker_router.py` | `cognithhorn:lb:counter` | `forward_to_worker`, `get_workers`, `select_worker`, `_mark_worker_failed` | workers (HTTP), Redis |
| Gateway front, `ssl_gateway/main.py` | default certificate on disk | start, ACME endpoint, redirect, HTTPS handler | the others of the gateway |
| Certificates, `acme_client.py`, `cert_store.py`, `sni_router.py`, `renewal_task.py` | pending challenges; files; domains table; context cache | renewal cycle, issuance, store, reload | certificate authority, disk, PostgreSQL |
| Self-healing, `control_plane/healing/`, `api/healing_api.py` | leader lock in Redis; branches and pull requests | trigger, heal | Gemini, GitHub, Redis, PostgreSQL |
| Domains API, authentication, schemas, crypto, dashboard, scripts | rows, or none | see `PROJECT.json` | PostgreSQL, Redis |

The hard behaviours, part by part, and what makes the part correct:

* **Deep path.** Many calls share one breaker and one cache; each spans up to
  nine awaits, with timeouts and retries. Correct when the breaker refuses only
  after real failures of its own worker, when only what Gemini said is cached
  or returned as a judgement, and when every call ends in one verdict.
* **Middleware.** The threshold is read before inference and used after it, the
  task that counts and logs outlives the response and dies with the worker,
  its pipeline is not a transaction. Correct when a block needs both paths, a
  blocked request never reaches the upstream, the counters claim no more than
  happened, and everything that fails lets the request pass and answers it.
* **Gateway.** The loop works on a snapshot while the table and the workers
  change; a timed-out worker may have processed the request. Correct when no
  worker gets a request twice, 503 comes last, only workers that failed are
  marked, and clients get answers. Round robin over the order of `HGETALL`
  promises no more than that some worker of the snapshot is taken.
* **Fleet.** Five writers (registrations, removals, drain marks, gateway marks,
  health checker) read, await and write the same entries. Correct when dead
  workers stop being routed to, whatever PostgreSQL does.
* **Configuration.** A setting is saved row by row, logged row by row, then
  published once to whoever is subscribed; PUTs overlap, break off, and are
  overwritten by seeding. Correct when no worker runs a value nobody saved, and
  when a worker that missed nothing agrees with the table unless one of these
  mishaps happened.
* **Certificates.** One cycle issues for one domain after another through a
  thread, two files and a row, and any step may be the last before a crash.
  Correct when what the table calls issued is whole on disk, a token is served
  only while its order needs it, and, once errors cease, every domain that is due
  is tried.
* **Healing.** A lock that expires under its holder and four GitHub calls whose
  answers may get lost. Correct when an incident gets at most one branch, one
  writer and one pull request.

`PROJECT.json` lists all hazards with their lines and the properties that would
catch them; one that a property excepts, or that nothing in the repository
forbids, has a note instead.

**The pinned libraries.** Two parts of the code call what their libraries do not
have. `upsert_setting`, `upsert_worker` and `upsert_domain` (`crud.py:101`,
`:117`, `:154`) call `on_conflict_do_update` on `Table.insert()`, which only the
`insert` of SQLAlchemy's dialects provides; and `_issue_sync` gives `make_csr` a
domain name for a private key (`acme_client.py:76`) and asks `rsa` for the
`PrivateFormat` it does not have (`:57`, `:99`). With SQLAlchemy 2.0.36 and acme
2.11.0 these calls raise, always. The models take this as constants: `Upserts`
says whether the upserts can succeed, `Accepted` which of the two calls of the
ACME thread can. Where they cannot, the theorems `NeverStarts`,
`HealthCheckerNeverRemoves` and `NothingOrdered` say what is left of the parts:
very little. The runs have them succeed or raise, at each call: the steps of the
pinned libraries are among these, so every safety property holds with them too;
`DeadWorkersUnrouted`, `KeepsListening` and `DueIsTried` also hold when the
configurations are given `Upserts = FALSE` and `Accepted = {}` (28,000 states for
`Fleet`, a handful for the other two, which hardly start), and the rest of the
code is checked for the day these lines are repaired.

## 2. Modules

```
CircuitBreaker ----.
VerdictService <=== Analyst        AnalystProofs   (deep path implements its promise)
      |
WafPipeline                        WafProofs       (middleware over that promise)

Gateway                            GatewayProofs   (router, arbitrary environment)
   |  <===
Fleet                              FleetProofs     (router among the real writers)

ConfigSync                         ConfigSyncProofs (PUT, publication, subscribers)
Certs                              CertsProofs     (domains, orders, files, start)
Healing                            HealingProofs   (lock, branch, pull request)
```

`<===` is refinement: the detailed module implements the abstract one, checked
by TLC as a PROPERTY and proved.

### Deep path: `CircuitBreaker`, `VerdictService`, `Analyst`

`CircuitBreaker` has the operations of `_CircuitBreaker` as operators on a
record `[failures, state, elapsed]`. `opened_at` only occurs in the comparison
of the elapsed time with `RESET_TIMEOUT`, so the record keeps the elapsed time,
in ticks, saturated just past the timeout.

`Analyst` follows `analyze()` from await to await: `pc[r]` is the await request
`r` sits in. `Analyze`, `ServeLookup`/`CacheHit`, `Denied`/`Admitted`,
`Answered`, `RateLimited`/`Retry`, `Failed`, `BadAnswer`, `TimedOut`, `Store`,
`CountFailOpen`/`SetExpiry`/`CountingFails` are its branches. Redis either does
what it is told or raises; the text of an exception is abstracted to the codes
the handlers look for in it (`ErrorTexts`), so a 429 whose quota reads "1500"
is one of the texts; a Gemini answer is one of two judgements. `Tick` is the
clock of breakers and timers, `Restart` the death of a worker. Workers share the
cache, never a breaker.

`VerdictService` is the promise to the middleware: a call asks about a key,
Gemini may judge the key, and the call returns one thing Gemini said about that
key, or a fail-open verdict, or dies with its worker.

### Request path: `WafPipeline`

EXTENDS `VerdictService`: the middleware is modelled over the promise, not over
`Analyst` itself, which keeps the state space small; that `Analyst` keeps it is
proved. `stage[r]` is the await of `dispatch`, `task[r]` the next command of the
detached task. The two INCRs of the pipeline (`transaction=False`) are two
steps. The timeout of httpx (`forwarder.py:24`) is one of each connect, write and
read: a silent upstream is timed out, one that drips a byte at a time
(`UpstreamDrips`) may keep `forward()` reading for ever. `follow_redirects` may
make the connection that fails a later one, so `CannotConnect` may come after the
request was delivered. A threshold is a typed value: a float from the environment, or the
string a published setting carries (`settings_api.py:15` is `dict[str, str]`,
and `config_subscriber.py:38` stores it as it came); comparing a score with a
string raises, which `score()` turns into a pass.

### Gateway and fleet: `Gateway`, `Fleet`

`Gateway` is `forward_to_worker` for concurrent calls. Its `Environment` writes
any status to any one entry, or starts or stops any one listener, at any time:
what is proved there holds whatever the rest of the system does to the table.
`Select` takes any worker of the snapshot: the counter only picks a place in the
order `HGETALL` happened to have, and that order changes with removals and
re-encodings of the hash, while an INCR whose reply is lost skips a place.

`Fleet` EXTENDS `Gateway` and replaces `Environment` by the real writers: the
workers' startup, registration task and shutdown hook; the control plane's
handlers, which write Redis and then PostgreSQL, and may be handled long after
the worker gave up on them; and the health checker. A handler is a record of
what is left to do, so a late POST stays in `handlers` when its worker has
drained or died. That uvicorn closes the listener before it runs the shutdown
hook is external knowledge (`Shutdown`). `WriteRow` of a registration and
`UnhealthyMirror` are `upsert_worker` and need `Upserts`; every PostgreSQL write
may raise (`HandlerRaises`, `CheckRaises`).

### Settings: `ConfigSync`

`pc[u]` is the await of `update_settings` that PUT `u` sits in. Saving a row and
its audit row are two steps each, and the update is published when the last key
has both; `current`, read on arrival, is what the audit rows call the old value.
`write_audit_log` swallows its errors, every other step may raise, and the
control plane may stop at any of them and seeds row by row whenever it starts,
as often as it likes; `SeedFails` is a start that ends in `startup()`. `SaveRow`
and `Seed` are `upsert_setting` and need `Upserts`. A
subscriber has the messages on their way (`inbox`), loses them with its
connection, and merges each into `config[w]`. What `WafPipeline!SetThreshold`
and `Restart` do to one worker's threshold is what `Receive` and `Restart` do
here. Four history variables name what the properties except: `missed`, `saves`,
`latest` and `mishaps`.

### Certificates and domains: `Certs`

`cycle` is where the gateway process is: booting with its default certificate,
starting the application of port 80, asleep, checking rows, or in one of the
steps of the domain in `hand`. `Offer`, `Answered`, `AnswerRefused`, `Finalize`
and `IssueFails` are the order in its thread, of which `Offer` and `Finalize`
need the calls in `Accepted`; `todo` is the list of rows as PostgreSQL happened
to order it, walked from its head, and `CycleRaises` loses the rest of it; `AuthorityVisits` is the
authority, which finds the token or does not, before or after it is withdrawn.
`WriteCert`, `WriteKey` and `MirrorAndReload` are the files, the row and the
context. A certificate is its serial number, a key says which order and which
role it was made for: the one that is certified is not the one that is stored
(`acme_client.py:76`, `:90`). Days are reduced to "expires soon". `ListRows`
hides the keys, as `get_all_domains` does, so `Startup` restores nothing. The
default key is absent, torn or whole; a torn one keeps the gateway "down".
`AddDomain` (which needs `Upserts`), `HashDomain` and `AddFails` are `POST /api/domains`, and
`ForwardsTo` what the HTTPS handler makes of its hash.

### Self-healing: `Healing`

`pc[t]` is where task `t` is, `lock` the task that holds the leader key,
`branch`, `commits` and `pulls` what GitHub has, `url` the column of the
incident. Each GitHub call either raises without effect (`Fails`), or happens
and then answers or raises (`AfterCall`). `Expire` takes the key away whatever
its holder does, and remembers in `outlived` that it was at work. `Replicas`
outside `Enabled` are those whose environment leaves self-healing off; the
settings table, where `README.md:119-123` puts the switch, is read by nobody.

## 3. Runs

| Run | Question |
|---|---|
| `analyst` | Three concurrent analyses over two workers: breaker consistent, cache sound, verdicts from Gemini, refusals earned, `VerdictService` implemented |
| `analyst_liveness` | Does every call return? |
| `analyst_one_trial` | Violated: a half-open breaker admits every call |
| `waf` | Two concurrent requests: blocks justified, blocked never delivered, counters honest, every request answered |
| `waf_slider` | Violated: a saved threshold switches the guard off |
| `waf_logged` | Violated: a block whose counting fails is not logged |
| `gateway` | Two calls, two workers, arbitrary environment: once per worker, 503 last, only failures marked, every call answered |
| `fleet` | The fleet implements `Gateway`'s specification; dead workers are unrouted |
| `fleet_restored` | Violated: an unhealthy entry is never restored |
| `config` | Two PUTs, a control plane that starts again, a subscriber that comes and goes: what a worker runs, when it agrees with the table, what the audit log says, that it keeps listening |
| `certs` | Two domains, one crash: issued means whole, who is stuck and why, tokens withdrawn, routes saved, due domains tried |
| `healing` | Three tasks, two incidents: who works beside whom, one branch, one writer, one pull request |

Why the bounds are enough. Every invariant a passing run checks,
`OnlyFailuresMarked` and both refinements are proved for all values of the constants (section 4): for
these a run is a first look and the place where mutants of the code are caught.
What rests on the bounds alone is liveness. *Analyst*: two workers, three calls and one key
reach a breaker that two calls trip while a third is in flight; a second key
only doubles independent caches, and `Threshold` 2 (3 in the code) still needs
two different failing calls. Two attempts (three in the code) have a first, a
last and a retry; the liveness run uses three. A timeout of one tick each
(5 s and 60 s in the code) leaves every order of timer and answer. *WafPipeline*: the properties relate at most two
requests (an interleaved pipeline, a breaking one); scores on either side of
one threshold. *Gateway*: two workers are the least for which a loop can go on
and mark one of two. *Fleet*: one worker, one
life (`MaxLives`), one call, one restart of the control plane (`MaxRestarts`),
`MaxFailures` 2 (3 in the code) and one registration attempt (`Attempts`, 5 in
the code). Registrations and gateway marks that are
handled after the worker died are the interesting case of its liveness, and one
life has them. A second life matters to no property checked here.
*ConfigSync*: one worker, since workers only listen and no property relates two
of them; two PUTs are the least that overlap, two settings the least of which
one can be saved and the other not, one death of the control plane (`MaxDeaths`;
starts that fail are not counted) the least after which it seeds over a saved row. *Certs*: two domains, so that one can fail before the other;
two certificates (`MaxCerts`), so that one is renewed; two tokens, one order's and one that
was refused and left behind; one crash (`MaxCrashes`), which may come at any step; one upstream,
because no step compares two. *Healing*: three tasks for two incidents are two
on one incident beside a third, which takes the lock after both; a third
incident is not a confirmed attack, and the second replica has healing off.

In all violation runs the specification states fairness, though each
counterexample already is a finite misstep or a state that stays.

### Fairness

* `Analyst`: a Redis command ends in a reply or an error (`RedisStep`), the loop
  runs what is ready (`LoopStep`), `wait_for` and `sleep` fire (`GeminiStep`,
  `Tick`). Gemini owes no answer.
* `WafPipeline`: inference ends, the deep path returns (that is
  `EveryCallReturns`), httpx times out, Redis and PostgreSQL reply or raise.
  The upstream owes no answer, and one that drips no end of it: the timeout is
  fair only where nothing has come (`SilentTooLong`).
* `Gateway`: Redis replies or raises, and httpx's 30 s timeout fires.
* `Fleet`: weak fairness of the loop's tasks, which may end in errors every
  time, and strong fairness of the two Redis steps of `mark_worker_unhealthy`:
  Redis does not refuse for ever. Nothing is assumed of PostgreSQL.
* `ConfigSync`: a subscriber that is ready to go on does, and Redis does not
  refuse subscriptions for ever. Connections may still break for ever.
* `Certs`: the tasks and threads of the gateway go on and an order ends (the ACME
  library has a deadline): weak fairness of `Cycle` and `Thread`, over the list
  as it comes. Neither PostgreSQL nor the disk owes a success; `DueIsTried` has
  the case that from some time on they raise no more as its hypothesis, because
  before that one domain that raises starves those after it, every day. Orders
  may all fail.
* `Healing`: none.

That a Redis or PostgreSQL command neither answers nor raises is outside the
models: the client sets no timeout in `redis_client.py` or `database.py`, so it
rests on the connection breaking.

## 4. Proofs

`tlapm` checks every theorem from nothing; there is no axiom beyond the named
assumptions on the constants (`BreakerAssumption`, `AnalystAssumption`, `KeysAssumption`,
`PipelineAssumption`, `GatewayAssumption`, `FleetAssumption`, `ConfigAssumption`,
`CertsAssumption`, `HealingAssumption`), which TLC evaluates in the runs. They
say that sets are finite where cardinalities are compared, that bounds are
natural numbers, and that the values that stand for nothing are no members of
the sets they stand beside.

* **`AnalystProofs`.** One inductive invariant, `IInv`, joins types,
  `BreakerConsistent`, `CacheSound` and `VerdictsFromGemini` with
  `CallsConsistent`, which says what a call holds at each await: without it a
  step could store a fail-open verdict, or return none. That a breaker stays
  consistent follows from its four operations alone (`MethodsAgree`).
  `OpenIsEarned` needs `FailuresEarned` on top, that a breaker has counted no
  more failures than calls of its worker ended unanswered, which is an argument
  about the cardinality of a growing set. `Implements` maps each step to a step
  of `VerdictService` or to a stutter.
* **`GatewayProofs`.** None of the properties is inductive. `LoopInv(c)` says
  where a call stands: the snapshot is the disjoint union of the candidates to
  come, the one in hand and those that failed; nobody to come has been handed
  the request; the one in hand has it exactly after `HandOver`. A step of one
  call leaves `LoopInv` of the others alone (`OtherCalls`), and the environment
  touches none of it. `MarksAreEarned` (`OnlyFailuresMarked`) follows at
  once: the one in hand has failed by the time its entry is written.
* **`FleetProofs`.** Each action of a worker or of the control plane is
  `Environment` or leaves the gateway's variables alone, so `FleetSpec => Spec`
  and the gateway's theorems carry over (`FleetHandsOnce`,
  `FleetMarksAreEarned`). `FleetTypeCorrect` needs that the registration task
  runs only while attempts are left (`AttemptLeft`). `OnlyRegistrationRestores`
  is finding 3 without a bound: no step but the handling of its own registration
  makes an entry healthy. `HealthCheckerNeverRemoves`: without `Upserts` no check
  gets past the mirror write (`NoneRemoving`), so only a DELETE removes an entry.
* **`WafProofs`.** `RequestInv(r)` says what a request has behind it at each
  await: the score reached the cutoff while it is analyzed, nothing was answered
  before "responded", only a refused request has the block counter. `CountInv`
  adds the tasks that counted their request and not yet its outcome (`Halfway`),
  a set that gains or loses one member at a time (`AtMostOneMore`). `ResponsesAreFinal`
  follows from `RequestInv`. `CountsHonest` compares Redis with the clients: a
  task is past "total" and "second" for good (`StaysCounted`, which needs
  `Behind`: a request has no task before its decision), so the counters are
  bounded by the tasks that are past them (`TallyInv`). `SavedThresholdDisarms`
  is finding 2 without a bound: the deep path is asked only under a cutoff that
  is a number.
* **`HealingProofs`.** `Owner` says that a task that works within its TTL is the
  one the lock names, which is `LockExcludes`. `Writers` says that a task past
  `create_branch` is the one its branch names; a branch never changes hands, so
  commits and pull requests have one author. `Recorded` needs both halves of
  `Writers`: nobody else overwrites the address of a pull request, which is
  also `AddressesAreFinal`.
* **`ConfigSyncProofs`.** `RunsSaved` needs that what a PUT is done with, and
  every message on its way, was saved (`SentIsSaved`, with `Alive`: a PUT lives
  with its control plane and publishes when nothing is left to save). `HeardIsLatest` is not inductive:
  `Pending` says that what a worker that missed nothing runs, merged with its
  inbox in order, is what the publications add up to (`Amounts`). It is a
  statement about a sequence without recursion: the last message about a key
  decides (`LastAbout`), appending and taking one are `AmountsAppended` and
  `AmountsTaken`. `AgreesWithTable` needs `Published` on top: without a mishap,
  a key that is saved and not yet published is in the hands of one PUT, and any
  other that was ever published is published as the table has it.
  `AuditTruthful` needs `Unread`: without an overlap, a key still to be saved
  has the value that was read on arrival. `MishapsLast` and `SavesLast` say
  that history is only added to. `NeverStarts`: without `Upserts` no start gets
  past seeding.
* **`CertsProofs`.** One domain at a time is in hand, its row says "issuing"
  from the first write to the last (`HandIssues`), and `Written` says what is on
  disk at each of its steps: so nobody takes half-written files for whole, and
  `IssuedIsWhole` and `StuckOnlyIfBroken` are inductive with them. `Ordered` and
  `Requested` give the types of what an order and an `add_domain` have in hand,
  without which tokens and routes cannot be followed. That a start restores
  nothing (`NothingRestored`) is a lemma, because the list hides the keys.
  `CertificatesStayApart` and `RowsOnlyRenew` rest on `Older`: the certificate
  in hand is newer than any other domain has. `NeverServed`: were every call of the
  ACME thread accepted, still no context of a domain would ever be loaded, because
  the key that is stored is not the certified one. `NothingOrdered`: while
  `make_csr` is not accepted, it does not come to that.

**Termination.** "Something happens in the end" has a half that is safety: no
loop takes steps for ever. Each is an action property over a measure, a natural
number that every step of the loop makes smaller and that nothing else makes
larger, for any number of workers, requests and domains and whatever fails:

| Theorem | Loop | Measure | What it needs |
|---|---|---|---|
| `AnalystProofs!CallsEnd` | the attempts of `analyze()` | two steps per attempt left and four more | types of `attempt` |
| `GatewayProofs!LoopsEnd`, `StepsAreBounded`, `FleetProofs!FleetLoopsEnd` | candidates of `forward_to_worker` | four per candidate and six more | candidates shrink (`TryNextCounts`) |
| `WafProofs!RequestsEnd` | `dispatch`, `forward()`, the background task | stages, commands and the verdict: ten | `Behind`: a request gets one task |
| `FleetProofs!HealthCyclesEnd` | the checks of one health cycle | six per check | a cycle begins when all checks ended |
| `CertsProofs!RenewalsEnd` | the domains of one renewal cycle | seven per domain left on the list | the list of a finite set is finite |

The other half, that a loop which may go on does, is fairness and stays with
TLC.

Model-checked only, because liveness under fairness and ENABLED are out of the
prover's reach: `EveryCallReturns`, `EveryRequestAnswered`, `EveryCallAnswered`,
`DeadWorkersUnrouted` and `DueIsTried`, each with a
measure above, and `KeepsListening`, whose loop is meant never to end; and the
four violations, which are counterexamples.

## 5. Findings

Each is a violation run whose property states a sentence of the repository;
`PROJECT.json` quotes the lines.

1. `analyst_one_trial`: a half-open breaker lets every call through.
2. `waf_slider`: a threshold saved in the dashboard reaches the guard as a
   string, and the guard passes everything from then on.
3. `fleet_restored`: nothing restores an entry the gateway marked unhealthy.
4. `waf_logged`: a block is logged only when counting it succeeded.

Three more take no interleaving to see, and have theorems rather than runs: with
the pinned SQLAlchemy the control plane ends in `startup()` at every start
(`NeverStarts`; `setup.py:1` "Install default settings rows.", `tests/test_db.py:9`
"upsert_setting() calls conn.execute() and conn.commit()") and the health checker
could not remove an entry (`HealthCheckerNeverRemoves`; `health_checker.py:42` "removed from
routing");
with the pinned acme no order is placed (`NothingOrdered`), and if it were, the
key that is stored would not be the certificate's (`NeverServed`;
`ssl_gateway/main.py:102` "Once ACME issues a real cert, the SNI callback switches
to it automatically.").

Other disagreements are behaviours of the models without a run of their own: a
late success closes an open breaker before its cool-down (`ROADMAP.md:109`); a
call that slept through the opening of the breaker still calls Gemini
(`analyst.py:37`); concurrent misses for one key all call it
(`tests/test_analyst.py:17`); a registration handled late overwrites "draining"
(`data_plane/main.py:58`); certificates are not restored from the database
(`cert_store.py:58`); self-healing cannot be enabled by a PUT
(`README.md:119-123`). The counters are also read one by one by the dashboard,
so it may show more blocks than requests although Redis never holds that.

## 6. Plan

Done: all modules above, a proof of every invariant and action property that a
run checks, of both refinements, and that every loop that should end does. What
could come next:

1. `ConfigSync` and `WafPipeline` side by side: what a worker does to its
   threshold in `WafPipeline` is a view of what `Receive` and `Restart` do in
   `ConfigSync`; stated as a refinement, `SavedThresholdDisarms` would carry
   over to settings that are really published.
2. The hazards `PROJECT.json` lists without a property.

### Not modelled

Authentication, schemas, crypto helpers, the read-only APIs, the dashboard and
the scripts have no state of their own to interleave; the redirect of port 80
and the list endpoints only read. The thread pool that guard and deep path
share is left out: whether hung calls to Gemini starve the guard depends on the
deadline of Gemini's client, which this code does not set, so every inference is
assumed to get a thread. Redis, PostgreSQL, Gemini, GitHub, the certificate
authority, httpx and uvicorn appear as what the code can observe of them.
