# Verification of the job-processing workflow

TLA+ models of the job orchestrator, TLC runs over small instances, and TLAPS
proofs for arbitrary ones. Paths below are relative to `src/`.

## 1. The system

A producer names a *job type* (and optional overrides); the system runs the
type's handler at most once at a time and records how the run ended.

| Component | State it keeps | Operations | Hard part |
|---|---|---|---|
| Postgres store (`common/db.py`, `migrations/`) | `jobs`, `outbox`, `job_type_config` | one transaction per method: enqueue, fetch_unpublished, mark_dispatched, claim, resolve_payload, complete, fail, find_stuck, requeue_stuck, dead_letter | every guard is a `WHERE` clause; the callers hold no lock between two calls |
| Kafka (`common/messaging.py`) | topic partitions, committed offsets | publish, poll, commit | redelivery, rebalance, a message given up on |
| Producer (`handler/`) | none | enqueue | concurrent producers, dedup |
| Dispatcher (`dispatcher/`), 2 replicas | the batch in hand | fetch, then publish and mark row by row | row locks end with the fetch; publish and mark share no transaction |
| Worker (`worker/`), several | the message and run in hand | poll, claim, resolve, run, report, commit | crashes and rebalances between any two; late workers whose run was reaped |
| Reaper (`reaper/`), 1 replica | the list of the sweep | find_stuck, then requeue_stuck or dead_letter | works off a snapshot; timeouts on live runs |
| In-memory store (`common/store.py`) | dictionaries | the same methods | meant to mirror Postgres, has no lock, serves HTTP threads |
| handlerAPIv2 (`handlerAPIv2/`) | JWKS cache, circuit breaker | authenticate, authorise, validate, call the store | locks held across I/O, key rotation, outages |
| handlerAPI v1 (`handlerAPI/`) | rate-limit windows, JWKS cache | rate limit, authenticate, authorise, validate, call the store, check ownership | answers lost after a COMMIT and the caller's retry, a shared limiter, a creator inferred from claims twice |

Producers, dispatchers, workers and reaper meet only in the store and in the
topic. What makes the system correct:

* one active job per type, whatever order statuses change in;
* a queued job can always be published, and a waiting job always has a way to a
  worker;
* `attempts` counts runs exactly and caps them; a dead letter has used its cap;
* a finished row never changes;
* a run belongs to one worker and its payload snapshot is what was run;
* every job ends;
* the in-memory store behaves like the Postgres store;
* a current signing key is found, a withdrawn one forgotten; callers are shed
  only in an outage, and the front door recovers from one;
* two transactions never wait for each other for good, and each is atomic;
* a job is shown to its creator and to those allowed to see all jobs; a caller
  who repeats a request neither stacks up jobs nor is starved by others.

## 2. Modules

| Module | Models | Notes |
|---|---|---|
| `JobStore` | tables and methods of `PostgresStore` | one operator per method, one step per transaction. jsonb objects are functions on `Keys`; "older than run_timeout" is the set `expired`, grown by the clock and shrunk by every write of `updated_at`; each job has one outbox row, named by its job. `StoreSpec` is the Store contract by itself |
| `Transactions` | the same methods, statement by statement | sessions at READ COMMITTED with row locks and row versions nobody else sees before the commit; implements `StoreSpec` |
| `Kafka` | the topic as `common/messaging.py` uses it | a partition is the sequence of uncommitted messages; at most its head is delivered, since the worker commits each message before it polls again |
| `Dispatcher`, `Worker`, `Reaper` | the three service loops | one action per call that touches store or broker; crash actions forget the process state. `claims` in `Worker` is a history variable |
| `Orchestrator` | the composition | also the environment: clock, crashes, rebalances, lost messages, an operator editing `job_type_config`. Environment assumptions are constraints on steps (`ReliableNext`, `TimelyNext`), never changes of an action |
| `JobLifecycle` | what a producer is promised | implemented by `Orchestrator` (`ImplementsLifecycle`): `queued` and `dispatched` are both *waiting*, `starts` is `attempts`, plus one while or after the job runs |
| `MemoryStore` | `InMemoryStore` | enqueue step by step (Python may switch threads between any two), the other methods atomically; `Tables` maps the dictionaries to `JobStore` |
| `RequestPool`, `JwksCache`, `Breaker`, `FrontDoor` | handlerAPIv2 | `JwksCache.get_key` with its lock and both refreshes; pybreaker (external) as the wrapper uses it; the status code of every path |
| `HandlerAPI` | handlerAPI v1 over `JobStore` | limiter, principal, scopes, ownership, store call and answer; clients that repeat what was not settled; an outage may fall between the COMMIT and the answer |
| `MCOrchestrator`, `MCTransactions`, `MCMemoryStore`, `MCFrontDoor`, `MCHandlerAPI` | constants of the runs | |
| `OrchestratorProofs`, `RunProofs`, `DeliveryProofs`, `ExclusionProofs` | theorems about the pipeline | section 5 |
| `TransactionsProofs`, `MemoryStoreProofs` | theorems about the two stores | section 5 |
| `FrontDoorProofs`, `HandlerAPIProofs` | theorems about the two front doors | section 5 |

Details kept on purpose: `mark_dispatched` retires the outbox row whatever the
job's status; `claim` accepts `queued` (a worker may outrun the mark);
`resolve_payload` refreshes `updated_at` and returns nothing for a run that was
reaped; `complete` and `fail` check status, not ownership, and the worker ignores
their result; `dead_letter` does not look at `attempts`; a fetch's locks block a
concurrent mark or requeue of the row; `flush()` returning is not delivery; the
call that trips the breaker is answered 503, earlier failures 500.

Operators commented *Mutant* are wrong variants of the operator that follows
them. They take part in no specification; substituting one for its original
makes the property named in `PROJECT.json` fail, which shows that the property
depends on that line of code.

## 3. Runs

`transactions` and `handler_api` check for deadlock: a session can always call
another method, a client always send another request. The other runs set
`CHECK_DEADLOCK FALSE`: their ids are bounded, so a behaviour comes to rest once
all jobs ended.

| Run | Checks | Instance |
|---|---|---|
| `core` | `TypeOK`, `QueuedIsPublishable`, `RunsWithinCap`, `TerminalIsFinal`, `DeadLetterOnlyAtCap`, `ImplementsLifecycle` | 2 jobs of the same or of different types, one type with cap 1 and one without a row (default cap 0), 1 dispatcher, 2 workers, 1 reaper, 2 faults |
| `reliable` | `ClaimsAreCounted`, `NoJobStranded`, `OneActivePerType` under `ReliableSpec` | 2 jobs of 1 type, 2 dispatchers, 2 workers, 1 reaper, cap 1, 1 fault, configuration edits |
| `timely` | `RunIsExclusive`, `SnapshotIsWhatRan`, `NoConfigMeansNoRow` under `TimelySpec` | 1 job of 2 types (one without a handler), 2 workers, 2 faults, 2 configuration rows, inputs with and without an override |
| `liveness` | `EveryJobEnds` under `FairSpec` | 1 job, 2 workers, 2 faults |
| `memory_sequential` | `MirrorsPostgres`, `ReadsMirrorPostgres` | 2 ids, 2 types, caps 0 and 1, 1 thread |
| `key_rotation` | `CurrentKeyIsFound`, `WithdrawnKeysExpire` | 2 requests, 2 keys, 2 rotations, failing fetches, the TTL running out at any point |
| `outage` | `ShedsOnlyInOutage`, `FailsFast`, `LocksAreReleased`, `BreakerRecovers` under `FairSpec` | 2 requests, threshold 2, 2 outages with up to 3 failures in a row, failing fetches |
| `transactions` | `TypeOK`, `NoDeadlock`, `MethodsAreAtomic` | 3 sessions, 2 jobs of 1 type, cap 1, batch 1, rollbacks anywhere |
| `handler_api` | `TypeOK`, `ReadsFollowOwnership`, `RetriesDoNotStack`, `NobodyIsStarved` | `LeanSpec`: 2 clients, tokens of two users and a service, window of 1, 2 creates (API or CLI), 1 fault |

Three runs show a disagreement between the code and what its documentation says;
each has an entry under `findings` in `PROJECT.json`:

| Run | What happens | Consequence |
|---|---|---|
| `stale_mark` | dispatcher publishes; a worker claims and dies; the reaper re-arms the row; the dispatcher marks it | the job is `dispatched` for ever, invisible to the reaper, and blocks its type |
| `hanging_handler` | the requeued job's message waits behind the one in the hung worker's hands | the job never ends, no alert |
| `memory_dedup` | two threads pass `_active` together | two active jobs of one type |

Seven more differences between code and documentation are in the models. The
first four are why a property above is stated under an assumption, and show up
as a counterexample when the assumption is dropped:

* `publish` returns also for a message the client gave up on
  (`common/messaging.py:38`); the row is marked and the job stranded, against
  docs/design.md:111 (`NoJobStranded` under `Spec` instead of `ReliableSpec`).
* A run reaped between claim and resolve is reported `no_config` for a type that
  has a row, against worker/service.py:17 (`NoConfigMeansNoRow` under
  `LosslessSpec` instead of `TimelySpec`).
* A late worker completes its successor's run, whose row holds another snapshot,
  against README.md:31 (`SnapshotIsWhatRan` under `LosslessSpec`, with two
  configuration rows).
* `dead_letter` lacks the guard `attempts >= :max_attempts` of
  docs/design.md:212; a cap raised between `requeue_stuck` and `dead_letter` fails
  a run below it (`DeadLetterOnlyAtCap` under `Spec`, with two caps).
* A failed key fetch is answered 500 (`Refuse`), where handlerAPIv2/README.md:60
  says that any authentication failure is a 401.
* The row locks of `FOR UPDATE SKIP LOCKED` end when `fetch_unpublished` returns
  (`common/db.py:98`), before the first publish, so two dispatchers can publish
  the same row, where docs/design.md:232 says that they "never double-publish".
  `reliable` has both dispatchers in that window: the claim guard absorbs the
  duplicate.
* `claim` takes a row that is `queued` or `dispatched` (`common/db.py:119`), where
  the comment at `common/db.py:8` says `WHERE status='dispatched'`. The code is
  right: with the comment's guard a worker that outruns the mark skips the job's
  only message (mutant `ClaimableOnceMarked` of `NoJobStranded`).

**Bounds.** Cap 1 gives a job a first run, a requeued run and a dead letter; the
default cap 0 in `core` a dead letter at once. Two workers pair a process with a
late or duplicate one, as do two dispatchers in `reliable`; in `core` a crash
between publish and mark makes the duplicate message. One or two faults put a
crash, rebalance or loss at any point; late workers need none, as a run may time
out at any time. `MaxTopic` 2 lets one duplicate, or another type's message,
queue behind a message; a publish beyond the bound waits. All jobs share one
partition, the harder case, as partitions share nothing but the workers. Every
safety property of the passing runs is also proved without any of these bounds
(section 5). `liveness` has one job: its requeued message waits behind the one
in a worker's hands, but a job waiting behind another type's is left out (two
jobs do not fit with two workers and two faults). Fault, rotation and outage
bounds cap counters and nothing else. pybreaker's `fail_counter` has no bound of
its own, since each failed trial call raises it; `MaxFails` 3 in `outage` lets
it pass the threshold of 2, and a call beyond the bound waits for the end of the
outage.

In `transactions` every transaction but the fetch touches one job, so two jobs of
one type have all conflicts: on a row of `jobs`, on an outbox row, and on the
unique index between two inserts. Three sessions allow circles of three and a
third writer between another's statements. `job_type_config` is constant there: a
write to it takes no lock those statements ask for. In `handler_api` a window of
one request fills at once; two creates leave a job behind and meet it on the
retry, or after it has ended. A holder of `jobs.read.all` is not in that instance
(it multiplies the states); `CanRead` has the case, and the proof covers it.

There TLC explores `LeanSpec`, whose pipeline claims and completes jobs (`JobsRun`).
`Spec` has all of its calls (`Piped`: mark, claim, resolve, complete, fail,
requeue, dead letter), and the theorems are about `Spec`. The other calls only
move a job among the active statuses or to its other end, and make rows differ in
columns no status code depends on, which multiplies the states beyond reach of the
liveness check.

**Symmetry.** Sessions, workers, dispatchers, threads and requests are interchangeable;
symmetry is used in safety runs only.

**Environment assumptions.** `ReliableNext`: the broker keeps what it accepted,
and no requeue falls between a dispatcher's publish and mark of the same job
(milliseconds, against a `run_timeout` of minutes); `LosslessSpec` keeps the
first half only, and `stale_mark` shows that it is not enough. `TimelyNext`: only
runs without a live worker time out.

Nothing is assumed of the JWKS cache's clock: the TTL may run out while a refresh
for an unknown kid holds `_lock`. A key withdrawn after that fetch was answered
and before the TTL ran out is then cached again for another TTL, so
`WithdrawnKeysExpire` leaves out the keys in the answer of a fetch under way at
that moment (the history `dead`). Without this slack TLC finds exactly that
behaviour.

`IssuerAssumption` (handlerAPI v1): a user's token carries the user's own `sub`
and either one of the user claims or a client id that differs from it; a
service's token has neither, and its client id is no user's `sub`; no user's
`sub` is the literal `unknown`. This is what `_to_principal` relies on to tell
the two apart; `ReadsFollowOwnership` compares the code's inference with the real
owner of the token. The last two clauses were found by the proof:
`created_by_sub` stores the subject alone, so a user named like a service's
client id would be shown the jobs that service created, and one named `unknown`
the jobs of services without any id.

**Fairness.** Each dispatcher, worker and reaper loop is weakly fair (`while
True`; database and broker calls return), and so is the clock. That a process
which died is started again is an assumption about the deployment:
`docker-compose.yml` sets no restart policy. `FairSpec` adds that a handler
returns or raises, which the code does not enforce: `hanging_handler` checks the
same property without it. Producers, operators and faults have no fairness. In
the front door each thread is weakly fair once it holds a lock or its result
(the fetch has a 5 s timeout); a free lock goes to some waiter, not to a
particular one, since Python locks are unfair; and probes of `/readyz` keep
arriving (strong fairness: a thread is free again and again), for it takes a
call to close the breaker. In `HandlerAPI` the window moves on, an outage ends,
a request thread runs, and a client repeats its unsettled request; nothing is
assumed of new requests, of the CLI or of the pipeline, so a job may stay active
for ever and `NobodyIsStarved` still holds (the answer is then 409).

**What the two newer runs show.** `mark_dispatched` locks `outbox` then `jobs`,
`requeue_stuck` the other way round, for the same job. They cannot wait for each
other: the row `requeue_stuck` holds was `running`, and the second UPDATE of
`mark_dispatched` passes over a row whose committed status is not `queued`
instead of waiting for it. Without that WHERE clause they deadlock (mutant
`MarkableById`). Putting `mark_dispatched` into the order of `requeue_stuck`
would not be a safe clean-up: a requeue that commits between its two statements
would leave a queued job whose row is retired (mutant `JobsFirst`). Ids are drawn
before the commit, so they may become visible out of order. When the answer to
a create is lost after the COMMIT, the retry is answered 409 while the job is
active, and creates a second job after it has ended; there are never two active
ones, thanks to the index and to nothing in the API.

## 4. Front doors: what is abstracted

A token is absent, bad (wrong signature, claims or expiry) or good; a request has
its scope or not and a valid body or not. Requests carry one flaw at most: the
checks run in a fixed order, so the first flaw decides. A body that is not JSON
is refused by the framework before authentication and is left out. `/healthz`
touches no state.

handlerAPI v1: a token is the claims the code reads (`sub`, client id, presence
of a user claim, `scope`, `scp`) and whether it verifies; `groups` is parsed and
used nowhere. `hits` is the number of requests in a bucket's window, and its
oldest request may leave at any time, so no property depends on the length of the
window. The checks between limiter and store touch no shared state and are one
step with the arrival. The JWKS cache is the same code as in v2, where it is
modelled step by step; here a request's key fetch works or raises. The
in-memory store is behind v1 in tests only. A response body is not modelled, a status code is.

## 5. Proofs

Every invariant and every action property or refinement a passing run checks is
stated by a theorem. All theorems hold for any sets of jobs, types, keys,
processes, sessions, requests and clients, any caps, thresholds and windows and
any number of faults. They use the constant assumptions named in the modules,
which TLC evaluates in the runs: that numbers are numbers and that a marker for
"none" is no real value (`StoreAssumption`, `KafkaAssumption`,
`DispatcherAssumption`, `WorkerAssumption`, `OrchestratorAssumption`,
`TransactionsAssumption`, `MemoryAssumption`, `PoolAssumption`, `JwksAssumption`,
`BreakerAssumption`, `FrontDoorAssumption`), and one about the environment,
`IssuerAssumption` (section 3). TLC checked the inductive invariants named below
on the instances of the runs before they were proved.

### The pipeline

* **`TypeCorrect`**: `Spec => [](TypeOK /\ WellFormed)`. `WellFormed` (a busy
  worker has a job, a delivered message is in its partition, a stored job has a
  type) is the strengthening that makes the types inductive.
* **`CountsCorrect`**: `OneActivePerType`, `QueuedIsPublishable` and
  `ClaimsAreCounted`. Every step of the pipeline is first reduced to one of six
  effects on a job's row (`JobStep`: enqueue, mark, claim, resolve, end, requeue)
  or to none; the invariant `CountInv`, with a bound on attempts, is then shown for
  those six and not for all actions.
* **`DedupIsKept`** and **`QueuedRowsPublishable`** state the first two of them by
  themselves.
* **`TerminalRowsAreFinal`** and **`PipelineImplementsLifecycle`** follow from
  the same reduction; the refinement maps each effect to `Submit`, `Start`,
  `Finish`, `Abandon` or a stutter.
* **`ChurnIsCapped`**: attempts never pass the cap of the type, which with
  `ClaimsAreCounted` bounds the claims; needs an unchanged configuration.
* **`DeadLettersAreSpent`**: with one reaper, a job in its hands that is still
  running is at its cap, because only a reaper requeues and a refused job's
  attempts cannot change. `OneReaper` is a hypothesis of the theorem.
* **`NeverStranded`**: not inductive as stated, because a message in the topic
  may be about to be committed and a row about to be marked. The strengthening
  `WaitingHasMessage` asks for a message no worker is about to skip, or an
  unpublished row, and says the same of every row a dispatcher is about to mark.
* **`RunsAreExclusive`**, **`SnapshotsAreTrue`**, **`NoConfigIsTrue`**: under
  `TimelySpec` with one reaper. `ExclusionInv` adds that every expired run and
  every run on the reaper's list has no live worker, and that a worker past
  `resolve` holds the snapshot stored in the row.

### The Postgres store, statement by statement (`TransactionsProofs`)

The inductive invariant `TxInv` has, beside the types:

* `Progress`: what a transaction holds is a function of its method and of the
  statements it has left;
* `Fresh`: what a transaction saw is still so. The version it wrote is made from
  the row committed *now*, a type it inserts for is still free, and a job that
  `mark_dispatched` passed over is still not queued. The last part is the
  delicate one: nothing locks that row of `jobs`. It holds because the only way
  back to queued, `requeue_stuck`, also writes the outbox row, which the mark has
  locked;
* `Apart`: two sessions have no row of `jobs`, no outbox row and no type being
  inserted for in common.

**`MethodsAtomic`** follows step by step: a statement is a stutter of `StoreSpec`,
and a commit is, by `Fresh`, the method applied to the tables of that moment.
**`NeverDeadlocks`** rests on the lemma `NoChain`: nobody waits for a transaction
that waits. A `mark` waits for a row of `jobs` only if that is *queued*, so its
writer is no `requeue` and has no statement left; a `requeue` waiting for an
outbox row has found its job *running*, so the `mark` that holds the outbox row
passes over the job instead of waiting. **`TypesOK`** is the type invariant.

### The in-memory store (`MemoryStoreProofs`)

**`MemoryMirrorsPostgres`** is the refinement `SequentialSpec => Tables!StoreSpec`,
**`MemoryReadsMirror`** the equality of the two read methods. `MemoryInv` adds to
the types that the two id counters run in step, so that an outbox row has its
job's number (`InStep`), that only running jobs are late (`LateRuns`), and how far
the one enqueue under way has come: nothing active among what it scanned, `_jobs`
and `_outbox` equal except between its two inserts (`Calling`). The last part is
what fails with two callers (`memory_dedup`). Each method is reduced to its effect
on the mapped columns before it is compared with `JobStore`.

### The front doors (`FrontDoorProofs`, `HandlerAPIProofs`)

* **`CurrentKeyFound`** and **`WithdrawnExpire`**, for any number of requests in
  `get_key` and a TTL that may run out during a refresh. `OneRefresh`: whoever is between the first fetch and the last holds
  `_lock`. `SteadyKids`: the answer to a request's own fetch holds its kid if that
  was published during the whole call, however old the answer is when applied.
  `DeadKids`: a key of `dead` is in no answer on its way and in the cache only
  while that is stale.
* **`ShedOnlyInOutage`** and **`OutageFailsFast`**, for any threshold.
  `CountsFailures`: the breaker is closed exactly as long as `fail_counter` is
  below the threshold, up to which it is the number of failures in a row, and it
  is half-open only during its trial call. So after a run of failures a call gets
  through only as the trial, after the reset timeout.
* **`OwnershipDecidesReads`** rests on a lemma that needs no behaviour
  (`CanReadIsOwnership`: `can_read_job_created_by` decides from the subject what
  ownership would), and on two invariants: a job's recorded creator is the subject
  of a token of its author, job by job (`Owned`), and a request in the store has
  passed every check and got the job it asked for or nothing (`Serving`).
* **`RetriesNeverStack`** follows from the unique index (`Indexed`) and from
  `CausedByGoal`: all jobs an unsettled request caused are of the one type it
  names. The limiter plays no part in it.
* A **`TypesOK`** for each door; that of `FrontDoor` is the base of the others
  there and no run checks it.

### Only model-checked

Liveness under fairness is outside the prover's reach: `EveryJobEnds`,
`LocksAreReleased`, `BreakerRecovers`, `NobodyIsStarved`. So is the deadlock
check of `transactions` and `handler_api`, which is about `ENABLED`.

## 6. Not modelled

* Discovery of the JWKS URL, migrations, configuration from the environment,
  middleware (headers, correlation ids, logging), demo handlers, containers: no
  state the properties depend on.
* `_connect_with_retry`: it opens the same connection pool again and again at
  start-up; what a second `open` does is up to `psycopg_pool`, which is not part
  of the repository.
* Requests that reach neither a route nor a check: unknown paths, a body that is
  not JSON, CORS preflights, a rate limiter switched off.
* Threads inside `InMemoryStore` methods other than `enqueue`: only `enqueue` and
  reads are called by handlerAPIv2.

## 7. Plan

Modelling is complete as far as the code has state of its own, and the safety
properties are proved. Left:

1. Shorter proofs: `TransactionsProofs` has lemmas on row versions and
   `OrchestratorProofs` on effects of `JobStore`'s methods that could be stated
   once about `JobStore`.
2. Safety facts behind the liveness properties, to bring the argument closer to
   a proof: that a lock's holder always has a step, and what decreases on the way
   of a job to its end.
