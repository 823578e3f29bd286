# TLA+ models of the order service

The repository is a service that takes orders from Kafka, stores them in
PostgreSQL, keeps recent ones in an in-memory LRU cache and serves them over
HTTP. This directory models its concurrent core and the life of its process,
checks the models with TLC on small instances, and proves with TLAPS every
invariant, action property and refinement the passing runs check. `PROJECT.json` lists the runs, the lines of source each
definition stands for, the hazards, the findings and the theorems.

    tlc -workers 2 -config OrderServiceSafety.cfg MCOrderService   # a run
    tlapm OrderServiceProofs.tla                                   # the proofs

## The system

| Component | State | Operations | Hard because |
|---|---|---|---|
| order service (`internal/service`) | the cache | `CreateOrder`, `GetOrder`, `RestoreCache` | duplicate check outside the transaction; the cache is written by creations and by reads that started long ago; three concurrent reads under an errgroup |
| repositories, schema (`internal/repository`, `migrations`) | four tables | inserts, reads | unique keys in three tables; inserts wait for each other; a lost connection looks like the end of the rows |
| transaction manager (`pkg/storage/postgres/transaction`) | retry counter | `ExecuteInTransaction`, `withRetry`, `HandleError` | COMMIT whose answer is lost; classification of errors by Go type and SQLSTATE |
| LRU cache (`pkg/cache`) | map, list, expiry times, cleanup goroutine | `Get`, `Put`, `Has`, `Purge`, cleanup | two structures kept equal by separate statements, capacity, expiry boundary, callbacks |
| Kafka consumer (`internal/transport/kafka/order_consumer.go`) | message in hand, attempt | read, `ProcessWithRetry`, `Send` | the offset is committed before the order is handled; shutdown in between |
| DLQ processor (`dlq_processor.go`) | message in hand, send counter | read, decode, `GetOrder`, `CreateOrder`, `Send` | shares the consumer's reader; its own retry limit |
| DLQ writer (`pkg/kafka/dlq`) | - | `Send`, `ProcessWithRetry` | writes that fail after being done |
| application (`internal/app`, `cmd/order-service`) | errgroup, contexts, pool | the steps of a start, `waitForShutdown`, deferred calls | steps that fail when goroutines already run; errors that hide each other; a server nobody stops |
| HTTP transport (`internal/transport/http`) | listener, requests in flight | `Start`, `Stop`, `GET /orders/{uid}` | signal and context wake the same `select`; `Shutdown` under a context that has ended; one error chain, four statuses |
| PostgreSQL connection (`pkg/storage/postgres`) | pool, backoff | `NewPostgres`, `Close` | `Close` waits for users; the backoff bounds a random number that must be positive |
| Kafka reader (`pkg/kafka`) | position, generation | read, commit, rebalance | shared by two goroutines |

Callers reach the service from the consumer, the DLQ processor and HTTP
handlers, all concurrently; `Run` calls `RestoreCache` before it starts any of
them. The cache is shared memory behind a mutex; the database is reached by
calls that can fail, with a lost answer as the worst case; Kafka is a log with
one committed offset per group.

What makes each part correct: an order is stored whole or not at all, once, and
without sharing a unique key; an acknowledged order stays; an answer of
`GetOrder` is everything that was stored, and its HTTP status says what happened;
the cache never invents an order, evicts the least recently used entry and never
outgrows its capacity; the cleanup started last is the one that runs; a message
leaves the topic only when it is in the DLQ or its uid is in the database; calls
return and loops end; a failure anywhere ends the process, and so does a signal.

## Modules

| Module | Models | Source |
|---|---|---|
| `Orders` | orders, unique keys, the shapes of an `*entity.Order` (bare row, whole order) | `entity`, `migrations`, `validateOrder` |
| `TxErrors` | Go error chains and their classification | `transaction/errors.go`, `isRetryableError`, the repositories' `errors.As` |
| `OrderStore` | abstract: what the service promises its callers | - |
| `OrderService` | the service over the database, one step per database call or cache access | `service.go`, `repository/*.go`, `transaction/manager.go` |
| `OrderAPI` | what a client of `GET /orders/{uid}` is told | `handlers.go`, `error_handling.go` |
| `OrderServiceProofs`, `OrderPromiseProofs` | theorems about `OrderService`: the store, the locks and the cache; the answers and the refinement of `OrderStore` | - |
| `OrderStoreProofs` | what follows from `OrderStore` for whoever relies on it | - |
| `TTLCache` | abstract: what a user of `cache.Cache` may rely on | `cache.go` |
| `LRUCache` | the cache, one step per critical section; the cleanup sweep and `Purge`'s callbacks take several | `lru.go` |
| `CacheCleanup` | `LRUCache` with `StartCleanup`, `StopCleanup` and the goroutines of `runCleanup` | `lru.go` |
| `OrderPipeline` | consumer, DLQ processor, DLQ writer and the reader they share, around the promise of the service | `order_consumer.go`, `dlq_processor.go`, `dlq.go`, `app.go` |
| `Application` | `main`, `Run` and its errgroup, `NewPostgres`, `HTTPServer` | `main.go`, `app.go`, `postgres.go`, `http_server.go`, `routes.go` |
| `LRUCacheProofs`, `CacheCleanupProofs`, `OrderPipelineProofs`, `ApplicationProofs` | theorems about the modules they are named after | - |
| `MCOrderService`, `MCLRUCache`, `MCCacheCleanup`, `MCOrderPipeline`, `MCApplication` | small instances | - |

How they compose: `OrderAPI` extends `OrderService` and `CacheCleanup` extends
`LRUCache`. `OrderService` uses of the cache only what `TTLCache` promises (`Put`,
`Get`, and an entry that may vanish at any time), and `LRUCache` implements
`TTLCache`. `OrderPipeline` uses of the service only what `OrderStore` promises,
and `OrderService` implements `OrderStore`. `Application` reduces the consumer,
the processor and a request to when they start, use the pool and end.

**OrderService.** `db` holds committed rows and `wrote[c]` the tables into which
the caller's open transaction has inserted; `pc` is the place in the code. A
`CreateOrder` goes `duplicate` -> `wait` (the sleep `withRetry` makes before
every attempt) -> `orders` -> `delivery` -> `payment` -> `items` -> `commit` ->
`created` (COMMIT is done, its answer not yet seen) -> `idle`. `Insert` is
disabled while another open transaction has inserted the same unique key (the
lock PostgreSQL takes) and fails when a committed row has it. `CreateFails`
fails any of these calls; after `commit` it is the lost answer. A `GetOrder`
goes `lookup` -> `row` -> `parts`, where three reads run in any order, and
`Join` is `g.Wait()` with the completeness test. `RestoreCache` shares these
steps as the process `Main`. `Forget` stands for whatever makes the cache drop
an entry; it is enabled at any time, so it covers every capacity and TTL.
`Crash` empties the memory and rolls open transactions back. An error is what
`errors.As` and `errors.Is` can find in it: package and SQLSTATE of the
`PgError`, and one sentinel.

**OrderAPI.** The handler keeps no state: a request is a call of `GetOrder` whose
context ends after 500 ms or with the connection. `StatusOf` is the `switch` of
`handleServiceError`, in its order; `StatusHonest` compares the status with the
database and with what was known when the request came.

**LRUCache.** `cache` and `lru` are the map and the list. `sweep` is the
`toRemove` of `cleanupExpired`: while it is not empty the mutex is held and every
other operation is disabled. `pending` holds what `Purge` has collected and
still has to hand to `onEvicted` after unlocking. `since` is a history variable:
which keys were used since a key was last used.

**CacheCleanup.** A channel is named after the goroutine `StartCleanup` starts with
it. `Select` is the moment the `select` of `runCleanup` evaluates `c.cleanupStop`,
without the mutex; between two rounds the field may have become nil or the
channel of a later goroutine. `CleanupExpired` holds the mutex from `Collect` to the
last `SweepOne`. A goroutine that finds nil waits for its ticker only, until a
later start gives it a channel to wait for: it may live on after `StopCleanup`, so
no property says that it ends.

**OrderPipeline.** The topic has one partition. `Fetch` and `Commit` are the two
halves of `ReadMessage` with a consumer group and no commit interval; `pos` is
the reader's position, `committed` the group's offset at the broker, where a
restart resumes. `Hazards` names what may fail; after a cancellation everything
may. `CreateOrder` is two steps over the `store` of `OrderStore`. `CheckDuplicate`
looks at the uid alone and before any validation (`service.go:161-167`): whatever
order is stored under it makes the call succeed. `Insert` does a `Save` of
`OrderStore` and says so, or does one and fails (a lost answer of COMMIT), or fails
because the order cannot be saved or the database does not answer; the other
goroutine may store between the two steps. `LookUp` likewise skips an envelope when
any order is stored under its uid (`dlq_processor.go:116-122`). `Known(o)` is what
such an answer is worth: an order is stored under the uid of `o`, which need not be
`o`. `Rebalance` takes the reader back to
the committed offset while the goroutines keep what they hold. The three DLQ
writes of the processor run under the `handleCtx` that `CreateOrder` has used
(`dlq_processor.go:124-150`), so when the creation has used up its two seconds they
fail too: `SendFails` allows it wherever the database may fail. `fetched`, `struck`,
`unsent` and `again` are history variables; `struck` holds what was in hand at a
crash, a shutdown or a failed commit, or when the last write to the DLQ had failed;
`again` what was in hand when a rebalance took the reader back before it, until
nobody holds it any more. A commit that fails may have reached the broker.

**Application.** `main` is the step of `main.go` and `Run` that comes next, the
deferred calls included; `at` is where each goroutine of the two nested errgroups
is, `err` the first error of each group, from which `Canceled` derives the two
contexts. A signal goes to everyone who has asked for it: it cancels the context
of `main` and, if the watcher of the HTTP server has called `signal.Notify`, fills
its channel, so that both cases of its `select` are ready. `ctxDone` is the context
of `main`, which a signal cancels, or `main` itself after a failed `Run`
(`RunReturns`). `Failures` names the
steps that may fail. `config.go` refuses the options that would make the
transaction manager, the cache or the DLQ fail, so the instances leave these out;
the theorems hold for all. The pool is refused to new users once `Close` has
begun, which waits for those it has.

## Runs and bounds

| Run | Checks | Bounds |
|---|---|---|
| `OrderServiceSafety` | type, `OrderAtomic`, `KeysUnique`, `CacheMirrorsDB`, `AckedStored`, `ServedWhole`, `FoundIfKnown`, `ConflictReal`, `StoredForever`, and that the service implements `OrderStore` (`KeepsPromise`) | 2 callers and `Main`; 2 uids, 3 orders: two that are compatible, a third with the uid of one and the request id of the other; one failing SQLSTATE; restarts |
| `OrderServiceRivals` | `KeysUnique`, `LocksResolve`, `StatusHonest`, `StoredForever`, `KeepsPromise`, `Responds` | 2 callers; different orders under one uid, orders that share a request id, one that validation refuses; failing calls, deadlines, cancellations |
| `CacheCleanup` | `Coherent`, `EvictsOldest`, `ChannelsTracked`, `CleanerAlive`, `OneSweeper`, and that the cache implements `TTLCache` (`ActsAsTTLCache`) | capacity 2, 3 keys, 1 value, time to live none or 1, clock up to 3 (`MaxTime`), 1 purge, 2 starts of the cleanup |
| `OrderPipeline` | `ConsumerAccounts`, `ProcessorAccounts`, `NoGap`, `NeverShared`, `Drains`, `Stops` | a topic of 2 messages, an order and an envelope around a different one under the same uid; 5 topics of one message: an order validation refuses, bytes that are not JSON, envelopes around an envelope, around such bytes, and with the retries used up; 2 attempts, 1 retry; all hazards |
| `Application` | `PoolOutlivesWork`, `CauseKept`, `WorkStops`, `FailedEnds`, `ServerStops` | 2 requests; 3 connection attempts, delays from 1 to 3; every failure the shipped configuration can meet; signals |

The other seven runs each look for the violation of one property; see Findings.

Two callers are enough for the races of the service: the checks it makes before a
transaction compare one caller's order with what is committed, and a wait for a lock
involves the holder and the waiter. Three orders make the three ways of colliding.
One capacity-2 cache with three keys has a full cache, an eviction and an overwrite;
the clock passes an expiry twice. Two cleanup goroutines are an old and a new one,
and nothing in the code distinguishes a third. Two messages suffice to commit out of
order, to divide between two goroutines and to be delivered again while both are in
hand; two orders under one uid are the case in which an acknowledgement says least,
and which of them is stored first depends on the interleaving. An order whose other
keys are taken is to the pipeline one that cannot be saved, like the invalid one,
and costs more states than it adds. The retry limits are scaled to 2 and 1 there,
while the runs about the limits themselves use the code's 10 and 3. Two requests are
one that `Shutdown` finds and one that comes later; the delays 1, 2, 3 meet the
doubling and its limit. `attempt` in the service is bounded by the code's own limit,
and the contents of the DLQ are a set.

Deadlock is checked except where the system really stops: in `Application`, whose
process exits, and in the pipeline runs that look for one violation. (In
`OrderPipeline` a rebalance is possible at any time.)

Fairness (`FairSpec`). In the service: a goroutine that can run does run, and
database calls are answered, if only with an error; PostgreSQL queues the
waiters for a lock, so an insert that is enabled again and again is executed
(SF). In the pipeline: each goroutine keeps running and broker and database
answer; Go's `select` chooses at random between the ticker and a context that
is done, so the processor takes the latter eventually (SF). In the application:
every goroutine that can run does, and work on a message or a request ends,
because each database call has a deadline or ends with its context; that a
listener or a context is chosen by a `select` with two ready cases is not assumed.
Crashes, failures, signals, rebalances, messages and requests are never assumed;
`Drains` speaks of behaviours in which crashes and rebalances come to an end.

## Findings

Seven runs expect a violation, each of a sentence of the README, a test or a
comment of the repository:

- `OrderServiceRetry`: the retry loop and the repositories look for the
  `PgError` of `github.com/jackc/pgconn`, the driver is pgx v5 and returns its
  own. No transient error is retried and no conflict is recognised.
- `OrderServiceCut`: `GetListByOrderUID` never looks at `rows.Err()`; a lost
  connection gives an order with fewer items, which is served and cached.
- `LRUCachePurge`: `Purge` reports in map order; its test expects insertion order.
- `OrderPipelineKept`: the DLQ processor reads the orders topic and drops the
  orders it takes; nobody reads the DLQ.
- `OrderPipelineRetriable`: the consumer writes retry count 10, the processor
  skips everything from 3 on.
- `OrderPipelineShutdown`: an order in hand at a shutdown is lost.
- `ApplicationSignal`: a signal does not end the process. Nothing shuts the metrics
  server down, so `eg.Wait` never returns; and when the watcher of the HTTP server
  sees the canceled context before the signal, nothing shuts that server down
  either. The deferred closing of cache and pool never runs.

`OrderServiceSafety` keeps item lists whole, `ConsumerAccounts` and
`ProcessorAccounts` except shutdowns, crashes, failed commits and messages whose
every DLQ write failed (two by the consumer, three by the processor) and speak of
the uid, not of the order stored under it, and the liveness properties of
`Application` speak of the Kafka goroutines, of the HTTP server once its watcher
acts on the signal, and of a `Run` that fails: they say what still holds beside
these findings.

Seen on the way, and not the subject of a run: an order that arrives under a uid that
is already stored is acknowledged, however different or invalid it is
(`service.go:161-164`), and skipped when it comes in an envelope
(`dlq_processor.go:116-122`): it is neither stored nor in the DLQ, so correcting an
order by sending it again has no effect (no text of the repository says what should
happen); a failed `Run` is logged and the
process exits with code 0, so `restart: on-failure` (`docker-compose.yml:113`) does
not restart it; the shutdown timeout of the HTTP server is derived from a context
the signal has already canceled, so requests in flight get no grace; the handler's
API comments (`handlers.go:24-27`) do not mention the status 504 it returns; `app.go`
passes only the pool size to `NewPostgres`, so the configured connection attempts
and delays are not used; a creation that times out in the DLQ processor leaves its
DLQ writes no time (`dlq_processor.go:124`), so the order is only logged. Three of
the findings do not depend on the instance: `OneAttemptTheorem`,
`NeverRetriedTheorem` and `WaitsForeverTheorem` below say why.

## Proofs

`OrderServiceProofs` holds for every set of callers, orders, errors and (where
not said otherwise) faults, under `OrderAssumption` (orders are well-formed
records, `NoOrder` is none of them, there is one) and `ServiceAssumption`
(`Main` is no caller; no database call fails with the `PgError` type nothing
builds, nor with `ErrTxClosed`).

1. `TypeCorrect`: `TypeOK` is inductive by itself.
2. The store. `OrderAtomic`, `KeysUnique` and `AckedStored` are not inductive:
   what COMMIT publishes depends on what the inserts before it found. `StoreInv`
   adds that the tables a transaction has written are those before its `pc`,
   that its order is valid and under its uid, that none of its keys is taken by
   a committed row (the inserts checked it, and no other transaction can have
   committed the key since, because it would have had to insert it while
   ours held it), that two open transactions never hold the same key, and
   that at `created` the order is stored. From it follow `AtomicTheorem`,
   `UniqueTheorem`, `AckTheorem` and, as an action property,
   `StoredForeverTheorem`: COMMIT writes only where there was no row.
3. The locks (`LocksTheorem`). `LocksResolve` speaks of waits in a circle. Whoever
   waits for a key does so at the table of that key, and its holder has written that
   table and is past it (`HolderIsAhead`); so among the callers with an open
   transaction one that has come furthest waits for nobody. It rests on `StoreInv`,
   which ties the tables a transaction has written to its `pc`.
4. No second attempt (`OneAttemptTheorem`). No error a database call can return, after
   the layers that wrap it, is one that `isRetryableError` recognises
   (`NoneRetryable`, from `ServiceAssumption`): `attempt` never exceeds 1, so
   `OrderServiceRetry` is no matter of its instance.
5. The cache and the answers. `CacheMirrorsDB`, `ServedWhole` and `FoundIfKnown`
   need to know what a read in progress has seen: `ReadInv` says that the row it
   holds is the stored one, that the components already read are readings of that
   row, and that an order known at the call is still stored. It rests on
   `StoreInv` and on `StoredForever`, since what was read must still be true
   when it is cached. A reading of an order (`Readable`) is the order with its own
   delivery and payment and, if item lists may be cut, any number of items from one
   to all. `ReadInv` needs no assumption on the hazards: `CacheOfStoredTheorem` and
   `ServedOfStoredTheorem` say that even then nothing worse than missing items
   can be cached or served. Without cuts a reading is the whole order
   (`Uncut`), which gives `CacheTheorem` and `ServedTheorem`; `OrderServiceCut` shows
   that they need this assumption.

`OrderPipelineProofs` holds for every content of the topic, every limit and every
set of hazards under `OrderAssumption` and `PipelineAssumption` (`Blank` has no uid,
the limits are positive).

6. Sharing and gaps. `NeverShared` and `NoGap` rest on `HandInv`: a goroutine
   has a message in hand exactly between fetching and releasing it; the reader
   has passed whatever is in hand, or a rebalance has noted it in `again`; and
   somebody has fetched everything up to the reader, up to the committed offset
   and up to whatever is in hand. The last part is what a commit needs, because
   after a rebalance the message in hand may lie beyond the reader
   (`SharedTheorem`, `GapTheorem`). `again` may forget a message only once nobody
   holds it, which is all the invariant needs.
7. `ConsumerAccounts` needs `AccountInv`: before the second write to the DLQ the
   first has failed or the message was struck, and once the context is canceled
   whatever is in hand is struck. What settles a message is never taken back
   (`SettledStays`), so only the consumer's own steps matter (`AccountTheorem`).
   `ProcessorAccounts` is likewise settled by the processor's own steps
   (`ProcessorAccountTheorem`). Both say of a released message that its uid is known
   or it is in the DLQ; `CreateFacts` says what a step of `CreateOrder` may do.
   `OwnOrderTheorem` says when that is as good as it sounds: if no two messages of a
   topic carry different orders under one uid (`OneOrderPerUid`, as of the producer
   command, which draws a new uid for each), the order itself is stored. It needs
   `StoreInv`: what is stored under a uid is valid, has that uid and came from a
   message of the topic; so it is never the `Blank` that the consumer takes an
   envelope for.
8. What the DLQ holds. `DLQInv` says who wrote an entry: the consumer, with as many
   retries as it makes attempts, or the processor, one more than an envelope it found
   retriable. Hence no retry count passes the limits (`RetriesBoundedTheorem`), and
   when the processor's limit is no larger than the number of attempts, as in
   every configuration in the repository, nothing the consumer wrote is ever tried
   again (`NeverRetriedTheorem`, of which `OrderPipelineRetriable` is one case).
9. `NothingLostTheorem`: when only the database fails and the group rebalances, and
   no two orders share a uid, each order the consumer releases is itself stored or in
   the DLQ, with no exception. `CalmInv` says that then no context is canceled and no
   second write is ever needed. Without `OneOrderPerUid` this is false: with no fault
   at all, the second of two orders under one uid is acknowledged and gone.

`LRUCacheProofs` holds for every set of keys and values, capacity and number of
goroutines under `CacheAssumption` (the capacity is positive, `NoEntry` is no
entry).

10. `Coherent` is inductive together with the types (`CacheInv`). Three lemmas say
   what removing an element, pushing one in front and dropping the last do to a
   list without repetitions; each operation is one of these (`CoherentTheorem`).
11. `EvictsOldest` needs `OrderInv`: a key stands behind every key that was used
   since its own last use, and what a sweep is about to remove has expired. The
   lemmas say that the three list operations keep the order, so the last of the
   list is the one all others were used after (`EvictsOldestTheorem`).

12. `ActsAsTTLCacheTheorem`: every step of `LRUCache` is a step of `TTLCache` or a
   stutter. An insertion into a full cache is two things at once for the map, an
   entry that goes and one that comes; `PutRefines` shows that `TTLCache` allows
   both in one `Put`. A sweep and the collecting of `Purge` are seen as the entries
   they remove, the callbacks as stutters.

`CacheCleanupProofs` (any number of starts) rests on the same assumptions.

13. `CleanupRefines`: a step of `CacheCleanup` is a step of `LRUCache` or leaves the
   cache alone. Whatever was proved of `LRUCache` follows (`CleanupCoherent`,
   `CleanupEvictsOldest`, `CleanupActsAsTTLCache`).
14. `ChannelsTracked`, `CleanerAlive` and `OneSweeper` are inductive only together
    (`CleanupInv`): that the newest goroutine waits for its own channel follows
    from the field being its channel as long as the cleanup is on, and that
    nobody ends it from that channel not being closed.

`ApplicationProofs` holds for every set of requests, number of attempts, delays and
failures under `ApplicationAssumption` (what `Postgres.validate` demands).

15. `AppInv` joins four parts: the types; that attempts are left as long as
    `NewPostgres` has not been left; that the pool is open from the step after
    the database until the deferred calls, which `Wait` reaches only when both
    Kafka goroutines have ended, and that they start after the last step that can
    fail; and that a cancellation is recorded as an error only once the context of
    `main` is canceled or after the error that caused it. From it `ApplicationTypes`,
    `PoolOutlivesWorkTheorem` and `CauseKeptTheorem`.
16. How the process ends. Nothing but its failure ends the metrics server, so without
    it `Run` never gets past `eg.Wait` (`WaitsForeverTheorem`); and a process that
    exits with code 0 has failed (`OkHidesFailureTheorem`, from `EndInv`, which ties
    the deferred calls and the exit code to the errors recorded before).

`OrderPromiseProofs` goes on from `OrderServiceProofs`.

17. Every step of the service asks (a call), answers (a return), commits, crashes
    or is silent (`StepKinds`), and an answer is one of the outcomes `Outcome` lists,
    each with what is then true of the database. `AnswerInv` says that a running
    call has not been answered and that only a failure carries an error.
18. `ConflictTheorem`: a caller told of a conflict collided with a stored order, if
    no call fails with a unique violation the database did not find
    (`NoFakeConflict`). `StatusTheorem`: the status is honest if item lists are not
    cut.
19. `KeepsPromiseTheorem`: under the same proviso the service implements
    `OrderStore`. COMMIT is the step that stores; it needs `StoreInv` to know that it
    writes a whole order where there was none. An answer needs `ReadInv` and
    `AnswerInv` to be one that `OrderStore` allows.

`OrderStoreProofs` draws the consequences of the abstract specification, which
`OrderPipeline` and any other user of the service rely on.

20. `StoreSound`, `StoreKept`: the store holds valid orders under their own uids, no
    two with a common unique key, and none is ever changed; `Save` demands free keys,
    and two orders under one uid share a key. `AnswersStayTrue`: an answer that was
    true when it was given remains so, because it speaks only of what is kept
    (`AnswersInv`).

Only model-checked: liveness (`Responds`, `Drains`, `Stops`, `WorkStops`,
`FailedEnds`, `ServerStops`), which is out of the prover's reach, and the
violations other than the three that follow from `OneAttemptTheorem`,
`NeverRetriedTheorem` and `WaitsForeverTheorem`. `LocksTheorem` and `NothingLostTheorem`
are the safety halves of `Responds` and `Drains`: somebody can always go on, and what
leaves the pipeline is accounted for; that it does leave is left to TLC.

## Not modelled

- The logger and the metrics: nothing in the program reads back what they write;
  the server that exports the metrics is in `Application`.
- Configuration: read once; the limits its tags state are the assumptions on the
  models' constants, its failure is a step of `Application`.
- The producer command, a sequential generator of orders outside the service.
- Generated mocks, the API description and the web page.
- Middleware, `/health` and the static pages keep no state.
- CHECK constraints and column types appear as statements that fail. Lengths of
  waits and timeouts are abstracted: a timeout may strike wherever its context is
  used, so the delays of `withRetry` and `ProcessWithRetry` have no effect on what
  can happen; the backoff of `NewPostgres` is modelled because it bounds a random
  number.
- More than one Kafka partition: messages of several partitions interleave as those
  of several topics would, and each has its own offset. Other members of the
  consumer group: a rebalance gives the partition back to this process.
- A rollback is one step with the return of the error, and a COMMIT whose answer is
  lost has either been carried out by then or never is: one that the server carries
  out after the client has given up and returned is not modelled.
- The exit code after a failed `Run` is an assignment in `Exit`; a property would
  repeat it.
- The connection attempts of `NewPostgres` fail more often in the model than with
  pgx v5, whose pool connects lazily.

## Plan

Done: all modules above. What could still be added, in this order:

1. A composition of `OrderPipeline` with several partitions and a second member of
   the group that commits offsets of its own.
2. `OrderService` with the real cache instead of an entry that may vanish at any
   time, to check hit rates that `RestoreCache` is meant to give; the refinement of
   `TTLCache` makes this unnecessary for safety.
3. A proof that `OrderService` uses of its cache only steps of `TTLCache`; that rests
   on reading the definitions side by side so far. (That the pipeline does to the
   store only what `OrderStore` allows needs none: its one step that changes the
   store is `OrderStore`'s `Save`.)
