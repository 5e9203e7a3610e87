# Verification of the real-time supply chain services

TLA+ specifications of the services in `src/`, the TLC configurations that check
them, and the theorems TLAPS proves about them.

## 1. Inventory of the system

Two Go services talk through NATS JetStream and keep their state in PostgreSQL
and Redis. There are no tests in the repository.

| Component | State | Operations | Talks to |
|---|---|---|---|
| Inventory subscriptions, `services/inventory/internal/service/service.go` | `subs` | `Start` (six durable queue subscriptions), `Stop` | subscriber |
| Inventory handlers, `service/handlers.go` | none | one handler per event kind | domain, publisher |
| Subscriber, `messaging/subscriber.go` | none | `Consume`: unmarshal, handle, Ack / Nak / dead letter + Term, recover | JetStream |
| Idempotency, `messaging/idempotency.go`, `messaging/store` | Redis keys `evt:<id>` (24 h) | `Seen`, `Mark`, `TryClaim` | Redis |
| Publisher, `messaging/publisher.go` | none | `Publish`, `PublishDLQ` | JetStream |
| Inventory cache, `stores/invcache` | Redis hashes `inventory:<location>:<sku>` (no expiry) | get, create, update, delete | Redis, store |
| Inventory store and domain, `stores/invdb`, `domain`, `migrate.sql` | table `inventory` with CHECK clauses | get, create, update, delete | PostgreSQL |
| Inventory process, `cmd/inventory/main.go` | context, signals, the connection | start, graceful shutdown | all of the above |
| Stream set-up, `messaging/connection.go` (both services), `cmd/shipment/main.go` | the stream `EVENTS` | `NewNATS`, `EnsureStream`, called by the shipment process only | JetStream |
| Shipment domain, store, cache, `services/shipment/internal/domain/shipment` | four tables, Redis entries (24 h) | create, update, delete, query | PostgreSQL, Redis |
| Shipment messaging, `services/shipment/internal/messaging` | Redis keys | middleware chain, `WithTryClaim`, `WithIdempotency`, subscriber, publisher | JetStream, Redis |
| Migrations and seed data, `internal/migrate` of both services | none | `Migrate`, `Seed` in a transaction | PostgreSQL |
| SQL helpers, `pkg/sdks/sqldb` | connection pool | queries, transactions, `StatusCheck` retries | PostgreSQL |
| Array codec, `pkg/sdks/sqldb/dbarray` (imported by nobody yet) | the two infinity limits | `Value` and `Scan` of eight array types, `parseArray`, bytea, timestamps | |
| Logger, tracing, generated protobuf, build files | | | |

How they interact: an order or shipment event arrives on its stream; JetStream
pushes a copy to one replica of the queue group; the subscription's goroutine runs
the callback, which checks the id in Redis, reads the row through the cache,
decides, updates the table, evicts the cache entry, publishes one or two events,
marks the id and acknowledges. All of these are separate calls to three servers.

What is hard, and what makes each component correct:

* *Interleaving.* The six subscriptions of a replica, and the replicas, run
  concurrently on the same rows; read, decide and write are not one transaction.
  Correct: no update is lost, what was announced as reserved is held, the table's
  CHECK clauses are never violated.
* *Delivery.* At least once, with lost answers, early redelivery and duplicates by
  the producer. Correct: an event changes the stock once; an order gets one answer.
* *Partial failure and crashes* between any two calls. Correct: an event that left its
  stream was recorded or kept as a dead letter; an order that was handled was answered;
  a change was announced.
* *Retries.* Correct: an event that can never be handled ends as a dead letter
  after the fifth delivery, and nothing else does.
* *Cache.* Correct: a decision is made on a row that was in the table.
* *Shutdown.* `Start` runs in a goroutine of its own, `Stop` in another one, and the
  context of every running handler is cancelled before the subscriptions are drained.
  Correct: `Stop` closes what it found, a service is never half subscribed, an event a
  shutdown cuts short is delivered again.
* *Aggregates.* A shipment is four tables and a cache entry, written by four to eight
  separate calls, in a transaction or not. Correct: the cache does not contradict the
  tables without somebody having been told, a partial aggregate comes from a failed call,
  a transaction is seen whole or not at all.
* *Text formats.* Correct: an array that is stored comes back, the scanner reads every literal
  the backend emits and loses no character of any other text it takes, and a scan that fails
  assigns nothing.

## 2. Modules

| Module | Models |
|---|---|
| `StockLevels` | the arithmetic of a row and the constraints of the table (`handlers.go`, `migrate.sql`) |
| `DurableConsumer` | JetStream's side of a durable push consumer (external: modelled from its use in `subscriber.go`) |
| `InventoryService` | the workers: subscriber, idempotency wrapper, handlers, cache, store, publisher, crashes, timers |
| `EventHandling` | abstract specification of subscriber and wrapper |
| `StockLedger` | abstract specification of the stock: atomic effects on the current row |
| `InventoryInvariant` | type invariant and inductive invariant |
| `InventoryProperties` | the other properties and the two refinement mappings |
| `ShipmentConsumer` | the shipment service's subscriber, its chain of middlewares and its idempotency store |
| `ShipmentConsumerProperties` | what the chain promises, depending on its layers; the refinement mapping to `EventHandling` |
| `ShipmentStore` | shipment domain, cache, SQL statements on the four tables, transactions, seed |
| `StreamSetup` | the stream `EVENTS` and the start of the shipment process (`EnsureStream`) |
| `InventoryProcess` | EXTENDS `StreamSetup`: the inventory process from start to exit, `Start`, `Stop`, the durable consumers, and the events on the way |
| `ArrayItems` | what the two parts of the array codec share |
| `ArrayParser` | `parseArray`, one action per turn of its loops |
| `ArrayText` | writing arrays as text, reading elements back, bytea, timestamps (pure operators) |
| `ArrayColumn` | composes both: an array is stored, the server may print it anew, it is scanned into a destination that holds other elements |
| `MCInventory`, `MCShipment`, `MCShipmentStore`, `MCInventoryProcess`, `MCArray` | scenarios for TLC; one `.cfg` per question |
| `InventoryServiceProofs` | the inductive invariant is one; what follows from it; how an event may leave its stream: answered, or put aside only when exhausted |
| `InventoryRefinementProofs` | the service implements `EventHandling` and, with one writer for each row, `StockLedger`; reservations are covered |
| `DeliveryProofs` | no event changes the stock twice, and no order is answered two ways, when only answers get lost or copies come back early |
| `ShipmentConsumerProofs` | what each kind of chain guarantees, for every chain |
| `ShipmentStoreProofs` | what cache, tables and transactions may disagree about |
| `InventoryProcessProofs` | shutdown, subscriptions, and what a process's end costs an event |
| `ArrayParserProofs` | the scanner's counts for every text, failed scans, timestamps |
| `ArrayRoundTripProofs` | the scanner reads every literal; an array that is stored comes back |

### State and code

A worker `<<i, k>>` is the goroutine nats.go runs for replica `i`'s subscription to
events of kind `k`: it takes one message at a time. `pc[w]` is the next call its
callback makes and `job[w]` its locals: the message, `NumDelivered` (`attempt`), the key
and the row `inv`. The stages follow the call chain

    checkSeen -> readCache -> (hit) ---------------------> handle
                           -> readTable -> fillCache ----> handle
    handle -> update -> evict -> [reserved ->] updated -> mark -> ack
    handle -> refused -> mark -> ack        handle -> mark -> ack
    any failed call -> nak, or at the last delivery bury -> term

An event without id skips `checkSeen` and `mark`, as `WithIdempotency` does. Every
call that leaves the process is one action with its outcomes: success, the failure
the code sees, and for writes (UPDATE, DEL, SET, publish) a failure after the
effect, since a lost answer looks like an error. The decision of a handler is local
and one action per handler.

`table` is the table, `cached` the keys with a cache entry (the values are never
used, because a hit returns `domain.Inventory{}`; hence `BlankRow` and `NoKey`),
`marked` the idempotency keys, `events` and `dlq` what was published, `status`,
`deliveries` and `inbox` the server's view and the copies waiting in client-side
queues. `applied` is a history variable: how many UPDATEs an event committed.

Abstractions: quantities are unbounded integers and `FitsColumns` refuses at the
UPDATE what an INTEGER column cannot take (a 64-bit wrap-around starts from a value of
the table or zero and always lands outside 32 bits); `incoming` and `updated_at` are
carried unchanged and left out; copies are taken in any order; two copies of one message
with the same delivery count in one queue are one; `MaxAckPending` (1024) is not reached.
A published event is a message, a subject and the row it names; publishing twice is
publishing once. The table's rows are never created or deleted: the service does
neither. An event that was pushed may be taken at any later time, so arrival of
events is not modelled separately.

### The shipment consumer

The messaging package of the shipment service is a library its process does not use yet:
`NewSubscriber` takes any sequence of middlewares and `Consume` any handler. Both are
parameters of `ShipmentConsumer`: `Middlewares` is the sequence (nil elements
included), `Behaviour` says whether the handler succeeds, fails or panics for a message.
A callback is at a position `at` of the chain: it goes down by `PassDown`, `TryClaim` or
`CheckSeen`, calls the handler below the last layer, and comes back up with an error or
without by `PassUp` and `Mark`; a panic unwinds the layers until `Panics` turns it into an
error, or ends the process (`PanicEscapes`: every layer is optional, and
`subscriber.go` itself recovers nothing). `Timeout` and `Metrics` only call the next
layer. `WithTryClaim` and `WithIdempotency` share the store and the prefix `evt:`, hence
one variable `marked`. A message that cannot be unmarshalled is terminated without a
dead letter, unlike in the inventory service. `started` and `done` are history
variables: calls of the handler per id, and messages whose handler returned nil.

The two idempotency layers promise opposite things, and the properties say which:

* with `WithTryClaim`, and as long as no claim expires, the handler is called at most once
  for an id (`ClaimedRunsOnce`). An event whose only call failed is lost: the redelivery
  finds the claim, returns nil and is acknowledged. So `AckedWasHandled` is not
  claimed for such chains, nor is any dead letter;
* with `WithIdempotency`, and in general without `WithTryClaim`, an acknowledged event
  was handled (`AckedWasHandled`), possibly several times.

The stream is assumed to exist; the shipment process creates it at its start
(`StreamSetup`).

### The shipment store

Outside a transaction every statement commits by itself, so in `ShipmentStore` a call is
the list of statements it has left (`Program`: the operations of `shipmentdb` followed by
what `shpimentcache` does after them) and each statement is a step. `Execute` is what any
writing statement may do: wait for a row or a tracking number another transaction wrote,
be accepted or refused by the constraints, fail before or, outside a transaction, after it
took effect. A client may pass a transaction to `NewWithTx` (`tx`): its writes go to a
private copy (`over`) of the shipments it wrote (`touched`), which are locked until it
ends; a refused statement aborts it; of two clients that wait for each other either may be
the victim. Reads see what is committed and their own writes. The cache is the same one in
and out of a transaction, as in the code.

`db` holds of each shipment a header and the keys of its items, logs and status changes;
a header is a model value with a tracking number. `NullTimes` are the headers with a time
that is NULL: `seed.sql` leaves `delivered_at` out, and no query can scan such a row into
`shipmentDB`. Rows keep the shipment id their caller wrote into them, in `NewShipment` and in
`UpdateShipment`; only shipments handed to `Storer.Create` whole (`Complete`) are assumed to
name themselves in their rows, which the store does not check. Locks are those of whole
shipments, coarser than PostgreSQL's, and an aborted transaction keeps them until its
Rollback. Precision and zone of the times are left out. Ids are never reused (`Unseen`). Two
history variables state the properties: `failed` holds the shipments written by calls that
returned an error, `suspect` those whose entry may be out of date because a call failed,
a read overlapped a write, or a transaction was involved.

### The inventory process

`InventoryProcess` follows `run`: `phase[i]` is the call it makes next (Redis, NATS, up,
`stopping`, the loop of `Stop`, `nc.Drain`), `starter[i]` the goroutine of `Start`, which
subscribes one subject after the other and appends to `subs[i]` while `Stop` may be
running; `seen` and `todo` are the subscriptions the goroutine of `Stop` found and has
left. `Drain` returns at once and `Unsubscribe` follows. An error of `Start` cancels the
context. `Init` also chooses which processes are deployed: the others are `absent`, and stay so.
`faults` may start above zero, which lowers the bound of that deployment and adds no behaviour.

The server's side is external: QueueSubscribe makes the durable consumer if there is
none, closing that subscription deletes it, and whoever subscribes next makes it anew and
receives the stream from its beginning; answers that reach a consumer made anew may or may
not count. The other members of a deleted consumer keep an open subscription nothing is sent to;
`deaf` remembers which. QueueSubscribe fails when the stream does not capture the subject
(`Captured`, from `StreamSetup`, where the shipment process replaces the subjects of
`EVENTS` by the single one of its environment).

A callback makes the calls of `InventoryService` one by one, so that a shutdown, a crash or
a failure falls between any two of them; what is left out is the arithmetic:

    seen -> read -> (hit) -> decided by a blank row -> publish | mark
                 -> fetch -> fill -> decided by the row -> update -> evict -> publish -> mark -> ack
                                                        -> publish | mark
    any failed call -> nak, or at the last delivery bury -> term

`WithRow` and `WithBlank` say for each subject where its handler may go with the row it read
and with the blank row of a hit: to the UPDATE, to a publication (a refusal) or to the mark (nothing
to ship or release). `job[w].holds` is what the callback has of the stock. A cancelled context
fails every call to Redis, PostgreSQL and JetStream but not the answers; `Works` and `Fails`
are a call that succeeds and one that fails with its context or alone, and the failure of an
UPDATE, SET or DEL may come after its effect. An error of `Seen` counts as "not seen".

Four history variables state the properties. `lapses` counts the occasions on which an event
may change the stock again: an UPDATE whose answer was lost, a failure or an end between
UPDATE and mark, a mark that expired or could not be looked up, a delivery while another
process held a copy. `left` are the cache entries that no callback will evict any more. `excused` are the
events whose handler found nothing to change in the row it read, or that met an entry which
was left or whose callback was still between fill and eviction. Events carry an id here; events without one, malformed ones
and panics are covered by `InventoryService`.

### The array codec

A character is a string; a keyword or a numeral, which the package copies or hands to
`strconv` whole, counts as one character. `ArrayParser` has one action per turn of each
loop of `parseArray`, and `pc` is the label it is at. `ArrayColumn` stores an array of any
type (`Value`), or lets another client write any text, and reads it (`Scan`); `Reprint`
is the server returning the array in its own quoting, or bytes in the escape format.
Numbers are scaled: `Numerals` says which integer a numeral denotes, `Int64s`, `Int32s` and
`Float32Of` which fit. `Stamps` gives the text of a formatted time. The values that only
reflection handles are the domain of `Nesting`, which says how deep the lists in each go:
nesting is finite, without bound. `LiteralAssumption` says that the literals of the module
are strings, which is a tautology of TLA+ the prover does not know. A numeral is none of the
special characters. An array of type `[]float32` holds numbers that are their own nearest
float32; the text of bytes has the lower-case digits `encodeBytea` writes.

### Faults

`Faults` says which kinds a run considers, `MaxFaults` bounds how many happen:
`redis`, `db`, `publish` (a call fails, possibly after its effect), `ack` (an answer to
JetStream is lost: the code drops its error), `slow` (AckWait runs out while a copy is
still held), `panic`, `crash` (a replica loses its callbacks and queues and comes back)
and `ttl` (a mark expires; never while a callback of its id runs, which takes
seconds, not 24 hours). `rows` is a connection that fails between two rows of a result,
`nats` a call to the server that fails, `outage` one longer than `MaxReconnects` attempts,
after which the client closes its connection for good. In `InventoryProcess` `slow` is the
shutdown time-out.

### Fairness

`FairSpec`: weak fairness of taking a message and of every step of a callback
(goroutines run, and every call has a deadline: 30 s for the handler, 5 s for
publishing), of the server pushing what is due, and of AckWait running out for a message
nobody holds. Faults are never fair and are finite in number. In the shipment consumer
the handler is assumed to return or panic (nothing forces it: a `Timeout` layer only
cancels its context), so `EverySettles` is a statement about such handlers.

`InventoryProcess`: a process that runs, the goroutine of `Start`, its callbacks, the server
and AckWait are weakly fair. Starting a process is not: the compose file restarts NATS,
PostgreSQL and Redis, and nothing in the repository restarts a service. `EventsSettle`
therefore has the premise that some process is connected, and not deaf, again and again, and
that the stream captures the subjects from some time on. (`InventoryService` and `ShipmentConsumer`
describe running replicas: a crash there includes the restart.) The shipment process and
the store have no fairness, and no liveness is claimed of them: two clients may wait for
each other as long as they like.

## 3. Runs

The bound of a run is its set of messages, its number of faults (`MaxFaults`) and
`MaxDeliver` (5 in the code; 2 in most runs, since only "below the limit" and "at the limit"
differ; 5 in `poison`). `MaxCalls` and `MaxSignals` bound the store and the lifecycle, and
`MaxInteger` stands for the largest value of an INTEGER column. Deadlock is not checked,
except in `arrays`: when every event is settled a service waits for the next, and clients
of the store stop after `MaxCalls` calls.

| Run | Instance | Question | Result |
|---|---|---|---|
| `replicas` | two replicas, two competing orders, any two faults | types, CHECK clauses, announced is stored, handled is answered | holds |
| `one_writer` | one replica; an order, a cancellation without id on another row, a shipment on a third; each row in stock; any one fault | the inductive invariant; each row has one writing subscription, so the service implements `StockLedger` and holds what it announced | holds |
| `duplicates` | one replica; an order published twice next to two shipment events; two lost answers or early AckWaits | each event and each order is applied once, and answered one way | holds |
| `poison` | a garbled event, one for an unknown row, one that overflows the column; five deliveries; any one fault but a panic or a lost dead letter | they leave their streams, as dead letters, after the last delivery and not before; the service implements `EventHandling` | holds |
| `claims` | two replicas, `WithTryClaim`, no `Panics`; an id published twice and an event that fails; any two faults but expiry | the handler is called at most once for an id | holds |
| `shipment_events` | one replica, `Panics` and `WithIdempotency`; an event handled, one that fails, one that panics, one garbled; any one fault but a lost dead letter | nothing acknowledged unhandled, the chain implements `EventHandling`, all leave the stream, the failing ones as dead letters | holds |
| `shipment_store` | two clients with two calls each, two shipments, a seeded or an empty database, one fault (1.8 million states) | what cache and tables may disagree about; partial aggregates come from failed calls; transactions are seen whole | holds |
| `lifecycle` | two deployments with two subjects and an event of the second (a cancelled shipment, which the row it reads never refuses and a blank one lets change nothing): one inventory process and one shipment process, two stream configurations or none, two faults; or two inventory processes and a stream that captures what they need, no fault; one signal in each (0.9 million states) | `Stop` closes what it found; a service that stays up misses only subjects whose consumer was deleted; no event counts as handled without a change or a reason; repetitions have a cause; the stream is ensured; every event settles | holds |
| `arrays` | arrays of every type up to two or three elements; every text of a bracket and up to four special characters, and longer ones | what is stored comes back; every literal the backend emits is read, and any other text that is accepted is taken as it stands; no division by zero; a failed scan assigns nothing; times read back | holds |
| `cancel_swallowed` | an order and its cancellation | the cancellation of a reserved order releases stock | violated |
| `blank_hit` | two orders on one row | an order is refused only when the stock is short | violated |
| `history_lost` | two clients, no fault; the first undisturbed update | an undisturbed Update leaves the history it was given | violated |

Why the bounds are enough. Every race of the consumers is between two workers on one row or
one id; a third replica would repeat the roles. Two messages of the competing kinds, and a
third for one that passes by, exercise each of them before, between and after the other's
calls. In the store two clients, one key already stored and one new per table, and two
shipments with clashing tracking numbers give every constraint a way to be violated and
every lock a way to be waited for; two calls each let a write fall between any two
statements of a read. `lifecycle` needs two subjects so that a shutdown falls between two
subscriptions, and a signal next to two faults so that a process starts, stops and starts
again. The second deployment of `lifecycle` is there for what one process does
to another: the consumer it deletes, the event the other is handed while the first still
holds it. It has no fault, but after the signal every call of a callback may fail, so that a
shutdown between fill and eviction and the blank read that follows are met in both. Both
deployments in one, and a row that may not have what its event needs, take longer than a run
should: a handler that finds nothing to change in the row it read (a shipped order nothing is
reserved for, say) is covered by the proofs only.

That an array literal is short loses nothing: the scanner looks at one character at a time, and four after
the bracket reach every pair of labels.

Every property has a mutant of the code that violates it (`PROJECT.json`, "mutants"; the
definitions called "Variant of ..."): a dropped guard, a missing reset, a swapped order.

### Where the code departs from its documents

* `cancel_swallowed`: the subscriptions of one order share the Redis key
  `evt:<order id>`, so after `OrderPlaced` was marked, `OrderCancelled` and `OrderShipped`
  of the order count as seen and are acknowledged unhandled
  (`order_events.proto:19`: "Order cancelled → release inventory").
* `blank_hit`: `invcache.GetInventory` returns an empty record on a hit. A refused order
  leaves its entry, without expiry; the next order of the row is refused with
  INSUFFICIENT_STOCK whatever the stock. The retry of an event whose UPDATE failed is
  decided the same way: the first attempt filled the entry and nothing evicts it, so a
  returned quantity that overflows only together with the stock is acknowledged as
  handled on its second delivery, without any change. A quantity that exceeds the column
  by itself overflows from the blank row as well and ends as a dead letter (`poison`:
  quantity 5, `MaxInteger` 4).
* `history_lost`: `Store.Update` deletes the status history and then executes
  `INSERT ... (...) VALUES (...)` literally, which is no SQL; so every Update fails, with
  header, items and logs replaced and the history gone (`shipmentdb.go:227`: "Replace status
  history (or append only)").

### What else the models have of the code

These limit what the properties claim; nothing in the repository promises otherwise.

* Two subscriptions that write one row lose updates: whichever UPDATE comes second erases
  the first (`domain.ErrConcurrentUpdate` exists and is never returned). `ReservationsHeld`
  and the ledger are claimed for one writing subscription per row.
* A crash between the UPDATE and the eviction: the redelivery reads the stale entry,
  refuses the order and acknowledges. The reserved quantity changed and no
  `InventoryUpdated` is published.
* `AppliedOnce`, `OneAnswer` and `OncePerOrder` are claimed for lost answers and early
  timers on one replica: a crash between the change and its mark applies an event twice, and
  so do two replicas that both find a copy unseen.
* A signal or a crash after `writeCache` and before the UPDATE leaves the entry. The redelivered
  event is decided on a blank row (`handlers.go:99`, `handlers.go:142`: nothing reserved, so
  nothing to release or to ship), marked and acknowledged, and the stock does not change.
  `HandledOrKept` says that this, an entry that a callback without a change left, and another
  callback between fill and eviction are the only ways to get there.
* `Unsubscribe` deletes a durable consumer its subscription created, also under the other
  replicas: their subscriptions stay open and nothing is sent to them. `NeverHalfSubscribed`
  says that nothing else makes a service miss a subject.
* `Business.Create` passes no tracking logs and no history, and sqlx refuses the INSERT of
  an empty list: every Create fails with header and items stored. The items keep the
  shipment id their caller gave them. The tracking number is UNIQUE, the empty one included.
* Since every Update fails, the entry of the cache is never evicted after one. A fill inside a
  transaction precedes the commit. A read that overlaps a write fills the cache with what
  it read. `rows.Err()` is not asked, so a truncated list is returned and cached as whole.
  `CacheIsFresh` and `FilledIsStored` except these entries (`suspect`, `clean`).
* The seeded shipment cannot be queried: its `delivered_at` is NULL.
* `parseArray` accepts texts no backend emits, as `{a{}` and `{a"b}`, and takes the characters
  of such an element as they stand ("Only representations emitted by the backend are
  supported", `dbarray.go`).
* A signal cancels the context of the running handlers before the subscriptions are
  drained. `Unsubscribe` follows `Drain` at once, which drops the queued copies. An event
  whose fifth delivery falls into a shutdown is terminated without a dead letter.
  `HandledOrKept` is about acknowledged events.
* After `MaxReconnects` the process stays up without a connection.
* `Start` appends to `s.subs` while `Stop` reads and clears it: a data race. The model has the
  interleavings of the two, with each access atomic; a subscription `Start` makes after
  `Stop` looked stays open until the process ends.
* The inventory service creates no stream: `EnsureStream` of its messaging package has no
  caller, and the one of the shipment service captures a single subject, its build tag.
  `newRedis` of the shipment service uses TLS when the scheme is `redis`.
* Timestamps: 29 February before year 1 is written as 1 March, and an offset of less than a
  minute to the west loses its sign. `TimestampsReadBack` leaves the two out.

## 4. Proofs

All theorems hold for every value of the constants (sets of replicas, keys, ids, messages
and clients, initial tables, `MaxDeliver > 0`, any number of faults of the kinds a theorem
allows) that satisfies the named `ASSUME`s of the modules: constants have their types, blank
keys, ids and messages are none of the real ones, initial rows satisfy the constraints.
A theorem that needs more states it as a hypothesis, listed here. The run that checks the
property satisfies them, except that `duplicates` also has early AckWaits, which
`StockChangesOnce` excludes: there `OrdersAreEnteredOnce` applies, which states `AppliedOnce` too.

| Theorem | Hypotheses beyond `Spec` |
|---|---|
| `TypeCorrect`, `InvHolds`, `UpdatesAreAccepted`, `TableIsConsistent`, `ReservationsAreStored` | none |
| `OnlyExhaustedAreBuried` | no handler panics: a panic buries the event at once |
| `HandledOrdersAreAnswered` | every event with the id of an order is an OrderPlaced (otherwise `cancel_swallowed`, with the roles exchanged) |
| `HandlingImplemented` | no dead letter is lost |
| `LedgerImplemented` | one replica, one kind of writing event for each row, orders carry a quantity |
| `ReservationsAreCovered` | the same, and the set of events is finite |
| `StockChangesOnce` | the only faults are lost answers |
| `OrdersAreEnteredOnce`, `OrdersAreAnsweredOneWay` | the only faults are lost answers and early AckWaits; one replica; events with one id are of one kind; orders have ids |
| `ConsumerTypes` | none |
| `ClaimsRunOnce` | `WithTryClaim` is in the chain, no claim expires |
| `NothingAckedUnhandled` | `WithTryClaim` is not in the chain |
| `EventHandlingImplemented` | `WithIdempotency` is in the chain, no dead letter is lost |
| `ParserInvHolds`, `NeverDividesByZero` | none |
| `CountsAgree` | no delimiter begins with an opening bracket |
| `ColumnsHoldText`, `ColumnsAreScanned`, `ColumnTypes`, `FailedScansAssignNothing`, `TimesReadBack` | none |
| `ColumnsAreParsed` | no delimiter begins with an opening bracket |
| `LiteralsAreRead` | none (it speaks of delimiters of one character) |
| `ArraysComeBack` | none (it speaks of the seven kinds that have a type of their own) |
| `GenericArraysComeBack` | every delimiter is one character, not a bracket, quote or backslash, and occurs in no text that is written without quotes; these texts (numerals, `true`, `false`, times) are none of the special characters and not `NULL` |
| theorems of `ShipmentStoreProofs` and `InventoryProcessProofs` | none (`StoreAssumption`: complete shipments own their rows; `ProcessAssumption`: finitely many processes) |

`InventoryServiceProofs`: `Inv` (module `InventoryInvariant`) is inductive. The CHECK
clauses alone are not: whether the UPDATE keeps them depends on the row the worker read
some steps earlier, so `Inv` says of every stage what its worker knows: a row read from
the table satisfied the CHECK clauses when it was read, and each handler's arithmetic
keeps them (`ReserveKeepsCheck` ... `RestoreKeepsCheck`), however stale the row is.
For announcements it says that without a key the row is blank, and that nothing is
reserved from a blank row. The proof has one lemma per action; `OneWorkerSteps`
carries the knowledge of the workers that do not move, which needs only that marks and
commits are not taken back. Corollaries: `TypeCorrect`, `UpdatesAreAccepted`,
`TableIsConsistent`, `ReservationsAreStored`. A second invariant, `CopiesOK`, says that a
subscription holds events of its own kind and that the attempt on a copy is one the server
has counted; the rest of this module and the next two build on it.

Its second part is about outcomes: `StageMove` sums up what a step of a callback may do to its
stage, the events, the marks and the dead letters, and is shown for every action once.
`OnlyExhaustedAreBuried`: a callback that is about to bury holds a malformed message or is
at the last attempt (`AboutToBury`), and the server has counted that attempt (`CopiesOK`).
`HandledOrdersAreAnswered`: from the answer on, and once its id is marked, an order is
answered, and answers are never taken back (`AnsweredInv`); it does not matter that marks expire.

`InventoryRefinementProofs`: `HandlingImplemented`, the service implements
`EventHandling` if no dead letter is lost. It rests on two facts about the step before the
last: what is acknowledged is marked or has no id (part of `Inv`; the guard of
`ForgetMark` is what keeps it), and what is terminated has been copied (`TermIsCopied`).
`LedgerImplemented`, the service implements `StockLedger` where each row has one writing
worker: the row a worker holds up to its decision is the row in the table, and what it is
about to write is the effect of its event on that row (`RowsAreCurrent`), because nobody
else writes in between (`OneWriter`). Each committed UPDATE is then one atomic effect of
the ledger, and every announcement follows its effect. An order of quantity 0 is excluded,
since on a blank row it would be confirmed with an UPDATE that matches no row.
`ReservationsAreCovered` adds up: for each row the sum of the orders that were entered is at
most its reserved quantity plus what cancellations and shipments took (`Balanced`, one case for each
kind of effect in `CommitBalances`), and what was announced was entered. The lemmas on sums
(`SumAny`, `SumGrows`, `SameTerms`) are inductions over finite sets; since the library's
induction rules take an operator, they are done by choosing a minimal subset for which the claim fails
(`MinimalSubset`). The same way it is shown that the recursive function inside `MapThenSumSet` exists
(`SumsExist`).

`DeliveryProofs`: `StockChangesOnce`, if the only faults are lost answers
(`Faults \subseteq {"ack"}`, any number of them), no event with an id changes the stock
twice, on any number of replicas. `AppliedOnce` says nothing of where the copies of a
message are, so it is strengthened to `DeliveryInv`: at most one copy of a message is held,
in one queue or by one worker (`OneCopy`), and only while the message is outstanding
(`HeldIsOutstanding`); hence nobody else handles it between a worker's check and its mark,
so a worker before the UPDATE is the first to get there (`UncommittedIsFirst`), and what
was committed is marked or its worker is on the way to the mark (`CommittedGetsMarked`).
Every step of a worker is one of three kinds (it moves on, it answers the server, it takes
a copy), and `DeliveryInv` is shown for each kind once. Events without id are excluded
because the wrapper skips them: a redelivered one is applied again.

The second part allows copies to come back while one is being handled and an event to be
published several times, but has one replica. Then `OneCopy` is false, and what orders the copies
is that the events with an id are all of one kind, so one goroutine handles them one after the other
(`OneHandler`). An id is touched when an event with it changed the stock or was answered:
a worker before its effect finds its id untouched (`FirstOfItsId`), and a touched id is
marked or its worker on the way to the mark (`TouchedGetsMarked`). `OrdersAreEnteredOnce`
and `OrdersAreAnsweredOneWay` follow.

`ShipmentConsumerProofs`: the chain is a constant, so the theorems hold for every sequence
of middlewares. `ClaimsRunOnce`: a replica that has claimed the id of its event and not
yet called the handler (`Claimant`) is the only one, the id is marked and its handler was
never called (`ClaimInv`); so the call it makes is the first. It does not matter whether
an answer of Redis is lost: then the claim may be there without a claimant, never a claimant
without the claim. `NothingAckedUnhandled`: without `WithTryClaim`, a marked id has a
handled event, and a callback that returns no error, or acknowledges, was preceded by one
(`HandledInv`); expiry only removes marks. `EventHandlingImplemented`: a callback that has
returned without error from a `WithIdempotency` layer, wherever in the chain that is, left
its id marked (`AnswerOK`, whose case "above the layer" is the induction along the chain, done one
step of the callback at a time), and what is terminated was copied or cannot be unmarshalled.

`ArrayParserProofs`: first the scanner by itself, started on any text with any delimiter
(`ParserSpec`). `ParserInv` bounds the position by the text and says
that every dimension below the depth was counted at least once, which is why the final
check divides by no zero. `CountsAgree` needs the number of elements to follow the count of
the innermost dimension (`ElementsCounted`). With a delimiter that begins with `{` it is
false: `{a{{a}` counts three and keeps two elements. The package's delimiters are `,` and `;`.
Then the column. `ColumnsHoldText`: whatever is stored, by any of the eight kinds of writer,
or printed by the server, is a sequence of characters (`ColumnInv`). The writers concatenate
and nest texts recursively; `RecursionExists` shows, from the smallest argument where it
would fail, that a recursion which descends in a rank defines a function, and is used for
`FlattenSeq` and for the two functions that append nested lists of any depth. So
`ColumnsAreScanned`: storing, printing and scanning make only steps of `ParserSpec`, and the
theorems of the scanner hold of every column (`ColumnsAreParsed`).
`ColumnTypes` needs that a bracket or a count consumes a character (`Consumed`), so neither
depth nor dimension exceeds the length of the text. `FailedScansAssignNothing`: until a scan
succeeds the destination is the earlier one (`DestinationKept`), and each of the eight scans returns either the destination it was given
or a new list (`ScannedOr`). `TimesReadBack`: the limits are in order once they are set
(`LimitsInOrder`), so no time has reached both; the rest is arithmetic, for every year and offset.

`ArrayRoundTripProofs`: `LiteralOf` says where each element of a list starts in a text, and
`QuotedAt` where each character of a quoted element does. `LiteralsAreRead`: at every label the
scanner stands at the place that belongs to what it has read (`Progress`, with one lemma per action
of the scanner), so it cannot fail and ends with the elements of the list, whatever characters
stand between the quotes. The invariant quantifies over all lists the text may be a literal of;
nothing has to be said about where the text came from. That a writer produces a literal: pieces
that are joined stand one after the other (`FlattenPlaces`, which unfolds the fold of `FlattenSeq`
from the smallest prefix where it would fail), a text that is quoted spells itself (`QuotingSpells`), and pieces that
spell elements, between braces, are the literal of those (`BracesAreLiteral`). Then one lemma for each kind
shows that what is written is converted back: a boolean, a numeral (`NumberReadsBack`), bytes in
hexadecimal (`HexParsed`, where two digits make a byte) and in the escape format (`EscapedParsed`: the
recursive reading is determined by its equation, and followed from the end of the text backwards).
`ArraysComeBack`: until the array is back in the destination, the column holds a text that is converted
to it, before and after the server has printed it anew, and the scanner reads that text (`ComesBack`).
`GenericArraysComeBack` is the same argument for lists that reflection writes
(`GenericBack`). There the hypothesis on delimiters is needed: with a delimiter that occurs in
a numeral, a number would be cut in two.

`ShipmentStoreProofs`: `StoreInv`. A call under way has an end of its program left
(`CallInv`); a part of a stored shipment that is missing is owed by the rest of such a call,
or one that owed it has failed (`Accounted` for the tables, `AccountedIn` for the private
copy of a transaction); without a header there are no parts (`Cascade`); what a query or a
Create is about to put in the cache is in the tables unless the shipment is suspect
(`FillInv`). `EntriesAreFresh`, `FillsAreStored`, `PartialShipmentsAreReported`,
`StoreTypesHold` follow; `TransactionsCommitWhole` is an action property. The seed is assumed to have
rows of each part, as `seed.sql` has.

`InventoryProcessProofs`: `ProcessInv`. The subscriptions made are those before the place
`Start` has reached, and those `Stop` saw are among them (`LifeInv`), so `StopClosesIt` holds
for any number of subjects, whatever the two goroutines interleave. For `NoHalfSubscriptions`
an open subscription also has to be heard: its process is a member of the consumer, or the
consumer was deleted under it (`HeardInv`). `NothingSettledUnhandled` follows the reason
along the way: a callback past its decision has changed the stock or is excused, a mark and an
`ack` belong to an event with the key for which that is so (`EffectsInv`); that every hit has a
reason is `CacheInv`, every entry was left or its callback may yet evict it. `RepeatsArePaidFor` counts: the
changes an event made, and the callbacks that may still make one, never exceed one more than its
lapses, or two more counting those that will find the mark (`BudgetInv`); whoever loses a
callback past its change pays a lapse. `StreamIsEnsured` is about `StreamSetup` as the process
module extends it.

Only model-checked:

* liveness (`EverySettles`, `PoisonIsBuried`, `FailuresAreBuried`, `EventsSettle`): fairness
  and ENABLED are out of the prover's reach;
* `NestedShape` of `ArrayColumn`: the layout of a literal is stated for one dimension; for two, each
  place would have a row and a column;
* `ParsesLiterals`: `LiteralsAreRead` proves half of it, that literals are accepted. That no character is
  lost or invented in any other text is checked for every short one.

## 5. Plan

Every safety property the runs check is proved, except those of the list above. Left:

1. Weaker hypotheses: `LedgerImplemented` for several replicas whose rows are disjoint,
   `OrdersAreEnteredOnce` with failures of the cache.
2. `NestedShape` and the other half of `ParsesLiterals`.

## 6. Not modelled

* The logger, tracing and metrics: formatting, wiring and counters; no control flow the
  properties depend on.
* The generated protobuf code (3950 of the 9360 lines of Go); the fields the handlers read are
  the records of the scenarios.
* Operations without a caller in the repository: `CreateInventory` and `DeleteInventory` with
  the transactions of `invdb`, `Consumes`, `TryClaim` and `EnsureStream` of the inventory
  service, `Publish` of the shipment service.
* `sqldb.Open`, the retries of `StatusCheck` (a ping that succeeds or fails in the end),
  query text for the log; `Migrate`, which hands the scripts to darwin (their constraints are in
  the models).
* Build and compose files.
