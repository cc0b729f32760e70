# A TLA+ model of the trading matching engine

This directory holds TLA+ modules that model the matching engine under `src/`, the TLC
configurations that check them on small instances, and proofs that TLAPS checks for
every instance.

## The system

```
producers --submit()--> inbox --drain, sort, route--> one request queue per symbol
                                                            |
   callback <--drain-- response queues <-- matching thread and order book (per symbol)
                                                            |
   subscribers <-- MarketDataFeed <----------- update queue per symbol
                        |
                        +--> snapshot_feed --> BookSnapshotService (mirror of the book)
```

| part | source | module | status |
|---|---|---|---|
| order book, matching | `exchange/matcher/order_book.cpp`, `order_book.h`, `book_order.h` | `SymbolOrderBook`, `BookProperties`, `PriceTimeMatching`; `LevelList` for the linked lists | modelled, proved about |
| validation, dispatch, routing | `exchange/matcher/matching_core.h` | `SymbolOrderBook` (`processRequest`), `OrderGateway` (`routeRequests`), `ExchangeMain` (threads) | modelled |
| response stream | `exchange/order_server/order_response.h` | `ClientView` | modelled, proved about |
| gateway, sequencer | `exchange/order_server/order_server.h`, `request_sequencer.h` | `OrderGateway`, `ExchangeMain` (threads, responses) | modelled, proved about |
| lock-free queue | `Common/lock_free_queue.h` | `LFQueue` | modelled, proved about |
| logger | `Common/logging.h` | `Logger` | modelled, proved about |
| block allocator | `Common/memory_pool.h` | `MemPool` | modelled, proved about |
| market data feed | `exchange/market_data/market_data_feed.h`, `market_update.h` | `MarketData`, `ExchangeMain` (several symbols) | all but `subscribe` while it runs; proved about |
| snapshot service | `exchange/market_data/book_snapshot_service.h` | `SnapshotMirror`, `MarketData`, `LateJoiner` | modelled, proved about |
| process lifecycle | `exchange/exchange_main.cpp`, `Common/threads.h` | `ExchangeMain` | modelled |
| stale copy of the book | `exchange/market_data/order_book.cpp` | none | in no build target |
| tests, benchmark | `tests/`, `benchmarks/` | none | drivers, read as reference |

## The modules and the code

**SymbolOrderBook** is one symbol's book and the thread that drives it. `levels` stands
for `bids_` and `asks_`: for each side and price the FIFO of order ids, an absent map
entry being the empty sequence. `order_index` is `order_index_` with the fields of the
nodes. `incoming` is the order `matchIncoming` works on together with its local
variables: `level_price` is `it`, `pos` is `node`. A fill removes the node at `pos`, so
its successor, the code's `next_node`, moves to `pos`. One visit of a resting order is
one step, because it publishes events that other threads may read before the next visit.
The two branches of `matchIncoming` differ only in side and comparison and are one set of
actions. `responses` and `updates` are what the last step wrote to the output queues;
nothing in the book reads them, so the runs' `VIEW` leaves them out. As in the code, a
side that is not `BUY` is a sell, `INVALID` included. `priority_ts_` is written and never
read by the code and is left out: the position in the level is the time priority.

**PriceTimeMatching** says what such a book promises without levels, lists or cursors:
resting orders, a relation "trades before", at most one taker, and a trade only with the
one eligible order that precedes all others. **BookProperties** states the book's
properties and the refinement mapping.

**LevelList** is the same data one level further down: nodes in blocks of `MemPool`, linked
by `prev_` and `next_`, with `head_`, `tail_` and `order_count_` per level. It extends
`MemPool`, so a freed block keeps its contents and is soon used again, and restates the
sweep of `matchIncoming` as a walk along `next_`. `ImplementsLevels` maps the lists to the
sequences of `SymbolOrderBook`. One side stands for both, whose code is the same with
`bids_` and `asks_` exchanged. `level_pool_` is another `MemPool` and is left out.

**ClientView** composes the book with a reader of the responses who tracks which orders
are open, the quantity ordered, the sum of the executed quantities and the quantity left.

**SnapshotMirror** is the state of `BookSnapshotService` and what it does with an update.
**MarketData** composes it with the book and the feed thread; the two queues are FIFO
sequences, which `LFQueue` justifies for a queue that is not overrun. **LateJoiner** puts a
consumer beside it that follows the recipe in the service's comments: record the updates,
load a snapshot, replay. There the book is replaced by a source that sends any update at
any time, which includes what a book sends; `Side` and `Price` are its constants.
`snapshotFor` is a walk of an iterator over `mirror_`, one entry per step, while the
service's thread changes the map. Entries the
service inserts may or may not be met. When it frees the entry under the iterator, or when
an insertion may rehash the table, the outcome is undefined and nothing is claimed. One
thing is an assumption about the consumer, which is not part of the repository: its
callback is registered before the feed starts. It asks for the snapshot whenever it likes:
`snapshotFor` does not wait for the service to catch up with the feed. `missed` counts the
updates sent before the consumer began to record that the mirror still lacks, and the
history `stale` keeps their orders when it asks. About those orders the consumer may be
wrong for ever, about all others it is right (`OnlyStaleDiffer`).

**LFQueue** has one step per access to shared memory. `updateWriteIndex` is three: load,
store, increment. The histories `published`, `consumed` and `overrun` only serve the
properties. The C++ atomics are sequentially consistent, as the code uses the default order.
**Logger** adds the loop of the logger thread and the destructor, which waits for an empty
queue, clears `running_` and joins. It assumes that nobody logs to a logger being destroyed;
for the engine's loggers that is `EndedBeforeReport`, which in turn assumes a fast machine.

**OrderGateway** splits `submit` at the lock: the clock is read before it. `drainInbox` is
the swap under the lock, `enqueue` one pass of its loop over the swapped batch. A flush,
by `run` or by an `enqueue` that finds the buffer full, sorts in one step, `sortPending`,
and then routes one request per step, `routeNext`, since the matching threads may read
each before the next is written; `flushDone` returns to the caller. `SortedOrders` is the
set of all results `std::sort` may give, since it is not stable. The clock never steps
back; the code's `system_clock` might. `routed` and `precedes` are histories for the
properties.

**MemPool** is the allocator; a failed `ASSERT` ends the process and sets `fatal`.
`updateNextFreeIndex` is its loop: `Search` is where the index is after a number of passes,
wrapped at the end of the pool, and the loop ends at a free block or when it has come round.
`deallocate` takes any block and fails its two assertions where the code does; its callers
only free blocks they hold.

**ExchangeMain** is one run of the program: `main`, a thread per symbol, the gateway, the
feed and the snapshot thread. A line of the input is an order, is skipped, or makes
`std::stoull` throw, which ends the process. What requests, responses and updates contain
is the business of the other modules. Here requests are counted, and of the other queues it
matters only whether something is in them: a drain takes what it finds in one step and
looks again. A request publishes one of the sequences of events in `Outcome`, at the
granularity of `SymbolOrderBook`: the answer, the events of each fill, and what becomes of
the remainder; there are at most as many fills as requests were handled before. `main` only
compares `response_lines.size()` with `last_seen`, so `unseen` is their difference, counted
in drained queues. `main` reads the size while the gateway pushes to the vector: a data
race, modelled as any of several sizes.

`main` sleeps instead of synchronising, so this module has time: `Tick` is 50 ms. The speed
of the machine is one assumption: a thread of the engine that finds something to do is, at
some moment within `MaxDelay` ticks, done with all of it, however much it is. The properties
are about what the sleeps in the code are worth under it. The assumption is not harmless:
every matching thread, the feed and the snapshot service spin, so with more symbols than
cores each of them waits for its turn. `main` itself may be delayed without bound.

Operators marked *Mutant* change a definition the way a plausible bug would. No action
uses them; each shows that a property can fail when its code is wrong.

## What is checked

| configuration | properties | what it shows |
|---|---|---|
| `MCBook` | `TypeOK`, `BookConsistent`, `IncomingOutsideBook`, `CrossedOnlyBySelf`, `SweptAreOwn`, `SweepAdvances`, `ImplementsPriceTime` | index and levels agree after every step; no quantity of zero, of the sentinel or beyond what was ordered is in the book; only a client's own orders ever cross; the sweep never turns back although it erases levels; price-time priority with self-trade prevention, and which modifications keep an order's place |
| `MCLevelList` | `TypeOK`, `HandsOutFreeBlocks`, `FatalOnlyWhenFull`, `LinksSound`, `SweepVisitsAll`, `ImplementsLevels`, `SweepEnds` | the linked lists implement the sequences of the book, no block is leaked or linked twice, and a sweep that frees the nodes it stands on visits the whole level and ends |
| `MCClientView` | `ViewMatchesBook`, `ViewMatchesIncoming` | responses alone tell a client what rests |
| `MCMarketData` | `MirrorShowsResting`, `OnlyRepricedLinger` | the mirror shows every resting order; only repriced orders can linger |
| `MCLateJoiner` | `OnlyStaleDiffer` | a snapshot torn by concurrent changes and a replay that repeats updates still give the mirror's book, but for the orders of updates that were in neither |
| `MCLogger` | `TypeOK`, `FifoUnlessOverrun`, `NoSlotRaceUnlessOverrun`, `ReadAssertHolds`, `EverythingConsumed`, `LogComplete`, `LoggerCloses` | a FIFO without races for one producer, as long as it is not overrun; the logger's destructor ends and leaves no line behind |
| `MCGateway` | `TypeOK`, `ExactlyOnce`, `RealTimeOrder`, `EventuallyRouted` | no request is lost, repeated, left behind or overtaken by one submitted after it returned, if the clock moved |
| `MCExchangeMain` | `TypeOK`, `ClosureAlive`, `ReportComplete`, `EndedBeforeReport`, `Terminates` | if no thread needs more than 50 ms for what it finds to do, the sleeps suffice: no thread uses a dead closure, nothing is left when the report is written, and no thread runs any more |

Four runs check what a comment or document says and find that the code does otherwise:

| run | property | disagreement |
|---|---|---|
| `MCMirror` | `MirrorIsBook` | a repriced order that is filled completely stays in the mirror: `modifyOrder` sends no update for its removal |
| `MCGatewayOrder` | `RoutedInReceiveTimeOrder` | "strict receive-time order" fails when a producer is delayed between the clock and the lock |
| `MCLoggerQueue` | `NoElementLost` | all matching threads share one logger and its single-producer queue; lines are lost |
| `MCExecQty` | `ExecutedAtMostOrdered` | `exec_qty_`, "quantity filled in this event" (`order_response.h:44`), is the total of the earlier fills in the CANCELED for the remainder of a market or IOC order: a client that adds it up counts more than it ordered |

Others are visible in the model and have no run of their own:

- No queue tests whether it is full, so a slow consumer loses elements, although a callback
  is to "receive every response" (`order_server.h:41`). The properties of `MCLogger` claim
  nothing after a write has started in a full queue (`overrun`).
- A newly connecting client "can catch up by loading the latest snapshot and then replaying
  only the deltas that arrived after it" (`book_snapshot_service.h:32`), but an update sent
  before it connected and not yet applied by the service is in neither. These are the orders
  `OnlyStaleDiffer` leaves out.
- `snapshotFor` promises a "point-in-time copy" (`book_snapshot_service.h:54`), but what it
  copies may mix several moments; only the replay repairs it.
- The program "writes out the responses and book updates" (`src/README.md:209`), but 15 polls
  without a new response, 750 ms, end it also when the work is not done. `ReportComplete`
  holds for one order up to `MaxDelay` = 4, and TLC finds it violated from 5 on: three
  threads in a row that take 250 ms each.
- A modification to exactly the remaining quantity of a partly filled order is answered
  `MODIFIED` but leaves `original_qty_`, the "quantity as (re)submitted" (`book_order.h:18`),
  as it was (`keepOrder`).
- The pool ends the process when its last block is allocated, not when its capacity is
  exceeded (`order_book.h:17`), as `updateNextFreeIndex` shows.

### Bounds

- Book: two clients, three orders, two prices, quantities 1 and 2. Three orders give a
  sweep over two levels, a level with two orders, an own order between two others, and
  partial fills on either side. The requests include side `INVALID` and malformed ones, with
  the quantities 0 and `Invalid_Qty` among them.
- Client view: two orders with quantities up to 3, so that an order is partly filled
  twice, or partly filled and then modified to what is left.
- Linked lists: four orders at two prices in four blocks. A level of three nodes has a
  first, a middle and a last one to remove, and the last block exhausts the pool.
- Market data: two orders, and at most `MaxUnderWay` = 2 updates in the two queues, the
  most one step writes. The properties fold the updates under way into the mirror, so
  longer queues only delay what is seen.
- Late joiner: three orders, quantities 1 and 2, two updates on the way to the mirror and
  two recorded, so that an order is added and changed, or cancelled and added, during one
  walk. One side and one price: no step looks at them.
- Queue and logger: three slots and eight writes, so every index wraps twice. The
  violation uses five slots with two producers, and they are never full.
- Gateway: two producers, two submissions each, a buffer of two, so a batch may overflow
  it; the clock has two values, so both ties and order occur.
- Process: five input files of up to two orders over two symbols, with comments, malformed
  and throwing lines. Time in units of 50 ms: `StartSleep` 20, `PollInterval` 1,
  `PollLimit` 15, `StopSleep` 2 as in the code; `MaxDelay` 1. `MaxDelay` is for a whole
  backlog, so more orders do not make the threads later. `EndedBeforeReport` needs a
  `MaxDelay` below `StopSleep`, for the threads are given no more than that to end.

Symmetry is used for clients and orders, in safety runs only; no property or action names
one of them.

### Fairness

The matching thread spins on its core for ever (`MatchingCore::run`), so a sweep it has
begun goes on (`LevelList`). The gateway's, the logger's and the consumers' loops sleep and
start over, so their enabled steps are weakly fair. A producer that has called `submit`
gets the inbox lock, which is only held for a push or a swap; one inside `pushLine` leaves
it. The logger's destructor and `main` are threads that run. Nothing is assumed about
whether or when anyone submits a request, logs a line or destroys the logger.

## What is proved

Eight modules hold proofs. They are for every value of the constants that satisfies the
named assumptions, and each assumption is evaluated by TLC on the instances above.

| module | theorems |
|---|---|
| `BookProofs` | `BookStaysConsistent`, `BookStaysTyped`, `IncomingStaysOutside` |
| `MatchingProofs` | `BookNeverCrossedByOthers`, `NobodyIsPassedOver`, `SweepNeverTurnsBack`, `BookImplementsPriceTime` |
| `StreamProofs` | `StreamTellsBook`, `StreamTellsIncoming`, `MirrorFollowsBook`, `OnlyRepricingLeavesEntries` |
| `MirrorProofs` | lemmas on `Replayed`, for `StreamProofs` and `LateJoinerProofs` |
| `LateJoinerProofs` | `LateJoinerLacksOnlyStale` |
| `QueueProofs` | `QueueStaysTyped`, `OneProducerIsFifo`, `LoggerStaysTyped`, `LoggerReadAssertHolds`, `LinesAreFifo`, `LinesAreNotTorn`, `ClosedLogIsComplete` |
| `GatewayProofs` | `GatewayStaysTyped`, `GatewayDeliversOnce`, `GatewayKeepsRealTimeOrder` |
| `MemPoolProofs` | `PoolIsSound` |

### The book

For any clients, orders, prices and requests under `PriceAssumption` and
`RequestAssumption` (prices are positive and bounded, requests are well typed) and
`NoneAssumption` and `NoTakerAssumption` (the value that stands for "no order" is none).

- *Consistency.* `WellTyped /\ BookConsistent /\ IncomingOutsideBook`, named `ConsistencyInv`,
  is inductive. Consistency alone is not: resting the remainder of an order that is
  already indexed would put it in two places, so `IncomingOutsideBook` is needed; and
  unlinking uses that each id occurs once in its level. The lemmas on `Unlinked` and
  `Append` carry the list reasoning, one lemma per kind of step carries the rest.
- *Quantities.* `TypeOK` adds to the types that every quantity in the book or in matching is
  neither zero nor the sentinel, and no more than the order was (re)submitted with. Zero is
  the case to prove: an order that is filled must leave the book in the same step, and the
  one in matching rests only with something left. `RequestAssumption` says that a request's
  quantity does not exceed the sentinel, the largest value of its type; validation rejects
  the sentinel itself.
- *Crossing.* A remainder rests only after a sweep, and `SweptAreOwn` says what the sweep
  has left behind: in the better levels, and up to the cursor in this one, only orders of
  the same client. Entering the best level ahead keeps it; when no level can be entered,
  every order that would cross is behind the cursor. `CrossedOnlyBySelf /\ SweptAreOwn` is
  inductive relative to `ConsistencyInv`. A non-empty set of prices has a best one.
- *Progress of the sweep.* Every step goes to a strictly worse level or nearer to the end of
  its own. With finitely many orders and prices this is why `matchIncoming` ends.
- *Refinement.* `Spec => ImplementsPriceTime`: every step of the book is a step of
  `PriceTimeMatching` or leaves its variables alone. The order the cursor is at, if it is
  another client's, precedes every other the taker may trade with: the orders before it are
  own orders (`SweptAreOwn`), the ones behind it in its level are later, and the other
  levels are worse. When the sweep is over nobody eligible is left. The lemmas in between
  say what unlinking and appending do to the relation "ahead of".

### The streams

- *Responses.* `ViewInv` relates, for each order, what the responses have said to what the
  engine owes, which is the quantity that rests or is being matched. It covers every state,
  also inside a sweep, of which the properties take the states between requests and the
  incoming order.
- *Mirror.* `FeedInv` says that the mirror after all updates under way is the book plus the
  orders in `repriced`. The feed's steps move an update from one queue to the next, so they
  leave that fold as it is (`Replayed` of a concatenation), and a step of the book appends
  exactly the updates that lead to its new state.
- *Late joiner.* For any stream, queue and backlog; `JoinerAssumption` says that the end of
  the map is no order. A replay that contains an update does not tell whether the update was
  already applied (`ReplayAbsorbs`): two books that differ at most by one update stay that
  near, and become equal when the update is applied. So the copy of an entry may be taken
  before or after the service applies what is in the backlog. What a replay does to an order
  depends on that order alone (`ReplayedSameAt`), so the entries of a torn copy can be judged
  one by one: `JoinerInv` says that replay makes each one right that the iterator has copied
  or will not meet. It says so of the orders outside `stale`: the backlog is what was sent
  after the first `missed` updates of the queue (`Aligned`), so it is complete for every
  order those do not touch (`AlignedRecords`).

Statements about a whole sequence of updates are proved from the least-number principle: if
one failed, there would be a shortest prefix at which it fails, and one step refutes that.

### The queue and the logger

For any size and any number of writes (`QueueAssumption`). The types and
`updateReadIndex`'s `ASSERT` hold for any number of producers. FIFO order, the absence of
slot races and the completeness of the log assume `Producer = {p}`, the queue's documented
use; with the two producers of `MCLoggerQueue` TLC finds each of them violated. `RingSound` is what makes them
inductive: the elements not yet consumed lie from `next_read_index_` on in the order of
publication, next to them is the slot the producer fills, and `num_elements_` counts them
but for a decrement under way. It is claimed while no write has started in a full queue;
after one elements are lost. `LogInv` adds that nobody pushes once the
destructor waits, so a queue it saw empty stays empty.

### The gateway

For any producers, symbols, buffer size and bounds (`GatewayAssumption`). `InFlight`, the
routed requests, the buffer, the batch and the inbox one after the other, is one line:
draining, enqueueing and routing leave it as it is, a push appends to it and a sort permutes
a stretch of it. `LineSound` says that it holds each request that was stamped and pushed,
once, and that requests whose submissions do not overlap stand in their order if their
receive times differ. A sort cannot undo that, because it respects the receive times.
`QueuesSound` says that each queue holds the routed requests of its symbol in the order of
routing. `ExactlyOnce` and `RealTimeOrder` follow from the two.

### The allocator

The flags agree with the blocks handed out, and the next block to hand out is free, for any
pool size. The search comes to every block before it comes round (`SearchGoesRound`), so it
gives up only when no block is free (`SearchIsComplete`).

### Only model-checked

- Liveness (`EventuallyRouted`, `EverythingConsumed`, `LoggerCloses`, `SweepEnds`,
  `Terminates`), which the prover does not handle.
- The linked lists (`LinksSound`, `SweepVisitsAll`, `ImplementsLevels`): their walk along
  `next_` is a recursive operator, which the prover cannot take.
- `ExchangeMain`: its properties rest on how many ticks the sleeps and delays take, for the
  constants of the code.
- The four disagreements, which are counterexamples.

## What is not modelled

- `subscribe` while the feed runs: `main` subscribes before it starts the feed, and the
  vector of subscribers is not protected.
- The creation of the logger threads. They go through the same `createAndStartThread` as
  the threads of `ExchangeMain`. The `std::thread` objects are never joined or deleted by
  the engine; only the logger joins its own.
- Copying one `SnapshotEntry` or one `response_lines` element is one step; a reader that
  sees half of it is not modelled.
- The books' contents in `ExchangeMain`, and the sequencer's limit there.
- Quantities and prices have no width. The code never adds quantities; it subtracts a
  minimum from both sides, so nothing overflows.
- Pool exhaustion inside `SymbolOrderBook`, which ends the process; `LevelList` has it.
- Formatting, log lines, the text of the report, and `publishSnapshot`, which only logs.

## Next

1. A composition of gateway, queues and two books: end-to-end exactly-once and per-symbol
   order with the contents of the requests.
2. Proofs: `ClosureAlive` of `ExchangeMain`; `LinksSound` of `LevelList`, after its walk is
   written as a recursive function.
