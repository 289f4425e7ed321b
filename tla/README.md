# TLA+ models of the distributed low-latency trading platform

The modules in this directory model the platform's concurrent and
failure-prone parts, TLC checks them on small instances, and TLAPS proves their
safety properties, all but the two of the replay tools, for every value of the
constants. File and line references are to the repository; `PROJECT.json` maps
every definition to the lines it models.

    tlc -config TradingPipeline.cfg MCTradingPipeline     # one of the runs below
    tlapm DistributedNodesProofs.tla                      # one module's proofs

## 1. The system

Market data comes in from venues, a strategy turns the top of the book into
signals, the order manager (OMS) checks risk and makes orders of them, a
gateway sends them to an exchange and returns acknowledgements or rejections.
The repository puts these parts together in three ways:

* **in one process** (`apps/threaded_runtime.cpp`,
  `apps/live_market_data_runtime.cpp`): four threads and the four single
  producer, single consumer queues of `LocalBus`;
* **in four processes** (`apps/*_node.cpp`, `docker-compose.yml`): a chain of
  TCP connections, one per hop;
* **a live router** (`apps/live_multi_venue_router.cpp`): one thread per venue
  and symbol, one mutex around router, kill switch and writers.

| Component | State | Operations | Talks to | What is hard | What makes it correct |
|---|---|---|---|---|---|
| `SpscQueue` | ring, `head_`, `tail_`, `dropped_` | `push`, `pop` | two threads | acquire/release only, stale indices, full and empty | no slot raced on; exactly once, in order; refusal only without known room |
| `TopOfBook`, `StrategyEngine` | best bid and ask, last sequence | `apply`, `on_market_data` | market data in, signals out | duplicates, reordering | an old update never changes the price that is traded at |
| `RiskEngine`, `OrderManager` | position, next id, live orders | `check`, `on_signal`, `on_gateway_ack`, `on_gateway_reject` | queue or TCP on both sides | drops, lost answers, outcomes out of order | every order at the exchange is live in the OMS; ids are never reused |
| `ExchangeGateway`, `KrakenFuturesDemoGateway` | availability, exchange ids | `send_order`, `send_limit_order` | exchange | the answer is lost, the order is not | an acknowledged order is held, a rejected one is not: true of the simulated one only |
| Journal | append-only file, stream state | `open`, `append`, `close`, `read_all` | called by the OMS | write errors, crash inside a record, restart on the same file | what was acknowledged is read back, in order, for ever |
| Threads of the runtimes | `g_running`, loops | one iteration each | `LocalBus` | shutdown with work in flight | all threads end; nothing waits for ever |
| Nodes over TCP | connections, backlog, main loop position | connect with retry, accept, serve, exit | one upstream, one downstream | start order, crash, broken link, restart | start-up completes; intent before send while the journal takes records; fail closed; a peer that closes is noticed |
| `MultiVenueRouter` and its program | books by venue and symbol, mutex, event files | `update`, `best_ask`, `best_bid`, `route_signal`, `process_update` | streams, kill switch, replay, journal | many writers, halting in the middle | recorded routes follow from recorded updates as far as the record has no hole; limit holds; an update in hand is dealt with |
| `KillSwitch` | flag, reason, stamp, counters: separate atomics | `trading_enabled`, `trigger`, `on_*`, `reset` | any thread, halt file | non-atomic trip, racing reasons | no trip is lost; first reason stays; a halt that was seen is honoured |
| Asynchronous logger | ring, `head`, `tail`, drop count, thread | `log`, `start_async_logger`, `stop_async_logger` | every thread | many producers, claim before write, drain at stop | calls do not block; stop returns; every call is a line or a counted drop, unless a slot is popped before it is written |
| TCP framing | a byte stream per direction | `send_envelope`, `recv_envelope` | two ends, in the demo two senders | partial sends, death inside a frame, frames of two threads mixed | whole messages, once, in order, or an end; nobody waits for ever |
| Market data adapters | none | `parse_price_to_ticks`, `parse_quantity_to_units`, `parse_sequence`, `normalize_*` | connectors | digits beyond or short of the scale, missing fields | the integer is the venue's number |
| Replay | a file per node | `append`, `next`, `replay_merge`, `replay_run` | every node writes, tools read | ties of time stamps, failed writes, repeated updates | the merged file is a true history; replaying it gives the live orders |
| Node health, metrics, multi-symbol book | see section 7 | | | | |

## 2. Modules

| Module | Models | State and actions against the code |
|---|---|---|
| `BoundedFifo` | the promise of `SpscQueue` | a sequence of accepted items, the prefix the consumer can see, and the room the producer does not know of yet |
| `SpscQueue` | `include/llt/spsc_queue.hpp` | one action per atomic operation or slot access of `push` and `pop`; `headView` and `tailView` are what the other thread's acquire load returns, and catch up in steps of their own |
| `TradingCore` | `order_book.cpp`, `strategy.cpp`, `risk.cpp` | each component as a function of state and input; used by the next two |
| `TradingPipeline` | both in-process runtimes | one action per queue operation of a thread, with everything the thread does on its own up to the next one; `runtime` tells the two programs apart |
| `Journal` | `journal.cpp` | file as a sequence of whole records and fragments, the state of the output stream, runs of the program |
| `KillSwitch` | `kill_switch.cpp` | one action per load, store, compare-exchange or fetch_add, for any number of threads |
| `MarketDataAdapter` | `market_data_adapter.cpp` | conversions from numerals (sign and digits) to integers, and what they should give, as fractions |
| `LiveRouter` | `live_multi_venue_router.cpp`, `multi_venue_router.cpp`, the connectors' loops | extends `MarketDataAdapter`: read loop from the frame on, mutex, and the steps of `process_update` per stream; `events` is what was handed to the writers (history), `file` what a reader gets back, `cut` a file with a fragment or a bad stream at its end |
| `DistributedNodes` | the four nodes and `tcp_transport.cpp` as they use it | position of each `main`, connections with two ends, backlog, messages in both directions, the OMS's journal stream, crash, break, restart; `missed` (processes whose journal missed a record) and `answers` (what the gateway answered) are history |
| `MessageChannel` | the promise of a `TcpConnection`, one direction | messages sent, messages handed out, the receiver has stopped |
| `TcpSession` | framing of `tcp_transport.cpp`; `tcp_transport_demo.cpp`, and the order exchange of `oms_node.cpp` and `gateway_node.cpp` | `wire` is every cell written (a header, or a part of a payload), `begins` where in it the frames begin (history); one action per `send`, per `recv_envelope` and per exit of a loop; `demo` tells the two programs apart |
| `ReplayChain` | `replay.cpp`, `replay_merge.cpp`, `replay_run.cpp` and the appends of the four nodes | one action per message a node handles, which writes its record and sends; the tools are operators on the files |
| `AsyncLogger` | `logging.cpp` | loads, claim and write of `try_push_log_event`; pop, write, drain of `logger_loop`; start, stop, join; `overtaken` and `lapped` (who has claimed since a thread loaded `head`), `claims` (the calls in the order of their claims) and `early` (a slot was popped before it was written) are history |
| `SpscQueueProofs`, `TradingPipelineProofs`, `JournalProofs`, `KillSwitchProofs`, `LiveRouterProofs`, `DistributedNodesProofs`, `TcpSessionProofs`, `AsyncLoggerProofs` | | the theorems about the module of that name, its inductive invariant and the lemmas (section 4) |

`MC...` modules give the sets and records that a configuration cannot write
down. `TradingPipeline` treats a queue operation as one step that sees the true
indices; `SpscQueue`, proved to implement `BoundedFifo`, is why the items and
their order are right. What this leaves out is a `push` refused, or a `pop` that
finds nothing, through an index that is out of date: a refusal while there is
room is one more drop, counted like the others, an empty pop one more turn of a
polling loop. No property of the pipeline speaks of when a queue refuses.
`LiveRouter` treats a kill
switch call as one step because the program makes them under its mutex;
`KillSwitch` has the unsynchronised case. `TradingPipeline` and
`DistributedNodes` keep the journal as a list of whole records and a stream that
may go bad; `Journal` says what a crash leaves of such a list. `DistributedNodes` moves whole messages between
nodes; `TcpSession`, which implements `MessageChannel` in both directions, is why
that is sound for connections used by one thread at each end. Operators named `X_Something` are faulty variants of
`X`: each property has one that breaks it, so that no property holds vacuously.

### Abstractions

* Prices are small integers around the strategy's threshold; quantity is the 1
  the strategy asks for. A quote is one that is too narrow to trade on, one that
  is bought, or one that risk rejects for its notional.
* Messages have the fields the control flow looks at. `src` (the update an
  order stems from) and `run` (the process an order belongs to) are carried for
  the properties; the code does not have them.
* A live feed numbers an update with a new number or an old one: `apply`
  compares with the last number and does nothing else with it.
* `JournalAppend` in the pipeline writes the record or finds the stream bad,
  for good. A first `open` that fails is the case in which the first append does.
  In `DistributedNodes` it may also fail to open the file, and tries again at
  the next record, as `append` does. `LiveRouter` has a refused record leave a
  fragment, behind which nothing is read, or nothing; a journal's stream stays
  bad after it, a replay file takes the next record.
* `set_available` has no caller; it is kept as the outage of the simulated
  exchange, since it is what the rejection path is written for.
* `recv` on a connection whose peer is gone may report the loss only after
  the messages still in flight, or before; both are allowed. A send into a cut
  connection succeeds and is lost, or fails; both are allowed.
* A logger slot that is read while it is written gives the old event, or a torn
  one, which counts as no event. Write errors of the log file are left out, and
  so are spurious failures of `compare_exchange_weak`, which x86 does not have;
  on another machine each would be one more turn of the loop.
* What Kraken holds and what the gateway makes of its answer are independent:
  the answer may be lost, and a body that says `"result":"success"` need not be
  that of an accepted order.
* `reset()` of the kill switch happens between other calls; no program calls it.
* Counters are unbounded except `dropped_`, which wraps at `CounterMod`.
* A number in a frame is its sign and the digits on both sides of the point;
  finding the fields in the text is left out, a field is there or not. TLC's
  integers have 32 bits, so three decimals stand for more than two
  and two-digit prices for five-digit ones; the sequence's limit is a constant.
  The overflow of a 64-bit integer by a price of 17 digits is left out.
* A TCP header is one cell, because a fragment of it is as useless to the
  receiver as none; a payload is two or three, so that it can be cut and mixed.
  A checksum tells a payload from any other sequence of cells: collisions of the
  32-bit hash are left out.
* `ReplayChain` is one session: every node is started once. A node that has
  died is one that takes no further step, and the properties are checked of the
  files at every moment. All nodes read one clock (`steady_clock`, which is one
  clock only on one host), and it need not advance between two records.

## 3. Runs

| Run | Configuration | Result | States |
|---|---|---|---|
| `spsc_queue` | `SpscQueue.cfg`: 2 items, capacity 3, drop counter modulo 2 | holds | 15 450 |
| `pipeline` | `TradingPipeline.cfg`: both runtimes, 3 quotes, queues of 1, 3 updates | holds | 455 572 |
| `journal` | `Journal.cfg`: 3 runs of the program, 3 appends each | holds | 2 210 |
| `journal_torn` | `JournalTorn.cfg` | `AckedRecovered` violated | |
| `kill_switch` | `KillSwitch.cfg`: 3 threads, 2 calls of each kind | holds | 93 226 |
| `live_router` | `LiveRouter.cfg`: 2 venues, 1 symbol, 5 frames, 2 updates each, limit 3, 1 refused record | holds | 127 494 |
| `price_ticks` | `PriceTicks.cfg`: 2 frames, one with three decimals | `RoutesToBest` violated | |
| `distributed` | `DistributedNodes.cfg`: 2 quotes, 2 updates, 1 fault, 2 restarts, Kraken mode | holds | 271 762 |
| `ghost_order` | `GhostOrder.cfg` | `NoGhostOrders` violated | |
| `logger` | `AsyncLogger.cfg`: 2 threads, ring of 2, two calls each | holds | 117 254 |
| `tcp_session` | `TcpSession.cfg`: payloads of 2 and 3 cells, 2 orders of a node, 3 heartbeats of the demo | holds | 17 212 |
| `replay` | `ReplayChain.cfg`: 3 quotes, 3 updates, 2 clock readings, 1 failed write | holds | 467 594 |

What the passing runs show, and why the bounds are enough:

* **spsc_queue** - no slot is written while it may be read (`NoDataRace`), the
  ring implements `BoundedFifo` (`RefinesFifo`), the oldest item is delivered and
  a full ring gets room again (`NeitherSideStarves`). With capacity 3 the ring is empty, half full and
  full, wraps, and views lag by every distance. The first three are proved for
  every capacity.
* **pipeline** - the journal has an intent for whatever left the OMS
  (`IntentBeforeSend`), reads back as the live orders (`JournalRecoversLive`) and
  is well formed (`JournalLifecycle`), the exchange holds nothing the OMS does not
  count as live (`NoGhostOrders`), drops are counted exactly (`OrdersAccounted`),
  orders reach the exchange once, in order, and never at the price of an older
  book than the one before (`NoStalePrice`), no order waits at the gateway for ever
  (`GatewayDrains`) and every thread ends (`ShutdownCompletes`). Three updates
  through queues of one slot make every queue overflow, and leave an order behind
  one that was dropped.
  The three journal properties are stated for as long as the journal takes
  records: the programs ignore the result of `append`.
* **journal** - what an intact run was told is written is read back whatever
  happens later, and what is read back is in order and without repetition
  (`AckedByCleanRunRecovered`); the history only grows (`RecoveryOnlyGrows`).
  Three runs: one to leave a fragment, one to append behind it, one to read.
* **kill_switch** - `TripsRecorded`, `HaltHonoured`, `FirstReasonWins` with two
  threads tripping for different reasons while a third looks, limits of 0 and 1,
  and the halt file coming and going.
* **live_router** - a book holds the quantities the venue sent, cut to
  millionths, and its prices wherever they have at most two decimals
  (`BooksExact`). Up to the first hole in the numbers of either file, a route
  stands right behind its update and has the price that a replay of the records
  before it computes (`ReplayExplainsRoutes`): the appends' results are ignored,
  so one file may miss what the other has, and only the numbers tell. The kill
  switch has counted every route and its limit is overrun by one update's pair at
  most, whoever waits with an update in hand (`RouteLimitHolds`); such an update
  is dealt with, halted or not (`UpdateServed`). Two venues are enough for a best
  price to move from one to the other, and one refused record for a hole or a
  fragment at any place of either file or of both. The frames have prices with
  zero to two decimals, quantities with one and with more than six, a crossed
  quote, a missing field and a sequence that does not fit; `price_ticks` has three
  decimals.
* **distributed** - `JournalBrackets` and `FailsClosed` through crashes, broken
  connections, refused journal records and a second OMS process on the same
  journal; `StartsUp`, `LossNoticed`. The OMS sends an order whether or not its
  intent was written, so the properties name the processes whose journal missed a
  record, and say what the rest of the file is good for. Two restarts are what it
  takes for OMS and a neighbour to come back and trade.
* **tcp_session** - both directions of a connection implement `MessageChannel`
  (`RefinesChannel`) however `send` splits a payload, when a process dies inside a
  frame and when the demo's two threads mix their frames; a session without
  crashes answers every order exactly if no frames were mixed
  (`AnsweredUnlessMixed`); all threads end (`SessionEnds`). One order and three
  heartbeats mix in every position; two orders show that an answer belongs to its
  own order.
* **replay** - the merged file has each node's readable records in their order,
  and no effect before its cause unless both have the same time stamp
  (`MergeFaithful`); if the market data and OMS records are numbered without a
  hole, `replay_run` makes the orders of the live session, with their ids
  (`ReplayReproduces`). Two clock readings give ties and differences between any
  two records, three updates an old one behind two new ones, and one failed write
  a hole or a fragment in any file.
* **logger** - every call has claimed a slot or is a counted drop; claims are
  lines and occupied slots unless a thread was overtaken by a whole lap; and unless
  a slot was popped before it was written, line i is the i-th call to claim and the
  slots hold the calls that follow, or their writers are at work
  (`CallsAccounted`). `log` returns (`LogReturns`), `stop_async_logger` returns
  (`StopReturns`). With a ring of two, two calls of one thread are a lap for the
  other, so the run contains both the failed and the mistaken compare-and-swap,
  and pops in front of the write; without either condition it violates
  `CallsAccounted`. With a ring of three the invariant holds as well (229 024
  states, not kept as a run).

The violated properties state what the repository's documents or comments say:

* `AckedRecovered`: after `append` "recovery can see that the OMS intended to
  send this order" (`journal_demo.cpp:94`). Not in a run that was started on a
  file with a fragment at its end: `read_all` stops there.
* `NoGhostOrders` of `DistributedNodes`: rejecting "prevents ghost orders"
  (`README.md:352`). An order Kraken accepted is journaled as rejected when the
  HTTP answer is lost.
* `RoutesToBest`: "81531.83 dollars -> 8153183 cents/ticks" (`README.md:2443`)
  and "routed to lowest live ask" (`multi_venue_router.cpp:106`).
  `parse_price_to_ticks` keeps up to nine decimals and adds them to `whole * 100`
  as they are, so 12.500 is 1700 ticks, and a venue that writes more than two
  decimals is compared with the others at prices that are not its own. The sample
  frames in the repository have two; Binance's public `bookTicker` stream, which
  the live connector reads, is known to write eight. `BooksExact` is the part
  that holds.

### Fairness

* Threads of the runtimes are pinned to CPUs of their own and poll or yield, so
  each gets weak fairness as a whole. Publishing more market data, ending a feed,
  stopping, outages and journal errors are never assumed. A store of an atomic
  becomes visible in finite time (`SpscQueue`).
* `LiveRouter`: a thread inside `process_update` goes on. Nothing is assumed of
  the venues, whose reads have no timeout and may block for ever
  (`README.md:3551`). The mutex is not assumed to be fair: `UpdateServed` holds
  because the updates of the others are finite (`LLT_MAX_UPDATES_PER_STREAM`), and
  says nothing of a run without that limit.
* A node that can take a step does, unless it is blocked in `recv` on a connection
  whose network is gone (`HalfOpen`): `recv_exact` has no timeout and no keepalive
  is set, so it may notice or wait for ever, and `LossNoticed` allows both. Faults,
  restarts and the feed are not assumed. The HTTPS call returns, with an answer or
  an error.
* TCP session: each thread of either program goes on, sockets deliver what was
  written and report a closed end. No process is assumed to die. A node's OMS may
  send its next order or lose its strategy; orders are finite.
* Logger: threads inside `log` and the logger thread go on; `StopLogger` is not
  assumed to happen.

`CHECK_DEADLOCK FALSE` is set where the system may stop: nodes that have all
exited, a journal at its last run, a replay session that is over, a logger with
nothing left to log.

## 4. Proofs

Every theorem holds for every value of the constants that satisfies the named
assumption of its module (`CapacityAssumption`, `ItemAssumption` and
`CounterAssumption` of `SpscQueue`, `NodesAssumption` and so on): capacities and
limits are natural numbers, sets of quotes are sets of pairs of integers. The
bounds of the runs are constants too, so a theorem covers any number of updates,
faults, restarts, calls or runs of a program. Nothing else is assumed.

An invariant of section 3 is seldom inductive. Each proof module therefore states
the strengthening `IInv`, proves that the initial states satisfy it and that each
action keeps it (one step or lemma per action), and derives the theorems from it.

| Module | Theorem | States |
|---|---|---|
| `SpscQueueProofs` | `TypeCorrect` | `[]TypeOK`: indices stay in the buffer |
| | `DataRaceFree` | `[]NoDataRace`: no slot is written that may be being read |
| | `ImplementsFifo` | `RefinesFifo`: every step is a step of `BoundedFifo` or a stutter |
| `TradingPipelineProofs` | `TypeCorrect` | `[]TypeOK`: queues within their capacity |
| | `IntentFirst` | `[]IntentBeforeSend` |
| | `JournalIsLive` | `[]JournalRecoversLive` |
| | `LifecycleKept` | `[]JournalLifecycle` |
| | `NoGhosts` | `[]NoGhostOrders` |
| | `DropsExplainLoss` | `[]OrdersAccounted` |
| | `PricesDoNotGoBack` | `[]NoStalePrice` |
| `JournalProofs` | `TypeCorrect` | `[]TypeOK` |
| | `CleanRunsRecover` | `[]AckedByCleanRunRecovered` |
| | `HistoryOnlyGrows` | `RecoveryOnlyGrows`, an action property |
| `KillSwitchProofs` | `TypeCorrect` | `[]TypeOK` |
| | `TripsAreRecorded` | `[]TripsRecorded` |
| | `HaltIsHonoured` | `[]HaltHonoured` |
| | `FirstReasonStays` | `FirstReasonWins`, an action property |
| `LiveRouterProofs` | `TypeCorrect` | `[]TypeOK`, mutual exclusion included |
| | `LimitHolds` | `[]RouteLimitHolds` |
| | `RoutesExplained` | `[]ReplayExplainsRoutes` |
| | `BooksTruncated` | `[]BooksExact`, for numerals of any length |
| `DistributedNodesProofs` | `TypeCorrect` | `[]TypeOK` |
| | `JournalBracketsExchange` | `[]JournalBrackets` |
| | `SimulatedAckIsHeld` | with the simulated exchange, an acknowledgement in the journal is an order it holds |
| | `ClosedOnFailure` | `[]FailsClosed` |
| `TcpSessionProofs` | `TypeCorrect` | `[]TypeOK` |
| | `ImplementsChannels` | `RefinesChannel`: either direction implements `MessageChannel` |
| | `AnsweredExactly` | `[]AnsweredUnlessMixed` |
| `AsyncLoggerProofs` | `TypeCorrect` | `[]TypeOK`: every index is a slot |
| | `DropsExact` | `[]CallsAccounted` |

### The queue

`NoDataRace` speaks of a push that has passed its full test and a pop that has
passed its empty test, each against a view that may be old, so it is not
inductive. The invariant `IInv` adds:

* `RingOrder` - going forward from `tailView` one meets `tail`, `headView` and
  `head` in this order within one lap. It is stated as one equation between
  distances round the ring, so that each step is linear arithmetic
  (`IncrementLinear`, `DistFacts`);
* `ProducerKnows`, `ConsumerKnows` - the local copies of the own index are exact,
  and what the full or the empty test has established stays true, because the
  other thread can only make more room or more items;
* `SlotsFilled` - every slot between `tail` and `head` holds an item, so that
  what is delivered is never the default value.

`InitIInv` and `NextIInv` (one step per action) give `IInvHolds`; `NoDataRace`
follows from it. For the refinement, the sequence the abstract queue holds is
`Contents` (`ContentsSeq`: it is a sequence of that length), and `NextRefines`
maps `PushPublish` to `Accept`, `PushFull` to `Refuse`, `PopAdvance` to `Deliver`,
`PopEmpty` to `DeliverNothing`, the two visibility steps to `Show` and `Reclaim`,
and the others to a stutter.

### The pipeline

An order passes four places: the OMS's hand, the queue to the gateway, the
gateway's hand, the queue back. `IdOrder` says that nothing overtakes: ids rise
within each queue, each place holds older ids than the place before it, and every
outcome in the journal is older than all of them. So the order a thread takes off
a queue is in no other place. On this rest

* `ExchangeOrder` - the exchange's orders are older than what is still to come and
  are never about to be rejected;
* `LiveKnows` - what is on its way and what the exchange holds is live;
* `JournalKnows` - intents and outcomes of the journal against `live_orders_`, as
  long as the journal takes records;
* `Accounted` - the count of live orders without an acknowledgement, where the
  disjointness of the four places makes cardinalities add up;
* `SrcOrder` - each place holds sources no newer than the place before it, and
  `TopOfBook::apply` never goes back.

### The journal

`ReadStops` gives the place where `read_all` stops, `FileOrdered` the order of runs
and sequence numbers in the file, `CleanWhileGood` that a run which opened a file
without a fragment keeps it intact for as long as its stream is good. Appending
lengthens the readable prefix or leaves it alone (`AppendReadable`), from which
both the invariant and the action property follow.

### The kill switch

The compare-exchange elects one thread (`OneWinner`); until it has stored reason
and time stamp nobody else touches them (`WinnerKnows`). `CauseNoted` is what makes
trips safe: a counter above its limit has disabled trading already or belongs to
a call that is on its way to the compare-exchange.

### The router

`Control` (mutex, updates in hand, trading enabled inside the critical section
until the first route is counted, how far the limit is overrun at which step) gives
`TypeCorrect` and, with a count of the routes made (`RoutesCounted`), `LimitHolds`.
For `RoutesExplained`, `Recorded` adds that the books are exactly what the updates
handed to the writers add up to (`BooksRecorded`), that what an update has recorded
is still the last event when its next route is made (`RouteFollows`), and that every
event so far is explained by the ones before it (`AllExplained`); `LastsExist` says
that `Max` is defined where it is used. This is about what was handed to the writers.
`FilesKept` is about the files: every record is the event of its number and numbers
rise, so that a record whose number is its position has all earlier events in front
of it, and what explains the event explains the record.

`BooksTruncated` is about the parsing loops. `Digits` is a recursive function, so
its values exist and are unique only by induction (`ValuesExist`, `ValuesAgree`);
the library's induction rules take a predicate as a parameter, which the provers
cannot instantiate, so `SetInduction` states induction with the predicate given as
a set of numbers. From the one recurrence `DigitsAppend` follow `DigitsConcat`
(positional notation), `DigitsBound` and `TenToProduct`, and from these that a
fraction filled up with zeros loses nothing (`FilledUp`) and one that is cut loses
less than a unit (`CutOff`). `TypeOK` says that a book is a normalized frame.

### The nodes

`Types` says what every connection, message and memory holds; each action has a
lemma that gives its effect on the connections between OMS and gateway. What is
on connection k belongs to OMS process k and was sent after its intent was written
or refused (`Intended`, which no append undoes: `StaysIntended`), a reply on it is
an answer the gateway made, and so is every outcome in the file (`Carried`): that is
`JournalBrackets`. `SimTrue` adds that the simulated gateway acknowledges what it
holds. `FailsClosed` needs more, because the OMS takes the next answer for that of
the order in hand without comparing ids. `OneOrder` - at most one message of the
running process is under way, and it is about the order it waits for - and
`JournalEnd` - while the stream is good, the last record is the intent of that
order; a stream that is not open yet has left nothing of this process in the file,
and one that is bad takes nothing more - make the comparison unnecessary as long as
a process does not go on after a lost answer, which is what the code does. All steps
other than the five of the OMS and the gateway and the restart of the OMS are idle
for this argument (`IdleSteps`).

### The TCP session

`Heads` relates the cells of a direction to its frames: `begins` lists exactly the
headers, in order, and the reader has passed as many of them as it has returned
envelopes. A frame that passes the tests of `recv_envelope` starts with a header
and holds no other, so it is the next frame sent, and behind it the reader stands
again in front of the header after it. Every step leaves a direction alone, adds
payload to it, begins a frame or takes one; `MessageChannel` sees a stutter, a
stutter, `Send` or `Deliver`, and `Fail` when the reading thread has stopped. No
thread takes part in this: the theorem needs neither one writer per direction nor
whole frames, which is the case `tcp_transport_demo` is in. The model itself
lets `recv_envelope` find out every mixed frame: the checksum is taken to have no
collisions (section 2).

`AnsweredExactly` does need the threads, and a second invariant `AInv` on top of
the first:

* `Unmixed` - as long as the cells to the gateway are contiguous, every frame has
  its payload in place and the reader stands between two frames (`InOrder`), at
  most one thread is inside a frame, and what it has left to send is what is
  missing of it (`Missing`). So no receive fails on the data (`InOrderReads`), and
  the demo's gateway stays until the answer is there;
* `Mixed` - a header written into another frame breaks either a frame in front of
  the demo's order or the order itself, and in both cases before the reader has
  come to it (`MixBlocks`, `ReaderBefore`). `Blocked` says so, and stays true
  whatever is written or read afterwards (`BlockedKept`, `BlockedReader`): the
  gateway receives no order and writes no reply, and the OMS gives up;
* `Numbered`, `Answered` - an order that is not received or not answered is the
  latest one, replies are numbered as the orders, and the OMS has all answers but
  the one it waits for. That a heartbeat which mixes with the order meets an empty
  wire back follows from these counts and from `demo` sending one order;
* `Replying`, `NodeUp` - replies have one writer and are never mixed, and a
  gateway node outlives its OMS, unless a process dies.

Either `Unmixed` or `Mixed` applies when all threads have ended, and each gives
its side of the two equivalences. TLC checked the conjuncts of `AInv` on the
instance of the run before they were proved.

### The logger

`Counted` needs no condition. The rest of the account is broken exactly when a slot
is claimed in a full ring. `Level` ties `head`, `tail` and the slots in use
together; `Room` says that the full test of a thread nobody has overtaken since it
loaded `head` is still right, because only pops have happened after it; `Distance`
says that a thread overtaken by less than a lap finds another `head` than it
loaded, so that its compare-and-swap fails. What is left is the thread overtaken by
a lap, which sets `lapped`.

`Text` is about which call is where. Going forward from `tail`, the d-th slot
(`Slot`) belongs to the d-th claim that has no line yet: it holds that call, or the
call's thread is about to write it (`Holds`). The converse, that a thread about to
write has such a slot (`Mine`), is what a write needs to leave the other slots
alone, since the slots in use are different (`Slots`). While the logger thread has
a slot in hand nobody writes it, so what it appends is the next claim. A pop in
front of the write sets `early` and ends all this.

## 5. Only model-checked

* All liveness (`NeitherSideStarves`, `ShutdownCompletes`, `GatewayDrains`,
  `UpdateServed`, `StartsUp`, `LossNoticed`, `SessionEnds`, `LogReturns`,
  `StopReturns`): fairness and `ENABLED` are beyond the prover.
* `MergeFaithful` and `ReplayReproduces` of `ReplayChain`: what a sort, a selection
  and a fold over whole files give for every input is induction over data with
  operators as parameters, which the prover does not instantiate.

## 6. Facts about the code met on the way

These have no run of their own. Where a model contains the behaviour, the
property named says what is left; the others are outside the models.

* `RiskEngine::on_fill` has no caller, so every order is checked against position
  0 and `max_position` bounds single orders only (`README.md:397` lists the
  maximum position among the checks).
* `TopOfBook::is_stale` has no caller; a strategy goes on trading on an old book
  (`README.md:304`).
* An order dropped at a full `oms_to_gateway` queue stays in `live_orders_`, with
  its intent in the journal; only the drop counter tells (`OrdersAccounted`).
* The results of `JournalWriter::open` and `append` are ignored by all callers.
  `TradingPipeline`, `DistributedNodes` and `LiveRouter` have appends that fail;
  `IntentBeforeSend`, `JournalBrackets`, `FailsClosed` and `ReplayExplainsRoutes`
  say what a reader of the file can still rely on.
* "Remove manual kill switch: rm controls/HALT" (`README.md:3490`) does not bring
  routing back: `trading_enabled()` that has seen the file clears the flag, nothing
  but `reset()` sets it again, and no program calls `reset()`. Removing the file
  before the next update arrives has the effect the README describes. No property
  here says that a halt is meant to be final, or that it is not. `reset()` is
  modelled between other calls only; a `reset()` that raced a `trigger()` could
  leave the switch enabled with a reason, or enabled above a limit.
* The router keeps the last book of a venue whose stream has ended and still
  routes to it (`README.md:3542`).
* "If the strategy crashes, the OMS and gateway can remain alive. Existing live
  orders can still be cancelled or monitored." (`README.md:310`). They do not: the
  OMS leaves its loop and exits when the strategy's connection is closed, the
  gateway when the OMS's is, since each accepts one connection. `LossNoticed` says
  that a node lets go of a closed connection, not that exiting is right.
* A node blocked in `recv` on a connection whose network is gone may wait for
  ever: sockets have neither timeout nor keepalive. `LossNoticed` excepts exactly
  these (`HalfOpen`).
* The Kraken gateway takes `"result":"success"` anywhere in the body for an
  acknowledgement and looks at neither the HTTP status, which it has at hand, nor
  the order's own status (`kraken_futures_demo_gateway.cpp:266`). A journaled
  acknowledgement is therefore no statement about Kraken; of the simulated
  exchange it is (`SimulatedAckIsHeld`).
* A restarted OMS numbers orders and journal records from 1 again, in the same
  file. The properties of `DistributedNodes` therefore speak of an order of a
  process.
* The logger's compare-and-swap compares a wrapping index. If exactly a lap of
  32768 events passes between a thread's loads and its compare-and-swap, a full
  ring can be overrun: `head` meets `tail`, the ring looks empty and a ring full of
  events is neither written nor counted as dropped. `CallsAccounted` therefore
  speaks of behaviours without such a lap.
* Ctrl+C does not end `live_market_data_runtime` (`README.md:2858` says "Stop:
  Ctrl+C"): the handler clears `g_running`, the market data thread is in the
  connector's read loop, which does not look at it, and `main` joins that thread
  first. The program ends when the venue ends the stream (`ShutdownCompletes`).
* A duplicate or late update that `TopOfBook::apply` ignores
  (`order_book.cpp:11`) still makes the strategy signal again from the snapshot,
  so one accepted update can give rise to several orders, all at its own price
  (`NoStalePrice`).
* An event whose logger slot is claimed and not yet written is popped as garbage
  and never written, so "Flushes remaining log messages" (`logging.hpp:18`) and
  "Drain remaining messages during shutdown" (`logging.cpp:151`) are not kept for
  it. `CallsAccounted` is stated for behaviours in which that has not happened, as
  far as the text of the lines goes; the count of drops is exact in all.
* `tcp_transport_demo`: when header and payload of a heartbeat and of the order
  mix, the receiver finds out and closes, and the OMS thread returns without
  joining the heartbeat thread, which ends the process in `std::terminate`. If
  `listen_on` fails the OMS thread waits for `server_ready` for ever (left out:
  a session starts connected).
* The result of `ReplayWriter::append` is ignored as well, and writing goes on
  after a failure. `replay_merge` and `replay_run` do not look at the numbering:
  a missing update changes the replayed orders silently, and everything behind a
  fragment is dropped silently.
* A node that is restarted alone truncates its replay file and numbers from 1
  again while the others go on; merging such files gives a history that never
  was. Time stamps of different hosts are not comparable at all (`steady_clock`).
* `market_data_adapter.hpp:68` says quantities are scaled by 1; the code scales
  by 1 000 000, as its own comment says.

## 7. Not modelled, and the plan

Done first, because everything rests on it: queue, pipeline, journal; then the
distributed nodes, where failures are; then kill switch, router, logger.

Framing, replay and the adapters' conversions came last. What has no module:

* `NodeHealth` (`node.cpp`): no program creates one or compares the age of a
  heartbeat with a timeout, so there is no behaviour of the system to check.
* `Metrics` (`metrics.cpp`): relaxed counters and a report file; nothing reads
  them back into the system.
* `MultiSymbolOrderBook`: a map of `TopOfBook`s behind one sequential demo; what
  `apply` does is `BookApply`.
* `normalize_simulated_itch_quote`: takes integers as they are (`std::stoll`) and
  is used by feed demos only.
* Configuration by environment variables, and start-up failures that end a
  program at once.

Left out for good: TLS, WebSocket and HTTP libraries, Kraken's signatures, JSON
text, log formatting, clocks, CPU pinning, and the demonstration programs that
call one component from one thread.
