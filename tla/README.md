# A verification of fix-exchange

TLA+ models of the exchange in `src/`, the TLC runs that check them on small
instances, and TLAPS proofs of the safety of the engine, the ring buffer, the gateway,
the exchange with its database through crashes, the feed and the server that follows it,
the session pool and the page for every instance. `PROJECT.json` lists the runs, the source lines behind every definition, the
mutations that show that each property can fail, the findings and the hazards.

## 1. The system

One C++ process (`src/src/main.cpp`) with five threads.

| component | state | operations | talks to |
|---|---|---|---|
| order book (`engine/OrderBook.cpp`) | `bids_`, `asks_` (price -> list of orders), `order_index_` (id -> list iterator) | add, cancel, replace, restore, match loop, available_to_fill, getBids/getAsks/getOrders | fill callback |
| matching engine (`engine/MatchingEngine.cpp`) | `books_`, `valid_symbols_`, `queue_`, `stop_` | submit, cancel, replace, requestSnapshot (QuickFIX thread); run (engine thread); registerSymbol (admin thread); restoreOrder, start, stop (main thread) | callbacks into the gateway |
| ring buffer (`engine/RingBuffer.h`) | `buf_`, `head_`, `tail_` | push, pop, empty | between QuickFIX thread and engine thread |
| FIX gateway (`gateway/FixGateway.cpp`) | `order_sessions_`, `clord_to_exchange_`, `active_orders_`, `order_seq_` | logon, logout, new order, cancel, replace, market data request; onFill, onCancel, onReplace, onTIFCancel, onOrderRested | engine, risk engine, publisher, persistence |
| risk engine (`risk/RiskEngine.cpp`) | last trade price per symbol | check, on_trade | gateway |
| persistence (`persistence/PersistenceLayer.cpp`) | event queue; tables `resting_orders`, `events`, `symbols` | push, run/flush/applyEvent, the load functions | gateway, admin, main |
| admin gateway (`admin/AdminGateway.cpp`) | `pool_`, `available_` (session ids) | REGISTER, CLAIM-SESSION, RELEASE-SESSION, STATS, RESET-STATS, one connection after the other | engine, persistence, latency samples |
| latency samples (`gateway/LatencyStats.h`) | three bounded vectors | record (QuickFIX and engine thread), reset and serialize (admin thread) | gateway |
| market data publisher (`market_data/`) | sequence number | one UDP packet per book change | subscribers |
| UI server (`src/ui/main.py`, `fix_client.py`) | `order_book`, `order_state`, `exec_log`, `ws_clients` | start (claim, logon, snapshot, join), FIX reader, datagrams, one handler per page | admin gateway, FIX, multicast, pages |
| page (`src/ui/static/index.html`) | `bookOrders`, `orders` (the blotter) | onSnapshot, onMd, onExec, new order, cancel, reconnect | UI server |
| benchmarks (`src/bench`) | round trips, `results`, `results.db` | four scenarios, save_results, load_data | admin gateway, FIX |
| command line client (`src/tools`) | a FIX session | orders typed by hand | admin gateway, FIX |

What is hard about it:

* **concurrency**: a lock-free queue with acquire/release ordering; three maps
  under two mutexes shared by handlers and callbacks; onFill takes the mutexes
  one after the other; registration of symbols while orders flow;
* **stale requests**: a cancel or replace is resolved to an id when it arrives
  and served later, behind fills and other replaces of the same order;
* **re-entrance of one order**: a replace is an erase and a new match, so one
  request produces fills, a remainder and a confirmation that meet in the maps;
* **crash and recovery**: reports are sent before anything is committed, events
  are committed in batches, and the restart rebuilds the books from the rows;
* **one loop, many awaits**: the UI server's start reads the FIX session in three
  places with three filters, and afterwards replay, broadcasts and snapshots to a
  page interleave at every await;
* **clients that time out**: an admin command whose client has hung up is served all
  the same, and a session it was given is nobody's;
* **measuring from outside**: reports and samples are taken by different threads, and
  what an earlier run has left is still in the book;
* **shutdown**: acceptor, admin, engine and persistence stop in this order and
  each must drain what the one before it left.

What makes the parts correct: lists and index agree, and no two orders that could trade
rest side by side;
trading is in price-time priority; fill-or-kill is all or nothing; an order is in
one place and does not come back; every acknowledged order comes to an end that
is reported once; the gateway's copies and the database follow the books; nothing
is lost at shutdown or recovered wrongly after a crash; a session has one holder; the
page offers what is open and shows the server's book; a benchmark measures its own
requests and keeps one run per version.

## 2. The modules

| module | models |
|---|---|
| `OrderBook` | the class, as operators on a book value |
| `MatchingEngine` | queue, run loop, callbacks as steps, recovery, shutdown (extends `OrderBook`) |
| `PriceTimePriority` | abstract specification: two ranked queues per symbol |
| `PriceTime` | the mapping from books to ranked queues (extends `MatchingEngine`) |
| `RingBuffer`, `WorkQueue` | the ring buffer, one memory access per step; the bounded FIFO it implements |
| `RiskEngine` | the two checks, as predicates |
| `Gateway` | handlers and callbacks around the engine (extends `MatchingEngine`, `RiskEngine`) |
| `Persistence` | the tables, as operators on a database value |
| `Exchange` | the whole process with its database, crash and restart (extends `Gateway`, `Persistence`) |
| `MarketData` | the feed's packets, and the UI server's book, as operators on a view |
| `Feed` | the exchange with its feed and a UI server that starts while it runs (extends `Gateway`, `MarketData`) |
| `UiServer` | the UI server with its FIX session, and a page, against an exchange reduced to one session's orders |
| `SessionPool` | the admin gateway's pool, its backlog of connections, and the programs that claim and release |
| `LatencyStats` | the bounded vectors of samples |
| `BenchResults` | the history database and what plot_history loads from it, as operators on a database value; percentiles |
| `Bench` | the benchmark as an interpreter of its scenarios, with the handlers it meets (extends `SessionPool`, `LatencyStats`, `BenchResults`) |
| `MatchingEngineProofs` | theorems about book and engine, fill or kill among them |
| `PriceTimeProofs` | the engine implements `PriceTimePriority` |
| `GatewayProofs` | theorems about the gateway: types and refinement; what is reported |
| `ExchangeProofs` | theorems about the exchange with its database, crash and restart |
| `FeedProofs` | theorems about the feed and what a UI server shows |
| `RingBufferProofs`, `SessionPoolProofs`, `UiServerProofs` | theorems about these |
| `MCMatchingEngine`, `MCPriceTime`, `MCRingBuffer`, `MCGateway`, `MCExchange`, `MCFeed`, `MCUiServer`, `MCBench` | instances for TLC (`MCPriceTime` extends `MCMatchingEngine` and `PriceTime`) |

Variables keep the names of the members they stand for. Notes on how state and
steps correspond:

* A list of orders holds exchange ids; the node an id stands for is
  `order_index_[id]`. "The iterator is valid" is therefore the invariant
  `IndexExact`. Prices are integers of a grid instead of doubles. Sums of
  quantities wrap at `IntMax` where the code adds ints.
* `OrderQty` is a double. A message carries `raw_qty`, which counts half shares; its
  sign is checked as it is (`FixGateway.cpp:121`), and `CastInt` is the `static_cast<int>` of
  line 128, before `MaxOrderQty` is looked at. So an order of half a share is accepted with
  quantity 0, and one of 2.5 passes a `MaxOrderQty` of 2 (`docs/CONFIGURATION.md:60` says that it
  is rejected). `ReplaceQtys` are what the cast of the replace handler leaves, which checks
  nothing: any int.
* `cur` is the aggressor inside `add()`, one fill is one step (`MatchFill`), and
  `call` is the callback the engine thread is executing; it goes on when the
  callback has returned. Everything `run()` does with an item apart from fills is
  the one step that pops it, because no other thread reads the books.
* `queue_` is a FIFO with the capacity of the ring. `RingBuffer` justifies this:
  `ImplementsFifo`. A push that finds the ring full is a step that waits.
* In `RingBuffer`, `lag_head` and `lag_tail` say how many stores of the other
  thread's index a load may miss. Seeing `stop_` (acquire, after the producer was
  joined) makes all stores visible.
* In `Gateway` a section under a lock is one step. A handler is two (before and
  after it may have to wait for room in the queue), onFill six. `fix` is the
  handler in progress, `phase` the position inside onFill. `finals` counts the
  final reports of an order, `used` the ClOrdIDs in use; neither is in the code.
* `logged`: QuickFIX handles sessions on one thread, so handlers do not overlap;
  reports to a client that is not logged on are stored by QuickFIX and count as
  sent. Both are external to `src/`.
* In `Exchange` a transaction is atomic, and `Crash` is the loss of everything in
  memory together with what `main()` does before it restores the rows. `skipped` is a
  history variable: orders whose rows a restart left alone because their symbol was
  not in the database yet. The code does not handle the case; the properties except
  those rows.
* In `UiServer` what happens between two awaits is one step. A message to a page is
  handled by the page in the step that sends it: the socket keeps the order, and the
  page does nothing else with its state. Broadcasts are tasks that asyncio starts in the
  order of their creation. `missed` (orders with a report that was read and dropped) and
  `late` (a snapshot came after the 5 seconds, while a page was connected) are history.
  The book is a function from orders to quantities: how it follows the feed, with prices
  and levels, is `Feed`.
* In `SessionPool` a connection is a record in `calls` from connect to close. Its client
  may hang up before it is served; the command is in the socket and takes effect.
* In `Bench` a scenario is a sequence of instructions (send, wait for a report, admin
  command, ...), and one action per kind of instruction runs it. A time is named by the
  order it was taken for, so a round trip is a pair of orders, and a sample an order.
  Handler and sample, callback and sample are two steps each.
* In `Feed` what a callback publishes is a function of the callback the engine thread
  is in (`Published`), and goes to the server's `wire` once the server has joined the
  multicast group. Packets arrive in order and none is lost; the server does not look
  at sequence numbers, so it could not tell. `gap` is a history variable: packets were
  sent between the server's snapshot and its join, or it gave up waiting for the
  snapshot. The code does not handle either case; the properties are about a server
  without a gap.
* Order types other than market and limit, malformed messages and failures of
  SQLite are not in the model. Each ClOrdID is used for one order.

## 3. The runs

Passing runs (bounds in the `.cfg` files):

| run | shows | bounds, and why they suffice |
|---|---|---|
| `price_time` | refinement of `PriceTimePriority`; books consistent, no two orders come to cross, FOK all or nothing and killed only if short, one place, no resurrection | three prices; starts with a level of two orders, one behind it and a bid, or with two rows that cross, as a restart may find them; a new order of any kind, of quantity 0 (what a cast may leave), 1 or 3, and one request, replaces that reduce to one or to zero or increase (nothing checks the quantity; the proofs cover negative ones too), a second symbol that is registered at some moment: the refinement is checked step by step, so this is enough to overtake, to sweep two levels and to lose priority |
| `ring` | FIFO, no slot race, drained, live | four slots and nine items: the indices go round twice |
| `gateway` | maps agree with books, fills reach their parties, one end per order, but for what add() drops without a callback | an order of half a share among the messages, two clients, two orders, two requests, three ClOrdIDs, a symbol registered at run time: replace chains, cancel against fill, replace that crosses, logon in between; symmetry over clients and ClOrdIDs, which no definition tells apart |
| `gateway_drives` | gateway implements the engine's environment; limit orders of a share or more settle, every order decided, stop() returns, drained | one client, two orders, one request, room for one item in the queue: a push that waits and a shutdown in every position; no symmetry (liveness) |
| `recovery` | table equals book, rows recoverable, clean stop durable, new ids fresh, no row gone without its end in the history | no symbol at first, so that registration races the orders; two orders that trade, rest or are brought together by a replace, a cancel or a replace; one crash at any step |
| `feed` | the UI server's book follows the engine's | two orders, a snapshot at any moment, a replace or cancel: orders seeded by the snapshot and by packets, partial and complete fills, replaces in place and at a new price |
| `ui` | the blotter offers exactly the open orders, the page has the server's book | one order that is new or open beside one that has ended: the properties speak of single orders, and two of them are enough for statuses and ends to mix; quantity two for a partial fill; two connections of the page (a reload or a reconnect), one torn read or lost connection |
| `bench` | one holder per session, round trips and samples of the requests measured, hangs only on what an interrupted run left, one run per version | two sessions and two programs, one of which dies anywhere; four measured requests over vectors of three, so that samples are dropped; two runs of one scenario each, the first `match` or `mixed`, the second `add`, `cancel` or `mixed`, so that the second meets ClOrdIDs and orders of the first or does not; a tag and a commit after it |

Fairness. The engine thread spins on its own core and every callback returns
(weak fairness of the engine's steps); the QuickFIX thread finishes a handler it
has begun; the main thread finishes the recovery. In `ring`, a store becomes visible in finite time, as C++ asks of
atomics: strong fairness of the loads that see the newest index, and of seeing
`stop_`. Clients, the operator and the crash owe nothing. `ui`, `bench` and `feed` check
safety only: nothing in the code promises that a page comes back or a benchmark ends.

Deadlock is checked everywhere; the end of the process (`Over`) is a stuttering
step.

Runs that show a disagreement between the code and what the repository says of
it; the quotes are under "findings" in `PROJECT.json`:

| run | what happens |
|---|---|
| `ghost_row` | a replace that crosses and is filled completely is neither confirmed nor recorded (onReplace returns early, the fill has already erased the order from the maps): its row stays and the order is resting again after a restart |
| `open_is_resting` | the remainder of a market order, or an order whose quantity was cast to 0, ends without a callback and is reported open at every logon |
| `unknown_symbol` | a cancel with an unregistered symbol reaches `book_for`, which dereferences `end()` |
| `exec_log` | reports that come while the UI server logs on (other than I, 2 and 4) or waits for its snapshot are read and dropped, although "all" are to be accumulated |

Behaviour met while modelling that a reader should know of, and that the properties
of the passing runs leave out on purpose (the hazards in `PROJECT.json` give the
lines):

* a status sent at logon may follow the final report of the same order (the page ignores
  it, `BlotterTrue`);
* a replace is not checked against `MaxOrderQty` or the collar;
* a limit order with an `OrderQty` between 0 and 1 is acknowledged with quantity 0; `add()` neither
  fills nor rests it and `run()` makes no callback, so it stays in `active_orders_` and never gets
  a final report. `EndToldOnce` and `LimitOrderSettles` except it together with the remainder
  of a market order (`DropsSilently`);
* a replaced order that is filled completely when it is added again leaves no removing packet, because
  onReplace returns early and the fill's packet names the maker: it stays on the UI as a
  phantom. `UiShowsResting` says that what rests is shown, not that what is shown rests;
* the int sum of `available_to_fill` wraps, so with quantities near `INT_MAX` a FOK
  order that could be filled is killed (the runs stay far below `IntMax` and do not show it);
* an order committed before the registration of its symbol is skipped on recovery, and
  its row stays;
* after a restart, ids of finished orders are handed out again (`NewIdsFresh` says
  that those of live orders are not);
* a UI server misses the packets sent between its snapshot and its join, and a snapshot
  that comes after the 5 second timeout overwrites what packets changed and is not told
  to the pages that are connected;
* a read that ends inside the checksum field raises ValueError in `fix_client.py`: the
  start fails and its session is not released, or the reader task ends and no report
  arrives any more (`bench.py` handles the same case);
* the levels of the page are running sums: a packet that is in its snapshot and is
  broadcast after it is counted twice, and a snapshot carries ten levels a side only;
* trade times of a snapshot are UTC and parsed as local time;
* a failed start, or a client that gives up on CLAIM-SESSION, keeps a session out of the
  pool until the exchange is restarted; a restarted server claims another one and does
  not see the orders of the first;
* after an interrupted benchmark, a run against the same exchange that cancels an order
  of the same ClOrdID cancels the older one and waits in vain;
* a restored order has no session until its owner logs on: a fill, or a cancel or replace
  by another client, changes the book, is not reported and leaves the row as it was (the
  run `recovery` has one client, and the proofs about reports start without rows);
* IOC and FOK cancels are not recorded, so they are not replayed at logon
  (`RowsEndInHistory` speaks of orders that rested).

Every property of a passing run has a mutation, an operator next to the
definition it changes ("Mutation of ..."), under which TLC finds it violated.

## 4. The proofs

For any constants that satisfy the named assumptions (`PriceAssumption`,
`IntMaxAssumption`, `SymbolAssumption`, `RowsAssumption`, `QtyAssumption`,
`BoundAssumption`; `RiskAssumption`, `DbAssumption` and `MsgAssumption` of the gateway;
`CrashAssumption` of the exchange; `NAssumption`, `MaxItemsAssumption` for the ring;
`PoolAssumption` for the session pool; `UiAssumption`, which says that the orders are
finitely many, for the UI):

| module | proved |
|---|---|
| `MatchingEngineProofs` | `TypeOK`, `IndexExact`, `LevelsNonEmpty`, `OnePlace`, `QueuedOrderHasBook`, `StopsDrained`; the action properties `NoNewCrossing` and `NoResurrection`; `Uncrossed` from rows of which no two cross; `FokAllOrNothing` if no replace and no row has a negative quantity; `FokKilledOnlyIfShort` as long as the quantities in reach add up to an int |
| `PriceTimeProofs` | the refinement `ImplementsPriceTime`, as long as the sums of `available_to_fill` fit an int and no replace and no row has a negative quantity |
| `GatewayProofs` | `GwTypeOK`, `StopsDrained`, and the refinement `DrivesEngine`; `FillsReachParties`, `EndToldOnce`, `AgreesWithBook` for an empty database and positive replace quantities |
| `ExchangeProofs` | `NewIdsFresh`, and `GwTypeOK`, `TypeOK`, `IndexExact`, `LevelsNonEmpty`, `OnePlace`, `QueuedOrderHasBook` through any crashes and restarts; likewise `RowsEndInHistory`, if no replace asks for a quantity of zero; `RestingIsDurable` until the first restart, for positive replace quantities |
| `FeedProofs` | `UiLevelsAreSums`, and `UiShowsResting` for the symbols configured at the start (`UiShowsConfigured`; for all, if all are configured), for an empty database and positive replace quantities |
| `RingBufferProofs` | `TypeOK`, `NoSlotRace`, `InOrder`, `ExitsDrained`, the refinement `ImplementsFifo` |
| `SessionPoolProofs` | `PoolTypeOK`, `OneHolder` |
| `UiServerProofs` | `PageFollowsServer`, `BlotterTrue` |

**Book and engine.** The engine's invariants are not inductive one by one. That the
index stays exact when an order is put in needs that its id is in no book; that needs
that an id is in one place (`OnePlace`) and that every live id was handed out
(`Fresh`), that two queued orders differ in id (`QueueOK`), and that prices are on the
grid. `IInv` is the conjunction. It asks of the rows only that they are orders with ids of their
own, so it holds again after a restart from a table that holds the row of an order that has
ended (`ghost_row`).

That no two orders come to cross (`NoNewCrossing`) needs no more than `IInv`. An order is put into
a book by `restore`, or when the match loop is over, and then nothing on the other side is at its
price or better (`LoopEndFits`), whatever crosses elsewhere in the book; every other step takes
orders out or reduces them. `CrossingStep` says what that means for the set of crossing
pairs. Hence no hypothesis about the rows. That no book is crossed at all (`Uncrossed`) is a
corollary for rows that do not cross (`RowsUncrossed`): `NothingCrosses` adds to it that the rows
still to be restored fit the books. After a restart the code guarantees no such rows. The
first part of `MatchingEngineProofs` holds what the operations of a book do to its consistency
(`BookOK`): `UnlinkOK`, `PushBackOK`, `AfterFillOK`, `ReducedOK`, and `LoopEndFits`, which says
that the remainder left by the match loop crosses nothing; `BestPriceIsBest` is where the finiteness of the
price grid enters. The step proofs (one lemma per action) combine them. Quantities
are arbitrary integers throughout, so the result covers replaces with zero and
negative quantities.

`RowsAssumption` is what the engine assumes of the recovered rows: they are limit orders in the
order of their ids, which are positive because `order_seq_` starts at 0 and is incremented first.
`RowsRecoverable` checks that, and that no two cross, of the database in the run `recovery`, whose
bounds keep to replaces that are not filled completely; after one that is (`ghost_row`) rows may
cross.

**Price-time priority.** `PriceTime` ranks the orders of a side by price and, at one price, by
their place in the list (`Precedes`), and takes the ranked orders as the queue of
`PriceTimePriority`. The mapping is a CHOOSE over all rankings, so the first thing to prove is that
there is one and one only (`RanksUnique`); that there is one is an invariant (`AllRanked`), kept
by showing for each operation on a book what becomes of the ranking: `push_back` on a level inserts
the order behind everything at its price or better (`PushBackRanks`, `PushBackRanked`), an erase
closes the gap (`UnlinkRanks`, `UnlinkRanked`), a reduction in place changes one entry
(`UpdateRanked`), and the head is the oldest order at the best price (`HeadIsBest`), so a fill
is a fill of the head (`FillRanked`). The queue is then the abstract one step by step. FOK needs that
the abstract sum over the queue is the one of `available_to_fill` over the levels
(`LiquidityIsReach`); that the sum fits an int is a hypothesis (`SumsFit`), and so are quantities
that are not negative, which `FInv` of fill or kill needs to exclude a FOK remainder that rests.

**Fill or kill.** `available_to_fill` is asked once, before `add()`. `Covered` says that
during the match loop a FOK order has at least as much in its reach as it still wants;
it is kept because one fill takes the same quantity from both (`FillTakesFromReach`), and
at the end of the loop it leaves no remainder, because then nothing is in reach
(`LoopEndReach`). `SumLeaves` is a fold over a set. What is needed of it (`SumWithout`,
`SumDepends`, `SumRange`) is proved by looking at a smallest set for which it would
fail: this is induction without the induction theorems, and works wherever the
statement is about one concrete function. The int sum of `available_to_fill` wraps. A
wrapped sum of quantities that are not negative is never above the true one
(`WrapBelow`), so overflow cannot let in an order that cannot be filled, and
`FokAllOrNothing` needs no bound. It can kill one that could be filled, so
`FokKilledOnlyIfShort` is proved of behaviours where the sums fit (`SumsFit`). With
negative quantities, which only a replace can bring in, a sum could wrap upwards; the
first theorem excludes them.

**Gateway.** `Gateway` extends the engine. `GInv` is `IInv` and what the threads hand each
other: the id an order was given before the handler waited for room in the queue is
still the last one (`SubmitOK`; handlers do not overlap), a replace names an id that was
handed out and a ClOrdID that is taken (`ReplacesOK`), a callback carries what its kind
says (`CallOK`). From it every step of the gateway is a step of the engine's
environment or leaves the engine alone: `DrivesEngine`. So everything proved of the
engine holds behind the gateway.

`KInv` (second half of `GatewayProofs`) says what the three maps know of an order at every step,
because the properties hold only between callbacks: a resting order is known, with its
price and quantity, except in the callback that is about to report the change
(`RestingOK`); the aggressor is known, its session entry is gone, or its end has been told,
depending on its quantity and on how far onFill has come, or, if its quantity was cast to 0, it is one
of those that nobody will hear of (`CurrentOK`, `Silent`); the same for the
maker (`FillOK`) and for the order of a cancel, a kill or a replace (`CallbackOK`); an
order without a final report is held by the engine or is in the callback that sends
it (`Untold`). A cancel or replace that was resolved long ago is harmless because a
ClOrdID belongs to one order for good (`ClaimsOK`): whoever names it names that order,
and an id that was ended is in no book. The two hypotheses are needed:

* `RestingRows = {<< >>}`: a restored order has no session until its owner logs on, and
  a fill before that is not reported (a hazard in `PROJECT.json`);
* `ReplaceQtys \subseteq Nat \ {0}`: the gateway checks no replace quantity; a zero leaves
  an order of no quantity in the book, whose fill never ends it.

**Exchange.** `ApplyBatch` is a fold over a batch. Since induction theorems are out of reach,
its equation is taken as a function on the sets of positions up to `n` (`IsFold`), and what
is needed of it is proved by a smallest position at which it would fail: that a batch takes
a sound database to a sound one, event by event (`BatchSound`), and that it can be cut
anywhere. A database is sound if its columns have their types and no two rows have one
id (`exchange_id` is the primary key).

`XInv` is `GInv` of the gateway and what a restart relies on: every row of the table, every
event taken, queued or to be pushed by the admin thread, and every order on its way to such an
event is of an order that was submitted, under a ClOrdID that is taken. A crash then keeps
`GInv`, because `LoadRestingOrders`, `LoadMaxOrderSeq` and `restoreOrders` give rows with
ids of their own up to `order_seq_`, and maps that know exactly these. This needs no
hypothesis about the rows: those a lost batch left, and those of orders that have ended, are
covered. `NewIdsFresh` follows: an order in a book, on its way to one or in the table has an id
that is at most `order_seq_` of before. What does not survive is `Uncrossed`: a row that
was left behind may cross the book (`ghost_row`).

`FirstLife` is about the table that is coming: the database once `batch` and the queue behind
it are committed (`ComingRows`). What the callbacks make of a table is in `GatewayProofs`
(`RowsFollow(T)`, for any set `T` of rows), because the feed needs it too. `BooksRowed` says that every resting order has its row
there, at every step of every callback, up to what the callback in progress is still to
report: the fill of a maker (`FillOwed`), the price and quantity of a replaced order
(`Replacing`), the row of an order that has just come to rest (`RowOwed`). Taking a batch and
committing it do not change the coming table, so only the callbacks count, one event each; that
onReplace and onFill do push their event is `KInv` (`GatewayProofs`): the order is
known to the maps. `AmendedRow` keeps the row of an order that `replace()` has taken out of
the book and matches again. The hypotheses are those of `KInv`, for the same reasons, and a
database. The theorem stops at the first restart, and it must: with two clients, a restored order
may be cancelled or replaced by the other one before its owner has logged on; `onCancel` and
`onReplace` return early, and the row stays as it was (a hazard in `PROJECT.json`).

`EndsOK(own)` is about the rows that leave the table, across restarts. `own` says which client each
id belongs to; `EInv` says that there is such a function, which grows when a new order draws its
id (`OwnersGrow`), and which after a crash is read off the rows (`RowOwners`), because only
they survive. Every order in a book, a queue, a callback or the gateway's map, every row and
every event that names an order agrees with it, so an end is recorded under the client the row
belongs to. A row leaves by a fill with nothing left, by a cancel, or by a replace with
nothing left. The first two are ends on record themselves. The third is not: `loadHistoricalFills`
does not read replaces. It is harmless because the replace had nothing left only after a fill that
ended the order (`ReplacedOK`, up to the moment `onReplace` is called), and that fill is in the
history, in the batch, or earlier in the queue (`BatchVanishOK`, `QueueVanishOK`). Inside a
batch, `Midway` says after `k` events that every order whose row was taken is on record. The hypothesis is
`0 \notin ReplaceQtys`: a replace to zero that keeps its place deletes the row, and leaves the order
in the book and no end on record; with `ReplaceQtys = {0}` in `MCExchange.cfg` TLC finds that
behaviour. Negative quantities do no harm here, and neither do rows of orders that have ended.

**Feed.** The server's view lags behind, in packets it has not read, and between packets of one
replace it even lacks an order that rests. So `FeedInv` speaks of the view it will have. The
packets on the wire lead there from the view it has (`History`), and every view on the way is
consistent: its levels are the sums of its orders (`SumsOK`). That one packet keeps this
(`PacketKeeps`) is where the arithmetic is: what `_apply_md` adds to and takes from one level is
what changes in the sum of that level (`LevelChanged`), provided that the packet fits the view
(`PacketOK`: an order it adds is not there yet, and one it changes is on the packet's side of the
packet's symbol). `UiLevelsAreSums` follows, for every view on the way.

That the packets do fit, and lead to the books, is shown of the orders `os` of the last view.
Each step of a callback sends at most two packets (`Sent`), and afterwards `os` is what the
event of that callback makes of it (`Advance`, `Moves`); `Synced` says in the middle of a
callback on what `os` and the gateway's copies agree, for instance that the maker's price is not
touched before its fill is published. The books are compared through a table: as in `FirstLife` the
callbacks keep a table `T` in step with the books (`RowsFollow`), and every row of a configured
symbol is among the orders (`Shows`). There need not be a database; `T` is any set of rows with
this property. The beginning of it is the snapshot: it is taken between two callbacks
(`SnapshotFits`), read symbol by symbol while the market moves on (`HalfRead`, `SnapshotRead`),
and no second one can overwrite what packets have changed since, because one request at most is
under way, and only while its server waits or has given up (`AskedOK`). The hypotheses are those of `KInv`, for the same
reasons. `UiShowsResting` needs one more, `InitSymbols = Symbols`: the server asks for the symbols it
was started with, so an order of a symbol that was registered before the snapshot is
not in it. `UiShowsConfigured` says the same of configured symbols and needs no such hypothesis.

**Ring.** The invariant bounds how far each index is ahead of the other thread's view
of it (`Views`), gives the contents of every slot between the indices (`Contents`)
and the state of the shutdown handshake (`Shutdown`).

**Session pool.** That a session has one holder is not inductive: it needs that an id is
in at most one of four places, the free ids, a holder, an answer that is on its way to a
client that will take it, and a RELEASE-SESSION in the backlog. A release that is served
late is then harmless, because its id can be nowhere else. `ReleasingOnce` and
`GrantedOnce` say this of the last two places; an answer is at the head of the backlog
only, because the admin thread serves one connection after the other.

**Page.** The invariant (`Follows`) says that the broadcasts under way lead from the page's
book to the server's. The difficulty is the snapshot: `websocket_endpoint` adds the page
to `ws_clients` before it sends the snapshot, so packets that are in the snapshot are
broadcast to the page once more. `RepeatLeadsThere` shows that this is harmless: a
sequence of packets, applied to the book it led to, leads there again. The intermediate
books differ; order by order they are equal, or one has the order and the other has
not, or the repeated one is already what the end will be.

**Blotter.** The page's rows are behind the server's log, and the log behind the exchange. Of a
sequence of reports only two things matter for one order: whether it makes the order a row
(`Some` with `Adds`), and whether it ends it for good, an end that no later report of the
sequence takes back (`Ended`). A status is no such report, because the page ignores it for
a row it has: that is why a status sent after the end does no harm. `Behind` says in these terms
that what is left of the replay and the broadcasts bring the rows to where the log is,
whichever of the two is served next; a report goes into the log and into both at once, so
repetitions and reports out of order keep it. `Told` says the same of log and wire with
respect to the exchange: an open order has been added or will be and is not ended, an ended
one is ended on the wire, or in the log with nothing on the wire that revives it, or nothing of it
was ever sent. `Logon` says that there is one logon, that it comes first, and that an order is
under way once. Orders that have lost a report (`missed`) are excepted.

Only model-checked, and why:

* everything under fairness (`OrdersDecided`, `StopReturns`, the gateway's and the
  ring's liveness): the prover has no rules for fairness;
* of `Exchange`, `TableIsBook`, `RowsRecoverable`, `StopsDurable` and `RestingIsDurable` after a
  restart: they are not true of every instance. A replace that crosses and is filled completely
  leaves its row (`ghost_row`), and after a restart so does a cancel by a client other than
  the owner. `recovery` keeps to one client and a replace that is not filled completely;
* `Bench`: properties of the particular scenarios.

## 5. What is not modelled

* The command line client (`src/tools/client.py`): at this commit `ClientSession` calls
  `super().__init__()` without the `sender` that `FixSession` of `tests/helpers.py`
  requires, and raises TypeError before it connects.
* Trade history and chart of the UI, the levels and the trade tape of the page, the
  message that announces a new symbol; message layout; `start_exchange`, tables and
  charts of the benchmarks.
* The race of `registerSymbol` with the engine thread's unlocked reads of `books_`, which
  is below the granularity of the model; failures of SQLite; the session pool across a
  restart of the exchange.

Hazards without a property say why in `PROJECT.json`.

## 6. Plan

1. Core (done): book, engine, ring buffer, their proofs; gateway, persistence,
   exchange, feed.
2. Around the exchange (done): UI server and page, session pool with its proof, latency
   samples, benchmarks and their history.
3. Proofs around the engine (done): price-time priority, fill or kill, the gateway's refinement and reports, the
   page's book and blotter, the exchange through crashes, the rows until the first restart, the ends
   of orders on record, the book and the levels of the UI server.
4. Not planned as proofs: recovery of time priority and of the session map (restored
   orders filled before logon); reuse of ClOrdIDs across clients; replaces of zero and
   negative quantity as the client and the feed see them.
