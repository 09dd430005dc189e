# Verification of the NUTC exchange

TLA+ modules, model-checking configurations and machine-checked proofs for the
trading exchange under `src/exchange/src/`. All paths below are relative to that
directory unless they begin with `src/`.

## 1. The system

NUTC is an exchange for trading competitions. The *exchange* process holds the
order books and the traders' accounts. Every submitted algorithm runs in a
*wrapper* process of its own, connected to the exchange by two pipes. Bots trade
inside the exchange process. A separate *linter* tries algorithms before they are
accepted. Web portal and web server are user interface and storage.

| Component | State | Operations | Talks to |
|---|---|---|---|
| Matching engine (`exchange/matching/`) | none of its own; the incoming order during a call | `match_order`: match, remove an unfunded resting order, rest or discard | order books, portfolios |
| Order books (`exchange/orders/`) | queues by side, price and arrival; `order_map_` from ids to list iterators; level quantities and the set of modified levels | add, remove, change quantity, top order, take updates | portfolios (open volume and interest) |
| Portfolios (`exchange/traders/portfolio/`) | capital won or lost, holdings, open volume, open interest | `notify_match`, `notify_position_change`, getters | called by engine and books |
| Matching cycle (`exchange/matching_cycle/`) | tick counter; references to tickers and traders | one `on_tick`: new traders and bot orders, collect, sort, match, report | traders, books, engine |
| Traders and bots (`exchange/traders/`, `exchange/bots/`) | the container; an optional `wrapper_handle_`; a bot's pending orders | `send_message`, `read_orders`, `disable`; bots place orders | cycle; wrapper handle |
| Wrapper handle, pipe reader, pipe writer (`exchange/wrappers/`) | child process; the vector of stored messages and its lock; the outgoing queue, its lock and the `is_writing_` flag | construct and wait for the init message; asynchronous read loop; send; completion handlers; destructor | io thread of `AsyncPipeRunner`, main thread, server thread, timer thread |
| Sandbox server (`exchange/sandbox_server/`) | `traders_to_add` and its lock, timers | handle a request, hand traders over, end a trial | main thread (shared vector), wrapper handle |
| Wrapper process (`wrapper/`) | rate limiter; the algorithm | start up, wait for start, event loop, place and cancel orders, signals | pipes |
| Linter (`linter/`) | a child process, a read, a timer, the result | the HTTP route, `spawn_client`, `lint` | the author's browser; the algorithm |
| Runtimes (`linter/runtime/`, `wrapper/runtime/`) | the loaded algorithm | make the API, load, construct, call back | linter, wrapper process |
| Modes and start-up (`exchange/main.cpp`, `algos/`, `config/`, `ticker_container.cpp`) | arguments, configuration, files of algorithms, the trader container | read arguments and configuration, make files, start wrappers, create tickers and bots, signals | wrapper handles, containers |
| Metrics (`exchange/metrics/`, `matching_cycle/dev/`) | counters and gauges | report orders, matches, tickers, traders | called by the cycle of dev and sandbox mode |
| Theo price, HTTP clients, logging, portal, web server | — | — | not modelled, see section 8 |

### What is hard about it, and what makes it correct

* **Books and money.** Quantities and notional values are kept four times: in the
  queues, in the level tracker, in the portfolios (as sums of deltas) and in the
  clients' copies. An order may leave a queue in five ways (filled, cancelled,
  removed because its trader cannot pay or deliver, in the middle of someone
  else's match, never added). They must agree in every state of the loop. Costs are
  computed once to decide and once to charge, with rounding; traders that may not
  borrow must not come to owe, and do so only where no check looks: for what they sell below zero. The volume limit is checked before the order trades.
* **Cycle and clients.** Messages arrive with any delay, are sorted by timestamps
  that the senders chose, with an unstable sort. A cancel must not overtake its
  order; what clients are told must add up; every message must be handled.
* **Threads around a pipe.** Senders, the io thread and completion handlers share a
  queue and a flag: no two writes at once, no reordering, no lost wake-up, losses
  only by overflow.
* **Life of a sandbox trader.** Five parties (request thread, main thread, timer
  thread, io thread, wrapper process) meet in a handle and two pipes. A trader must
  be handed over once, start-up messages must be consumed by those who wait for
  them, orders must be read once and in order, a request must be answered and a
  trial must end.
* **Linter.** A read and a timeout race; the verdict must be founded and final. The pipe that carries it
  is the standard output of the algorithm, which may write lines of its own into it, some of which make
  the linter throw.
* **Linter against wrapper.** Each has its own copy of the code that gives an algorithm its
  API. What one lets pass the other must load.
* **Start-up and end.** Wrappers report one by one, wait for one start time and may be
  interrupted at any step; none may be missed, start early or be left behind.
* **Dashboard.** Counters and gauges are set at three places of a tick, some of them only when
  there is something to show; together they must tell one story.

`PROJECT.json` lists the hazards one by one, at the line where each bites, with the
properties that would catch it.

## 2. Modules

```
Decimal  <-  Portfolio  <-  MatchingEngine  <-  MatchingCycle
                            MatchingEngine  <-  Bots
                            MatchingEngine  --implements-->  Ledger
                            MatchingCycle   --implements-->  MatchingEngine!Spec
                            MatchingCycle  <-  DevCycle
PipeWriter
RateLimiter  <-  Sandbox
Algorithm  <-  Wrapper  <-  Startup  <-  Contest
Algorithm  <-  Linter                <-  Contest
```

`MC*.tla` hold the definitions that the configurations give to constants. `*Proofs.tla`
hold the theorems:

```
FoldProofs  <-  MatchingEngineProofs  <-  MatchingCycleProofs  <-  ReportProofs
                MatchingEngineProofs  <-  BotsProofs
PipeWriterProofs      SandboxProofs      ContestProofs
```

`FoldProofs` has lemmas about sums over finite sets and no state; `ReportProofs` is about what the cycle
reports, to clients (`MatchingCycle`) and to the dashboard (`DevCycle`); `ContestProofs` is about `Linter`,
`Wrapper`, `Startup` and `Contest`. In the component modules an operator whose comment begins with
"Mutant of" is a wrong version of an operator that follows it; no specification uses it. Each is the
subject of an entry under `mutants` in `PROJECT.json`, which says that the named
property fails in the named run when the wrong version takes the place of the right one.

### Decimal, Portfolio (`common/types/decimal.*`, `trader_portfolio.cpp`)

Pure operators. A decimal is its `value_`: prices, quantities and the fee count
hundredths, capital deltas and interest ten-thousandths. `Times` truncates as the
code's `operator*` does. A portfolio is a record; `NotifyMatch` and
`NotifyPositionChange` return the record after a call.

### MatchingEngine (`matching/engine.cpp`, `order_pair.hpp`, `orders/`)

One iteration of the loop in `match_order` is one step, so all intermediate states
of a match are states of the model. `book` maps arrival numbers to resting orders:
a queue of the code is the set of orders of one ticker, side and price, in order of
arrival, and a list iterator is an arrival number, so that a dangling iterator is
a number outside the domain of `book`.

| Action | Code |
|---|---|
| `Accept`, `Drop` | the checks of `match_orders_` before an order is matched |
| `Cancel` | `match_orders_` of a `cancel_order` |
| `Match`, `RemovePassive` | an iteration of the loop: a match, or an unfunded passive order removed |
| `Rest`, `Discard` | the end of `match_order` |
| `TakeUpdates` | `get_and_reset_updates` of every book |
| `Terminated` | an exception has left the loop: nothing catches it |

`AddOrder` changes book and portfolio before either tracker can throw, as the code
does; the model keeps that half-done state with `status = "terminated"`.

### Ledger

The abstract specification: money and shares move by trades only; the buyer gets
what the seller gives up; a trader that may not borrow pays with capital and delivers from
holdings it has. In a `Trade` the seller gets no more than the buyer pays. Nothing in the code keeps
a price from being below zero: in a `TradeBelowZero` the seller pays the buyer, whether it can or
not, and the buyer gets at least as much, since the fee turns around. `MatchingEngine` implements it under `capital <- CapitalOf`, `holdings <- HoldingsOf`.

### MatchingCycle (`matching_cycle/`, `messages_*`, client side of `exchange_communicator.cpp`)

Clients write orders and cancels into `pipe`; `Collect` takes an arbitrary prefix of
each; `Handle` hands the vector's next element, by timestamp, to the engine (equal timestamps in any
order: `std::sort` is not stable); `Step` is one engine step; `Report` sends level
updates, trades and account updates. `AddTrader` is the sandbox's `before_cycle_`,
`Disable` the loss of the handle. Bots are clients that are told nothing and place
their orders between ticks. How a bot picks prices is an input here; see `Bots`.

`OrderId` keeps the width of the id: with
2^64 ids and a shift by 46 only 18 bits of a process id are left, and two processes
that agree in them number their orders alike. `EndsForCause` says that the exchange ends for this reason
or for a price below zero, and for no other; the run `cycle_fair` has two such processes and such a price.

### DevCycle (`matching_cycle/dev/`, `metrics/`)

The cycle of dev and sandbox mode wraps the steps of the base cycle: `ReportOrders` is `Collect`
with the counters of orders and cancels, `ReportMatches` is `Report` with the counter of matches, and
`PostCycle` sets the gauges once the tick is over, an empty tick included. A gauge that
has never been set is not in the domain of `gauge`; `best_ba` is set only for a side that has
orders, the others always. `posted` says that `post_cycle_` has run; what belongs to
`before_cycle_` (new traders, bots) waits for it, what clients do does not.
`PnlGauges` rounds the value of a trader's holdings to hundredths, which happens when the code adds a `double` to a
`Decimal<2>` (`Rounded`). At half a hundredth it may go either way (`Halfway`): the `double` is not exact. The client library of
Prometheus ignores an increment that is not positive (`Positive`).

The run `cycle` checks the properties of `MatchingCycle` in this module, so that they hold with the
reports in between.

### Bots (`bots/`, `bot_trader.hpp`, `ticker_data.hpp`)

What the bots do to the books, on top of the engine. The main thread's tick is
`StartTick`; `Act` for each bot in turn (`QuoteAnew`: a market maker cancels the quotes it
remembers and makes four on each side from its capital and open interest; `TradeAtMarket`: a
retail bot may send a market order); `Handle` for each message, with `HandleAlgo` for an
algorithm's order anywhere between them and `Step` for one engine step; `EndTick`. The arithmetic of
prices, quantities and utilization is that of the code, truncation included: a level
of an eighth is 0.12, one of a twenty-fourth is 0.04.

The price that a bot reckons with, after lean and noise, and a retail bot's dice are inputs.
Messages of bots are stamped with the processor's clock one after another on one thread, so
that sorting keeps their order. Bots quote by the midprice and portfolios of the start of the
tick; nothing changes these before all have acted. Ids of bots are even and ids of algorithms odd, which
stands for the process id in the upper bits; what comes of ids that collide is the matter of `MatchingCycle`.

### PipeWriter (`wrappers/messaging/pipe_writer.cpp`)

Sending threads and the io thread, with a step for each statement that another
thread can come between: take the lock and enqueue, test and set the flag, start a
write; write ends, lock, look at the queue, write or clear. The flag is also
cleared without the lock when a write fails.

### Sandbox, RateLimiter (`sandbox_server/`, `wrappers/handle/`, `pipe_reader.*`, `wrapper/`)

| Thread | Actions |
|---|---|
| request thread | `CreateTrader`, `BlockOnInit`, `PushTrader`, `StartRemoveTimer`, `SendStart` |
| main thread | `MoveTraders`, `ClearTraders` (the two halves of `get_and_clear_pending_traders`, under the lock), `AddTraders`, `ReadOrders`, `TakeOrders`, `Report`, `SendUpdates`, `SendUpdate` |
| timer thread | `Expire`, `DestroyHandle`, `UploadLog` (the log file goes to the storage, by a request without a timeout; the thread does nothing else meanwhile) |
| io thread | `ReadCompletes`, `StoreMessage`, `ReadEnds` |
| wrapper process | `ReportStartup`, `GiveUp`, `WaitForStart`, `ReadUpdate`, `PlaceOrder`, `Die`, `Terminate` |

Crow runs one worker thread by default, so that requests are served one after another.
The main thread asks whether the handle is there (`Visit`) and uses it in a later step
(`TakeOrders`, `SendUpdate`): no lock protects it from the timer thread. When the
handle has been destroyed in between, the behaviour of the code is undefined; the model
lets the use go unnoticed or end the exchange (`exchange = "dead"`). The same holds for
a read handler that runs after its reader's destruction.

The operator `Unexpired` is the loop that pops the front of `timestamps_`.

### Algorithm (`linter/runtime/`, `wrapper/runtime/`, `compile_cpp.cpp`)

Pure operators. An algorithm is a record of what comes of each of its entries (returns, throws, ends
the process, hangs, or one thing today and another tomorrow), of the names of the API that it
reads and binds while it is loaded, and of the lines that it writes into the linter's pipe: a result
of its own, a result without `success`, other text, or text that is not base64 (`Lines`, `LintWrites`). `LintInit` and `WrapperInit` say what may come of loading
it in either process: a Python algorithm is executed with the names bound before (linter) or after
(wrapper), a C++ algorithm is compiled, opened and called. `LintCall` and the operators
`WrapperCall*` are the callbacks: the linter reports what they throw, the Python wrapper logs it, and
the C++ wrapper catches nothing. `Portable` is what an algorithm must keep to besides what
the linter looks at, and leaves out algorithms that write a result themselves.

### Wrapper (`wrapper/main.cpp`, `exchange_communicator.cpp`, `resource_limits.hpp`)

| Action | Code |
|---|---|
| `SetHandlers` | `process_arguments`, `std::signal` |
| `SetLimits` | `set_memory_limit`, `kill_on_exchange_death`; reports also when they fail |
| `ConsumeAlgorithm`, `ConsumeStart` | the messages that `main` waits for; an update that comes before the start message is dropped |
| `WakeUp`, `Load` | `sleep_until`, and the constructor of the runtime |
| `HandleUpdate` | `main_event_loop` |
| `EndOfInput` | `consume_message` at the end of the standard input |
| `Interrupt`, `KilledWithExchange` | SIGINT, and the signal that `prctl` asks for |

### Startup (`exchange/main.cpp`, `algos/`, `config/dynamic/`, `ticker_container.cpp`)

The exchange from its arguments to its first tick, with a `Wrapper` for each algorithm:
`ProcessArguments`, `ReadConfig` (the YAML nodes are functions; all that must be there is looked at), then
by mode `InitializeFiles`, `SpawnWrapper` and `BlockOnInit` for each algorithm in turn,
`SendStartTimes`, `WakeMain`; or `GetRemoteTraders`, which throws; or `NoAlgorithms`.
`TakeTicker` creates a ticker with its bots: of a ticker that is configured twice the second set of
bots joins the container, but no ticker lets them act. `CtrlC` signals the exchange and
every wrapper there is, and each handles it when it gets to it (`InterruptExchange`,
`InterruptWrapper`). After `EnterLoop` updates are sent until `MaxUpdates`; the ticks themselves are
those of `MatchingCycle`.

### Contest (`linter/crow/`, composition)

An author has an algorithm linted (`Ask`, with every refusal of the route; `LintStep`;
`Answer`), puts it into a file and starts the exchange (`Start`). The steps of
`LintProcess` are those of `Linter`, with the outcomes that `Algorithm` gives for the algorithm
and the language asked for, and the lines that the algorithm writes at any time before `lint` has reported. When
`spawn_client` throws, nothing in the route catches it and the server answers with an error (`Answer`). The exchange does not look at a verdict; that it is started with an algorithm
that has not passed is the case in which the linter was not asked.

### Linter (`linter/spawning/`, `linter/lint/`, `linter/spawner/`)

One call of `spawn_client`. `handlers` is the queue of the `io_context`, which one
thread runs: an expired timer's handler cannot be cancelled once it is queued, but a read
that is ready and has not run can, since the reactor reads when it runs the operation.
The algorithm may return from each call, throw, hang (the process takes no step), crash
or write a line (`Prints`). `ReadLine` takes the first line, whoever wrote it: `message` keeps whose words it
holds, and of a result without `success` the field is whatever was in memory. A line that is not base64 makes
`base64_decode` throw (`ReadThrows`): the exception leaves the handler before it terminates the process, the
`io_context` and `spawn_client`, whose locals end the process and drop the other handlers. `ContestProofs` begins with the module on its own, for an algorithm that may do any of these in any
call; the run `contest` checks it with the algorithms of the instance.

## 3. Runs

| Run | Question | Instance |
|---|---|---|
| `engine` | do books, trackers and accounts agree in every state, is every step a trade of the ledger or none, who may come to owe, and does every call of `match_order` return? | 2 algorithms and a bot, 2 tickers, up to 4 orders from a set of 13, one id that comes twice, any cancel at any time; fee 0.50; volume limit 1.50; capital 1.99 |
| `bots` | do market makers keep track of their quotes and stay within half of their capital? | 2 market makers and a retail bot, 4 prices, 2 ticks, 1 market order of an algorithm |
| `unfunded_order` | (finding) is an order its trader cannot pay for thrown out? | up to 3 orders |
| `cycle` | do clients' views add up, do cancels find their orders, does the dashboard agree with itself? | an algorithm that is present, one that is added and disabled, a bot; 3 orders, 2 of a client at most, 1 cancel; fee 0.10; a bot that sells what it does not have |
| `cycle_fair` | does the cycle take only engine steps, is everything handled, and what may end the exchange? | 2 orders, 1 cancel; two processes whose ids are alike in the bits that are left; a bid below zero |
| `fulfilled_side`, `complete_copy` | (findings) what template and FAQ promise | as `cycle` |
| `pipe_writer` | one write at a time, order, losses, wake-ups | 2 senders, 6 messages, a queue of 2 |
| `sandbox` | hand-over, start-up protocol, order of messages, rate limit | 2 traders, one of which places 2 orders with 1 per window; clock up to 2 |
| `sandbox_fair` | are requests answered, do trials end unless an upload hangs? | 2 traders, 1 order, no updates, clock fixed |
| `reader_raii` | (finding) is destroying the reader all it takes? | as `sandbox_fair` |
| `contest` | does the linter answer, founded and final; does what it passes load; do algorithms start together, does starting end, and is no wrapper left over? | the 10 calls of `lint`, 1 line of the algorithm's own; a Python and a C++ wrapper; 34 algorithms: the template, and the template with one thing wrong; 42 that write a line of every kind and return, throw, exit or hang, with a command line that the exchange refuses, and one of them with the exchange; 7 command lines; 9 configurations; 1 update; Ctrl-C at any step |

### Bounds, and why they are enough

* *Orders* (`MaxOrders`). The set in `MCMatchingEngine` was chosen so that the cases of
  the code occur in few orders: prices and quantities that do not divide evenly
  (1.01, 0.67, 0.33) so that truncation shows; a quote that two orders fill; an
  order refused for volume across two tickers; a resting order whose trader has
  spent its capital; self-trades; timestamps against arrival order; zero quantity;
  a buy and a sell below zero, the latter stamped so that it trades at its own price; an `ioc` order and market orders on both sides. Every action
  and every disjunct of the next-state relation is taken.
* *Fee 0.50.* Large, so that leaving it out or rounding it differently is visible
  at capital 1.99. The proofs cover every fee from 0 to 1.
* *Bots.* Two ticks are one cancel-and-requote; between them quotes are filled in part by
  an algorithm and a retail bot, and dropped at the volume limit by the larger market maker. Of
  the prices, 1.40 lets new buys meet the sells made at 1.00, 0.20 makes bids negative, and
  -0.50 makes quantities negative too.
* *Ids.* The cycle has 16 ids and a shift by 4, in the proportions of 2^64 and 2^46
  to a counter that does not reach 2^46; process id 7 loses a bit, and in `cycle_fair` 1 and 5 become alike by it.
* *Pipe.* Six messages overflow a queue of two while a write is in flight, with both
  senders in the middle of `send_message`.
* *Rate limiter.* Two calls at a limit of one and three clock values cover a call
  inside, at the edge of, and after the window. The code has 3000 calls in a second.
* *Sandbox.* `MaxUnread` bounds how many updates pile up in front of a wrapper; more
  of them are only more of the same message. Two traders are needed for a second
  start message, for the shared vector and for a timer thread that is held up.

* *Contest.* One deviation from the template at a time is enough for properties that each tell
  how one deviation is treated; two wrappers are needed for one that waits while another starts, and
  two languages meet in an algorithm that is put into the other's file. What an algorithm writes only matters
  before it is accepted, so that most that write are linted without an exchange; the one that goes on writes a passing
  result, ends its process in `construct`, and is what `Portable` must leave out. One update reaches the
  callbacks. The theorems of `ContestProofs` cover every algorithm and number of wrappers.
* *Dashboard.* With a fee of 0.10 and quantities and midprices that do not divide evenly, profits are
  rounded, and a value falls on half a hundredth; the bot sells what it does not have, so that holdings are negative too.

### Fairness

* `FairSpec`, `FairCycleSpec`: weak fairness of the main thread's steps: it runs one loop and does
  nothing else. Strong fairness of `Collect` per trader: it says that the io thread delivers what a client has
  written before some later tick, a tick at a time; collection itself does not wait. Strong fairness
  of `AddTrader`: each tick empties the vector of new traders.
* `FairPipeSpec`: weak fairness of each thread's steps; a write that is in
  flight ends, or the client closes the pipe.
* `FairSandboxSpec`: weak fairness of each thread; strong fairness of `PushTrader`,
  since the main thread takes the lock once a tick and releases it at once; weak
  fairness of the expiry of some timer: when the timer thread is free it handles the next. That an upload
  ends is not assumed; `Removed` has it as its premise. A wrapper's start-up and its handling of SIGTERM make progress; nothing is assumed about
  the algorithm.
* `ContestSpec`: the `io_context` makes progress, the timer expires and the route answers; the
  exchange and every wrapper are scheduled, time passes, and a signal that has been sent is
  delivered. The process that lints has no fairness, and an algorithm that hangs leaves its wrapper without
  a step to take: nothing is assumed about algorithms. Each assumption is stated about the step as
  `Contest` takes it (`Start(...)`, `LintStep(...)`), not about the component's action alone, so that
  every behaviour up to a point can be continued to a fair one.

Deadlock is checked in every run but `contest`, where all processes may be gone, and `cycle_fair`, `fulfilled_side`
and `complete_copy`, where the exchange may have ended between two messages of a tick and clients have nothing left to send; elsewhere `Terminated`, `Over` (in `Bots` after the last tick, or when an exception has ended the exchange), `EmptyTick` and `Return` are
the places where the system may rest.

## 4. What the checks show

Engine and cycle hold up: every state of the matching loop keeps the four records of
an order in agreement, and no interleaving of pipes, ticks, cancels and disabled
traders breaks what clients are told. No check of the code looks at the sign of a price. A limit sell below zero that
is stamped no later than the bid it meets trades at its own price: the seller pays, nobody asks with what, and the buyer receives
at least as much. This is the only way in which a trader that may not borrow comes to owe money (`DebtsAreOwnSales`). An order below zero
that comes to rest ends the exchange. So do two orders with one id, which need processes alike in the 18
bits of a process id that an order id keeps, or a process with 2^46 orders (`EndsForCause`). The pipe writer has no lost wake-up, although its
flag is cleared outside the lock after a failed write. In the sandbox no trader and no
order is lost between threads while the handle lives. Trials end one after another on one thread, which also uploads each
log: one upload that hangs keeps every other trial from ending (`Removed` says what holds otherwise).

Market makers cancel blindly, ids that were filled or dropped long ago included, and this is
enough: old quotes are gone before new ones are looked at. Their open interest never passes half of
the capital, so that the assertion in `get_capital_utilization` holds for them while the
exchange runs. A bid below zero ends the exchange by the exception that `add_order` throws.

`Answered` names an exception: a wrapper that is killed before it has reported leaves
`block_on_init` spinning for ever, and the server's only worker thread with it.

In the dashboard, the midprice and the best prices agree wherever a midprice is shown; `best_ba` itself keeps
the last price of a side that is empty. Until something is sold below zero, profits never add up to a gain beyond what
rounding each of them adds (half a hundredth each), and every trade is covered by counted orders.

At start-up no wrapper fails to report, whichever way it ends, so that `block_on_init` does not
hold up the main thread (in dev mode, where nobody kills a wrapper that has not reported). The linter's
verdict is founded on the run, unless the algorithm has written the line that is read: it may pass by its own words. A line that is not
base64 ends `spawn_client` by an exception, and the author gets a server error instead of a verdict. What the
linter lets pass is loaded by a wrapper if it is `Portable`. The differences: the linter knows `Side` and
`Ticker` before it runs an algorithm and the wrapper does not, so that an algorithm that uses them in an
annotation at its top level needs its own import; an algorithm without that import passes and then fails
at the wrapper's own `side: Side`; the wrapper replaces `print` by a function of one string; and a
wrapper has a memory limit. `EndsWithExchange` names an exception: a wrapper that is interrupted
between its signal handlers (`wrapper/main.cpp:37`) and `prctl` (line 47) spins for ever.

### Findings

1. `unfunded_order` (documentation): tests call a limit buy that its trader cannot pay for
   "Thrown out"; the code lets it rest and counts it as open volume. Funds are looked
   at only when orders cross.
2. `fulfilled_side` (documentation): the template says "Side of order that was fulfilled"; both parties
   are told the side of the aggressive order.
3. `complete_copy` (documentation): the FAQ says the updates suffice for "a complete copy of the
   local orderbook"; a trader that the sandbox adds is never told of the orders
   that already rest.
4. `reader_raii` (code): the read handler captures the reader; a read that has completed
   when the timer thread destroys the reader runs on freed memory. The comment relies on
   cancellation reaching it.

Observed while reading and not the subject of a run: an order that was refused in the loop
for its own trader rests, so that the book may be crossed; the linter calls `on_account_update` with quantity before price, wrapper
and template have the price first; normal mode always ends with an exception; `generate_gaussian_noise` keeps a distribution in a
static variable, so that every bot draws with the parameters of the first (`bot_trader.cpp:14`); the FAQ allows 30 orders in a minute and
the code 3000 in a second; the linter's message prints milliseconds as seconds and appears twice after a timeout; `lint`
never calls `on_account_update` for ETH.

## 5. What is proved

The proofs hold for every value of the constants that satisfies the `ASSUME`s of the modules
(any sets of traders and tickers, any set of orders, any limits). TLC evaluates these
assumptions in the runs.

| Theorem | Says |
|---|---|
| `TypeCorrect`, `TrackerCorrect`, `VolumeLimit` | `TypeOK`, `TrackerMatchesBook`, `OpenVolumeBounded` are invariants of the engine |
| `LevelsAreSums`, `InterestIsSum` | `LevelsMatchBook` and `InterestMatchesBook`: the deltas in the level tracker and in the portfolios add up to what rests in the books |
| `TradesPricedWithinLimits`, `PriorityKept` | every step of the engine satisfies `TradesWithinLimits` and `PriceTimePriority` |
| `EngineImplementsLedger`, `TradersSolvent` | the engine implements `Ledger`, at any prices; traders without leverage never sell short (`HoldingsCovered`) and come to owe only by what they sell below zero (`DebtsAreOwnSales`) |
| `CycleImplementsEngine`, `CycleVolumeLimit`, `CycleSolvent` | the cycle implements the engine's specification, and with it `OpenVolumeBounded`, `HoldingsCovered` and `DebtsAreOwnSales` hold while clients and ticks interleave |
| `ExchangeGoesOn`, `CancelsComeLater` | `EndsForCause` and `CancelsFollowOrders`, for any processes, prices and number of orders: what the properties except is named in them |
| `DevImplementsCycle`, `DevImplementsEngine`, `DevVolumeLimit` | the reports of dev and sandbox mode change nothing that is matched or told, so that all this holds there too |
| `ClientsCopyBook`, `ClientsKnowCapital`, `AccountsFollowMarket`, `DevClientsInformed` | `CopiesMatchLevels`, `CapitalTold` and `AccountAfterMarket`: what clients are told is true, without and with the reports of dev mode |
| `TradesWereOrdered`, `DashboardAgrees` | `TradedWasOrdered` and `GaugesAgree`: counters and gauges agree |
| `DashboardBalances` | `NobodyGainsOverall`, rounding included, at any prices: the property itself speaks of the time until something is sold below zero |
| `BotsKeepEngine`, `BotsKeepMarket` | under the bots of `Bots`, too, `TypeOK`, `TrackerMatchesBook`, `OpenVolumeBounded`, `InterestMatchesBook` and `LevelsMatchBook` are invariants, and every step satisfies `TradesWithinLimits` and `PriceTimePriority` |
| `BotsImplementLedger`, `BotsLeaveSolvent` | the market of the bots implements `Ledger`, with `HoldingsCovered` and `DebtsAreOwnSales` for whoever trades in it |
| `QuotesNotLost`, `HalfOfCapital` | `QuotesTracked` and `HalfUtilized`, for any bots, capital, prices to reckon with, volume limit and number of ticks |
| `PipeTypeCorrect`, `SingleWrite`, `InOrder`, `Losses`, `NoLostWakeup` | types and the safety properties of the pipe writer, for any number of threads and any queue size |
| `SandboxTypeCorrect`, `TradersAddedOnce`, `InitTakenFirst`, `WrappersStartOnce`, `OrdersArriveInTurn`, `RateLimited` | types and, for any number of algorithms, the safety properties `AddedOnce`, `InitTaken`, `StartedOnce`, `OrdersKept` and `WindowBound` of the sandbox |
| `LinterTypeCorrect`, `VerdictIsFounded`, `ReturnsSettled`, `TimeoutIsFinal` | types and the safety properties of the linter, for any number of calls and of lines of every kind that the algorithm writes |
| `LintedLoads` | an algorithm whose initialization the linter may find right and that is `Portable` compiles and never ends its wrapper while it is loaded |
| `WrapperTypesCorrect`, `ConfigComesFirst`, `AllStartTogether`, `ContestVerdictFounded`, `AcceptedAlgorithmsLoad` | types of the wrappers, and the safety properties of the contest but `Settled` and `TimeoutFinal`, for any algorithms, files, configurations and number of wrappers |

### How

* **Engine.** `Inv` joins types, the tracker invariant and `NotOverfilled`
  (the incoming order's quantity is never negative). `TrackerMatchesBook` is
  inductive only together with the fact that what rests is a limit order with
  positive quantity and that arrival numbers grow. Lemmas about `RemoveOrder`, `ReduceOrder` and
  `AddOrder` are stated once, and one lemma per action puts them together.
  `OpenVolumeBounded` is inductive in the form the run checks: it counts the incoming
  order's remaining quantity with what rests, so that trading moves it from one to the other.
* **Sums.** Levels, open volume and interest, counters and profits are sums over sets (`SumFunctionOnSet`).
  The library has its facts about folds from induction theorems with an operator as parameter, which the provers
  cannot instantiate; `FoldProofs` gets them instead from sets: a set of naturals that is not empty has a least
  element (`LeastNatural`, by the library's theorem on minimal elements), so that one with 0 and the successors of its
  elements holds all, and so does a set of subsets that has {} and is closed under adding an element.
  What the rest uses is that a sum changes by what its elements change (`SumChange`, `SumTwo`), that it is linear
  (`SumLinear`) and that summands of zero do not count (`SumOfPart`).
* **What rests.** Every action of the engine changes one order at most in the books (`ChangesAt`), and with it one level,
  one open volume and one interest by the same number; `InterestMatchesBook` needs, besides, that notional values
  are products (so that reducing a quantity and removing the rest take away what was added).
* **Ledger.** `LedgerInv` adds that the capital delta is a whole number of hundredths
  (so that narrowing it loses nothing) and that resting prices are not negative. The
  arithmetic core is `ChargeIsCost` (what the engine charges is the cost it compared with the capital,
  although the two are rounded differently) and `FeeSplit` (the seller receives between zero and what the
  buyer pays), both about truncating division. A trade below zero is a case of its own: truncation goes
  the other way, and both inequalities turn around (`TradeBelowZero`). `TradersSolvent` follows from the steps of the
  ledger: in a `Trade` capital that was enough stays enough, and in a `TradeBelowZero` only the seller loses.
* **Cycle.** `CycleInv` says that pipes and vector hold well-formed messages with ids
  that the engine accepts. Each step of the cycle is then a step of the engine or leaves it alone, and the engine's theorems carry over.
  `StampInv` (pipes are sorted by timestamp, and the vector comes before them) makes sure that no message is
  there twice; `IdInv` then follows an id from the counter to the tracker and says that it is in one place only,
  and `CancelLater` compares a cancel with its order. An id determines the bits of its process that are left
  and, below `PidUnit`, the number of the order: two orders with one id are of alike processes or of one whose counter
  has run through (`MayShareId`). So an id that a tracker meets twice is such a pair (`EndsForCause`), and nothing
  about process ids is assumed.
* **What clients know.** `CopyInv` says that a client's copy of a level is right unless the level is marked as modified;
  a tick sends the marked ones and unmarks them.
  `CapitalInv` compares the last account update with the capital before the trades that are still to be reported:
  the last of those a trader took part in carries what it has after all of them. `WhoInv` says that only clients that
  have been added own messages and trades, so that everyone who trades is told.
* **Counters.** `CountedInv` is an equation with an inequality: what is counted as ordered is at least twice what is
  counted or waiting as traded, plus what rests, what is in hand and what waits in the vector. Each step moves quantity from one of these to another, or drops it.
* **Profits.** `Balanced` is about the engine: holdings of all traders add up to nothing for each ticker, and their
  capital to no gain, since a trade moves equal quantities and the seller receives no more than the buyer pays
  (until something is sold below zero, which the property excepts). `StrangersInv` says that who has not been added has neither won nor
  holds anything. So the sum of the profits is a sum of capital alone: at any midprice the values of the holdings
  cancel (`ValuesCancel`) before they are rounded, and rounding adds half a hundredth to each at most (`RoundedShows`,
  `SumShows`). `PnlInv`: no gauge shows the profit of a
  trader that has not been added, so that `PostCycle` sets them all.
* **Bots.** `Bots` gives its orders ids of its own and does not draw them from the set that the engine's `Spec`
  allows, so that its behaviours are not those of the engine. The engine's lemmas are therefore about
  `EngineStep`, a step that takes in any well-formed order or cancel: every step of `Next` and every step of `BotsNext` is one.
  `EngineInv` and `ControlInv` (who is still to act, what is in the queue) carry over at once.
* **Quotes.** `TrackInv` is about one market maker at a time. `Tracked`: while something of an earlier tick rests, none of
  the latest quotes does, and its cancel is in the queue in front of them. `Owned`: whatever of the bot
  is in the queue or in hand has an id in `open_orders`, and no id of it is above the counter.
  `Settled`: a bot that is still to act knows all its quotes and has sent nothing, which needs
  that a bot acts once in a tick (`IsInjective(Bots)`).
* **Half of the capital.** `HalfUtilized` is not inductive: a bot reckons with the interest it has before its cancels are
  handled, and what it sizes at one price (`theo`) rests at eight others. `BatchInv` describes each market maker's latest
  batch by the price and quantity it was made with, the counter before it and the quote that comes next: exactly the
  quotes from that one on are in the queue, what rests is part of a quote before it, and each bid below zero before it
  was refused for its volume, since it would have ended the exchange otherwise. What remains is arithmetic.
  `ToleranceRange` and `QuantityRange`: after all truncation, four times the quantity is worth no more than
  the capital at `theo`. The levels take 50, 33, 12 and 4 hundredths of it on either side, so the batch
  should be worth two of the four quarters at most: a bid and an ask of one level are together worth twice their quantity
  at `theo` (`PairValue`, `WholeDepth`). Where bids below zero are missing, nothing makes up for the asks above `theo`,
  but then the limit of volume that refused the bids keeps the depth small enough (`LimitedDepth`, `DepthValue`).
  That `theo` is not zero is assumed, since the code would divide by it.
* **The bots' money.** The engine's lemmas about the ledger hold for any order it takes in, at any price, so that
  they carry over to what bots and algorithms send.
* **Pipe writer.** `PipeInv` says who holds the lock at which place, that the flag is set
  exactly while somebody is bound to look at the queue, and that the queue is a contiguous run of message
  numbers that ends at the last one sent; order and losses follow from that without
  induction over the queue.
* **Sandbox.** `SandboxInv` joins, per property, what the threads know of each other. `VectorInv`: the three vectors
  have no trader in common and hold together those whose timer is set or about to be; the vector that the request
  thread pushes to is empty while the main thread holds the lock. `InitInv`: while the request thread waits, the init
  message has not been written or is the first of all messages; afterwards there is none. `StartInv`:
  nothing that says start is on its way before the last step of the request, and one message at most after it.
  `OrdersInv`: what has been taken, what is stored and what is in the pipe, one behind the other, are the numbers of the
  orders in turn, behind the init message until that has been taken; each step moves the border between two of the three.
  `TimeInv`: what the limiter knows is the tail of the orders let through, and what it has forgotten is older than the
  window; `UnexpiredIsTail` shows that for its loop, from the least element of a set of numbers.
* **Linter.** `LinterInv` ties the queue of handlers to the read and the timer (an aborted read
  means that the timer's handler has run and only the read's is left; a timer that was cancelled means
  that the read is done), a passing report of `lint` in the pipe to the calls that have returned, and
  the first handler to run to the result and the end of the process, or to the exception.
* **Contest.** `LintedLoads` is about operators alone: the outcomes of `LintInit` that contain "returns" against those
  of `WrapperInit`. The invariant `ContestInv` then carries it through the processes: a reply "passed" needs
  a passing line; one of the algorithm's own is among those that it writes (`WrittenInv`, `PipeLines`), which `Portable`
  excludes, and the report of `lint` needs that the first call has returned, and that is an outcome of `LintInit`. `StartInv`
  says how many wrappers main has seen report at each of its places, from which `StartedTogether` follows:
  the start message is sent at one place only.

## 6. Only model-checked

* Liveness (`MatchingTerminates`, `OrdersHandled`, `LastMessageWritten`, `Answered`,
  `Removed`, `LintAnswers`, `StartupEnds`, `EndsWithExchange`): temporal reasoning with fairness and `ENABLED` is beyond the prover.

The safety properties of all passing runs are proved. `AccountAfterMarket` is proved and in no run. The findings are counterexamples and need no proof.

## 7. Plan

Done, in this order: engine and ledger; cycle; pipe writer; sandbox; linter; bots; dashboard; algorithms,
wrappers, start-up and their composition with the linter; the proofs of section 5. What could still be added:

1. `Bots` composed with `MatchingCycle` in place of its nondeterministic clients; the container's
   averages and the lean they give.
2. Composition of `PipeWriter` and `Sandbox` with the cycle: an abstract channel that both implement.

## 8. Not modelled

* **int64_t overflow** in prices times quantities, which is undefined behaviour in the
  code: the modules compute with unbounded integers.
* **Numbers a bot draws**: random noise, leans, volatility; the theoretical price. A bot
  may reckon with any price of the instance but zero, by which the code would divide: that `theo` is not zero is
  assumed, and the code does not ensure it.
* **Formats**: JSON and base64 of messages; logging; HTTP and the storage behind it.
* **Of the metrics**: the number of the tick, the theo price, labels with the type of a trader, and the
  server that Prometheus asks.
* **Of the processes**: a memory limit is a property of the algorithm (`heavy`) and acts when it is constructed;
  `quill::flush` in a signal handler; ends of pipes that a wrapper inherits from those started before it.
* **Of start-up**: the capital that a bot draws; the values of the configuration, except those that a
  conversion refuses.
* **Destruction of a `PipeWriter` with a write in flight**: the same defect as the reader's.
* **Between cycle and pipes**: `CopiesMatchLevels` and `CapitalTold` are about what the cycle sends. What a full queue of the
  `PipeWriter` drops, and what a wrapper discards while it waits for its start message (`exchange_communicator.cpp:48`),
  the client does not see; `OnlyOldDropped` and `ConsumeStart` have these losses, but no module joins them to the copies.
* **A wrapper that is killed or fails before its report** for a reason of its own (arguments, logging) in dev mode:
  `StartupEnds` supposes that it does not.
* **Process ids of the real width**: an id keeps 18 bits of a process id in the code, two in the runs.
* **Web portal, web server**: user interface and storage.
