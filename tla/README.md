# TLA+ models of the Quantitative Strategy Engine

The engine (QSE) has two halves. The C++ half trades: tick feeds, an order
manager with three fill models, execution handlers for a simulated venue and for
Alpaca's REST API, a live trading loop and backtests. The Python half does the
research: programs that build a universe of returns, make signals and target
books of it, classify regimes, validate and meta-label the strategy, and file and
analyse the results of backtests. This directory holds TLA+ models of the parts
whose correctness depends on order, concurrency, time or failure, the TLC
configurations that check them on small instances, and TLAPS proofs.

## The system

    network thread                    strategy thread
    --------------                    ---------------
    AlpacaMarketDataFeed  --ring-->   LiveEngine::step: drain -> bars -> crosses
    TickSubscriber        --ring-->        |                       |
                                           | poll_fills            | submit
                                           v                       v
                                      IExecutionHandler: AlpacaExecutionHandler -> venue
                                                         SimulatedExecutionHandler -> OrderManager
    Backtester: read ticks -> strategy.on_tick -> bars -> OrderManager.process_tick
                                                        -> OrderManager.attempt_fills

    vendor -> build_universe -> rolling_pca, residuals, ou_sscore, signals -> weight files
                             -> baselines, compare_allocators       market -> regime_*
    signals -> build_meta_dataset -> meta_sizing -> weight files -> audit -> judge_meta
    returns -> deflate_qr4 <-> trial registry
    engine -> results/, plots/ -> organize_results -> organized run -> analyze_*
                               -> data/organize_*  (moves the same files)

| component | state it keeps | operations | what is hard |
|---|---|---|---|
| SPSC tick ring (`core/SPSCRingBuffer.h`) | slots, two atomic indices, each side's cached view of the other index | `try_push`, `try_pop`, `consume_all` | two threads without locks, stale views, wrapping indices, slots given back only after a batch |
| Depth book (`data/OrderBookFullDepth.cpp`) | levels by price, each with queue, positions, sizes and total; queue ids; two synthetic quote orders | enqueue at back or front, cancel, dequeue, consume at a price, quote refresh | redundant copies of the same facts |
| Order manager (`order/OrderManager.cpp`) | orders, live list per symbol, queue ids, cash, positions, book | submit, cancel, `process_tick`, `attempt_fills`; `replace_order` in the simulated handler | three fill models, priorities, partial fills, IOC, buys beyond the cash |
| Alpaca handler (`exe/AlpacaExecutionHandler.cpp`) | filled quantity already emitted, per tracked order | submit, cancel, replace, `get_order`, `poll_fills` | every exchange may fail before or after the venue acted; the venue moves between exchanges |
| Live engine (`live/LiveEngine.cpp`) | position flag, submitted ids, fill log | `step`, `run_for`, `reconcile` | intent against acceptance, the final sweep, late fills |
| Alpaca feed (`live/AlpacaMarketDataFeed.cpp`) | last quote stamp, ring, drop counter, poll thread | `start`, `stop`, `poll_once`, `drain` | duplicates, drops, shutdown |
| Bars and backtester (`data/BarBuilder.cpp`, `core/Backtester.cpp`) | current bar, ready bars, registered symbols | `add_tick`, `flush`, `run` | boundaries, gaps, a strategy that throws |
| Thread pool (`core/ThreadPool.cpp`) | queue, stop flag, workers | `enqueue`, destructor | wake-ups, shutdown |
| Universe and signals (`scripts/data/corporate_actions.py`, `scripts/research/statarb/`) | bars and matrices on disk, weight files, manifests | `build_universe`, `rolling_pca`, `residuals`, `ou_sscore`, `signals`, `baselines` | no look-ahead through gaps, adjustments and windows; execution lags; files of several runs |
| Regimes (`scripts/research/regime/`) | features, states, committed states | `regime_features`, `regime_hmm`, `regime_debounce` | refits in the middle of the series, streaks |
| Allocator comparison (`scripts/research/portfolio/`) | a summary | `compare_allocators` | which row earns what |
| Cross-validation (`scripts/research/validation/purge_embargo.py`, `cpcv.py`) | none | splits, purge, embargo, paths | windows that overlap, two axes |
| Trial registry (`trial_registry.py`, `deflated_sharpe.py`, `deflate_qr4.py`) | two files per trial | log, list, deflate | sweeps that die, with a file half written too, data that change |
| Meta-labelling (`scripts/research/meta/`) | dataset, weight files, audit curves | `build_meta_dataset`, `meta_sizing`, the audit, `judge_meta` | leakage, sizes of held bets, stale inputs |
| Result files (`scripts/organize_results.py`, `scripts/data/organize_*.py`, `scripts/analysis/analyze_*.py`) | directories of curves, logs, plots and reports | organize, move, clean, analyse | no locks, partly written files, names as keys |
| Streaming (`messaging/`, `data/ZeroMQDataReader.cpp`, `publisher/`) | sockets, pipeline ring, drop counter | publish, receive, drain, read until END_OF_STREAM | not modelled |
| Bar and factor strategies, factor execution (`strategy/`, `exe/FactorExecutionEngine.cpp`) | moving windows, last rebalance, holdings | `on_bar`, daily rebalance | not modelled |
| Toxicity signals, factor library, readers, programs, other scripts | running statistics or none | numerics, parsing, plotting | not modelled |

What makes each component correct is listed with its properties below, and in
`PROJECT.json` under "hazards", each at the line of the source where it bites,
with the property that guards it or the reason why none does.

## Modules

| module | models | proved in |
|---|---|---|
| `BoundedFifo` | the abstract promise of a tick queue | |
| `SPSCRing` | the ring, one step per shared access | `ConcurrencyProofs` |
| `Lists` | map entries set and erased, lists filtered and summed | `ListsProofs`, `FoldFacts` |
| `DepthBook` | the depth book: operators on a book value | `OrderManagerDepthProofs` |
| `OrderLedger` | order records, live list, bookkeeping of a fill | with the two managers |
| `OrderManagerDepth` | the order manager on the depth book, `replace_order` | `OrderManagerDepthProofs` |
| `OrderManagerTouch` | the order manager on the touch, or on ticks alone | `SimulationProofs` |
| `AlpacaHandler` | the REST handler and the venue behind it | `LiveSessionProofs` |
| `LiveEngine` | the live loop on top of `AlpacaHandler` | `LiveSessionProofs` |
| `LiveFeed` | the quote feed, its ring, the drains and the shutdown | `LiveSessionProofs` |
| `ThreadPool` | the worker pool | `ConcurrencyProofs` |
| `BarBuilder` | the bar builder of one symbol: operators on a value | `SimulationProofs` |
| `Backtester` | the tick loop: strategy, builders, router, flush | `SimulationProofs` |
| `PriceHistory` | from bars and corporate actions to returns: operators on a vintage of the data | `ResearchRunProofs` |
| `StatArb` | factors, residuals, scores, positions, books, baselines, walk-forward | `ResearchRunProofs` |
| `Regime` | features, refits, filtered and committed states | `ResearchRunProofs` |
| `ResearchRun` | the research programs at work on one data directory | `ResearchRunProofs` |
| `CrossValidation` | purge, embargo, groups, combinations, paths | `ValidationRunProofs` |
| `TrialRegistry` | sweeps, the registry, deflation | `ValidationRunProofs` |
| `MetaModel` | labels, weights of samples, scores, sized books | `ValidationRunProofs` |
| `ValidationRun` | sweeps and meta-labelling programs at work on one data directory | `ValidationRunProofs` |
| `ResultFiles` | engine, movers, organizers and analysts on the result files | `ConcurrencyProofs` |
| `MC_*` | instances for TLC (constants too structured for a .cfg) | |

`OrderManagerDepth` extends `DepthBook` and `OrderLedger`, which extend `Lists`;
`OrderManagerTouch` extends `OrderLedger`, `LiveEngine` extends `AlpacaHandler`
and adds its own variables to every step; `Backtester` extends `BarBuilder`.
`StatArb` and `Regime` extend `PriceHistory`, and `ResearchRun` both;
`ValidationRun` extends `TrialRegistry` and `MetaModel`, which extends
`CrossValidation`. Operators whose comment says *mutant* are plausible bugs of
the code; each replaces the definition it is named after, to see that a property
notices. They are no part of the models.

### SPSCRing

`TryPush`, `WriteSlot` and `Publish` are the three shared accesses of `try_push`:
the fullness test (with its one refreshing load), the plain write of the slot,
the release store. `TryPop` or `ConsumeAll` choose a batch, `TakeSlot` moves one
element out, `Release` stores the read index. `consume_all` samples the write
index once and releases once, as the code does. A load of the other thread's
index returns any value between the one seen last and the current one
(`Loadable`): coherence of atomics promises no more. The memory orders matter
only through that and through the fact that a slot is read after the store that
published it; a slot that could be read while written would violate
`NoSlotRace`. Indices are words that wrap at `IndexMod`, a multiple of the
capacity, as 2^64 is of any power of two.

Refinement mapping to `BoundedFifo`: the queue is what lies between the
consumer's cursor and the published write index; `Publish` is `Accept`,
`TakeSlot` is `HandOver`, everything else stutters.

### DepthBook, OrderLedger, OrderManagerDepth, OrderManagerTouch

Every call into the manager is one step: the manager is single-threaded, and a
tick with all its consequences (print, quote refresh, matching, IOC expiry) is
one call. One symbol is modelled, since no call relates two. Queue ids are
reused when nothing refers to them any more; the code only compares them for
equality. Order ids are their numbers of creation. Fill prices are whole numbers:
an order records the value it traded (quantity times price) in place of an
average, and slippage is an integer division. `told` is what the fill callback
heard of each order.

`OrderManagerDepth` covers `use_full_depth_`: a limit order takes what it can on
arrival and rests; resting orders fill by prints and by incoming orders.
`ReplaceOrder` is the simulated handler's cancel and resubmit. `OrderManagerTouch`
covers the constructor with an `OrderBook` and the one without (`hasBook`).
`get_*` operations change nothing and have no action. GTC orders behave as DAY
orders in this code and are not told apart. Left out: equity and trade logs,
which nothing reads back, the toxicity signals, and `execute_buy`/`execute_sell`,
which belong to the bar strategies.

### AlpacaHandler and LiveEngine

Each HTTP exchange is a step or, for a submission or replacement, one of two
steps: the answer was read, or the venue acted and the answer was lost. An
exchange that fails before the venue acts changes nothing. `poll_fills` visits
the tracked orders in any order (they are in an `unordered_map`), one
exchange each, and the venue may move between them. The venue executes one unit
at a time, ends orders when it likes, and may still execute an order whose status
the handler already counts as terminal (`pending_cancel`, `stopped`). It is
external; its actions are marked so in the map.

`LiveEngine` adds the crossover strategy (any sequence of golden and death
crosses), `run_for` with its final step, and `reconcile`. `failed` and `disturbed`
are history variables: a submission was not answered; something kept the last
poll or the reconciliation from seeing the venue's last word. They occur only in
hypotheses of properties.

### LiveFeed

Two threads. The poll thread looks at the flag, asks, receives (`Fetch`) or not
(`FetchFails`), and processes the answer (`Deliver`: duplicate filter, bad quotes,
push or drop), then sleeps. The strategy thread starts the feed, drains again
and again (`BeginDrain`, one `HandleTick` per tick, `EndDrain`), drains once more
when its time is over, clears the flag and joins. The ring is a queue with the two
traits of `SPSCRing` that matter here: slots are given back after a whole batch
(`held`), and each side may see an old value of the other's index (`unseen`, and
a batch shorter than the queue). A quote is its stamp and whether a tick can be
made of it; the venue shows one quote at a time and is external. `polled` and
`handled` are history. The bars and signals made of the ticks are in `LiveEngine`.

### ThreadPool

What a thread does under the mutex is one step: `Enqueue` (the push), `Sleep`,
`Leave` and `Take` (the three ways out of a worker's look at queue and flag),
`SetStop`. The notifications come after the mutex is released in this code and
are steps of their own: `NotifyOne` of whoever enqueued, `NotifyAll` of the
destructor. A worker that was woken, for a reason or not, goes back to the mutex
and looks again, which is what the predicate of `wait` does. Tasks may enqueue
further tasks, also while the pool stops, in which case the call throws and
changes nothing. The owner destroys the pool only when no thread outside is in
the middle of a call. The constructor accepts zero threads; such a pool never
runs anything, and `PoolAssumption` excludes it. In this repository only tests
use the pool, although docs/PROJECT_PHASES.md:92 says that the multi-symbol
programs do.

### BarBuilder, Backtester

`BarBuilder` has one operator per method, with the tick buffer, the bar in
progress and the queue of ready bars. `Backtester` handles one tick per step:
registration, strategy, builder, router. A strategy that throws on a tick
(`StrategyThrows`) ends the loop, and the flush follows in every case. The sorted
input is chosen tick by tick, ticks of equal times in any order, since
`std::sort` is not stable. `Due` and `IsBarOf` say what the bars of all ticks so far
are without using the builder. Left out: `process_tick` and `attempt_fills`, which
have modules of their own and no effect on bars, the equity curve, and exceptions
out of `on_bar`, which nothing catches.

### PriceHistory, StatArb, Regime, ResearchRun

A *vintage* is all the data a program may read: the bars on disk per symbol and
for the market, and the file of corporate actions. `KnownBy(v, t)` is the part of
it that was known at the close of day t. A number is represented by what the code
computes it from: an adjusted close is its bar and the set of factors it was
scaled with; a return is its two bars and the factors that do not cancel; a
window is the rows in it. The linear algebra (PCA, regressions, the
Ornstein-Uhlenbeck fit, the hidden Markov model, the ranking of a baseline) is a
constant function of those, so that a result is the same exactly when the code
is given the same data. A score is the zone of the trading rule it falls in,
which is all that `next_position` looks at.

What is not abstracted is which data reach which row: the union grid and its
forward fill (`PanelClose`), the events an adjustment skips, trailing windows with
their warm-up, the scan of positions from the first row, the shift of weight
files by the execution lag, the refit schedule, the streaks of the debounce, and
the rows of the walk-forward.

`ResearchRun` has one `Start` per program and one `Write` per file, in the order in
which the program writes, so that `Die` leaves any prefix; `Raise` is the manifest
that describes an empty frame. `Fetch` and `SaveBars` are `--fetch`, one file per
symbol. A file on disk is the run that wrote it (and for a weight file the date
of its signal); a program that reads a file computes from the vintage of the run
that wrote it. Since files are replaced one by one, programs may read files of
different runs. The write of one file is one step: whether a file that is cut short
in the middle can be read is left out here. The vendor publishes sessions and late bars, and actions are
entered, between programs: none of them reads twice what changes there.

### CrossValidation, TrialRegistry, MetaModel, ValidationRun

`CrossValidation` is the arithmetic of `purge_embargo.py`, `cpcv.py` and the event
splits of `meta_model.py`, on sets of indices. `TrialRegistry` is a sweep: `log`
overwrites two files in place, so it is four steps, `OpenReturns`, `LogReturns`,
`OpenParams` and `LogParams`; from the moment a file is opened until it is closed it
is `Torn`, and a sweep that dies in between (`SweepDies`) leaves it like that. `Listed`
is the glob for parameter files, torn ones too, and `Deflate` loads both files of
every listed trial, which fails when one is torn or missing. The data may change
at any time, a sweep reads it once. A series is the version of the data it was
computed from; `cut` remembers the trials that a sweep died in and that none has
logged since.

`MetaModel` computes labels (`TripleBarrier`), sample weights, the scores out of
sample, sizes and books from a version of positions and prices. A fitted model is
the set of samples it was fitted on, with their labels and weights; the
classifier is a constant function of these. In `ValidationRun` each program reads
what is on disk when it starts: the dataset may be of older signals than the
positions it sizes (`MetaSizing`), weight files of several runs may share a
directory, the audit works through the modes and stops at a missing directory,
and the judge reads whatever curves are there. A program that writes many files
may die after some of them (`upto`).

### ResultFiles

The state is the directory tree: what each file is called, whether it has rows
under its header, and whether the engine has it open. `RunEngine` and `NextCombo`
are `multi_strategy_main.cpp`, which opens and closes the files of one combination
after the other (`NamesOf` and `Closed`, constructor and destructor of its
`OrderManager`). Files from before there were time stamps (`Leftovers`) may be there
at first; the movers leave them where they are. `StartMover`, `MoveOne` and `MoverDies` are
`data/organize_results.py` and `data/organize_plots.py`; a rename keeps an open
file open. `StartOrganizer`, `CopyOne`, `ListPlots`, `Summarize` and `CleanUp` are the
phases of `scripts/organize_results.py`, which ends when a listed file is gone.
The analysts load (`LoadEquityCurves`, `LoadLogsAndReport`, `AnalyzePairs`,
`StartMultiStrategy`, `TakeResult`, `ShowTable`) under the keys that they cut out of
file names (`OrganizedKey`: the names that the code spells out, pairs, and symbol
with first word; `HasKey`: other names are skipped), in an order nobody fixes
(`Loaded` is any outcome of the last file winning). A report is represented by the files and columns it is made from.

## Runs

| run | instance | states | checks |
|---|---|---|---|
| `spsc_ring` | 4 slots, indices modulo 12, 2 values | 56 thousand | `NoSlotRace`, `ImplementsFifo`, `EventuallyTaken` |
| `order_depth` | 2 prices, quantity 2, 2 ticks, 3 orders, cash 3 | 205 thousand | `BookConsistent`, `RestsWhileActive`, `LimitHonoured`, `FillsAccountedFor`, `PriceTimePriority`, `PrintNeverOversold` |
| `order_touch` | 2 prices, quantities 1 and 3, 3 ticks, 2 orders, cash 60, slippage 1/10 | 129 thousand | `ListedWhileActive`, `TouchNeverOversold`, `OlderFirst` |
| `alpaca_fills` | 3 orders of 2 units | 97 thousand | `ReportedAtMostOnce`, `WorkingIsTracked`, `DroppedUpToDate`, `EventuallyReported` |
| `live_engine` | 2 orders of 2 units | 106 thousand | `IntentMatchesOrders`, `QuietSessionReconciles`, `EventuallyReconciled` |
| `live_feed` | ring of 3, 5 quotes | 29 thousand | `OnceInOrder`, `EveryQuoteAccounted`, `SessionEnds` |
| `thread_pool` | 3 workers, 1 caller, 4 tasks | 35 thousand | `NoLostWakeup`, `StartedInOrder`, `DrainedWhenGone`, `EveryTaskStarts`, `DestructorReturns` |
| `backtest` | 4 ticks, 2 symbols, 3 prices, times 0 to 5, interval 2 | 705 thousand | `BarsFaithful`, `BarsComplete` |
| `research` | 2 symbols, 5 days, window 2, 1 late bar, 1 dividend, 3 runs, 1 death | 504 thousand | `LiveReplay`, `ManifestIsLast`, `PaperEarnsNextSession` |
| `validation` | 6 versions of 2 names and 8 bars, 1 of 3 or 2 of 4 groups tested, 6 programs, 1 death; 2 configurations, 2 versions of the data | 45 thousand | `LeakFree`, `PathsTile`, `BetsKeepTheirSize`, `UncutTrialsLoad`, `SweepsRecover`, `DeflatesThisSweep` |
| `results` | 2 combinations, 2 runs of the engine, 2 curves without a stamp, 1 plot, 3 programs | 1.3 million | `NothingLost`, `SummaryCountsHeld` |
| `walk_forward` | as `research`, with 2 runs | | `AllocatorsEarnNextSession` is violated |

Type invariants are part of the proofs (`TypeCorrect`, `IInv`) and are not run
again.

Why the bounds suffice:

* Four slots and twelve index values let the ring be full and empty at every
  index, wrap, and hold batches of several elements while the producer laps; two
  values tell elements apart. The proofs remove the bounds.
* In `order_depth` a displayed quote of one share and orders of two make partial
  fills at rest, on arrival and by a print in the middle of the queue; three
  orders make a queue of two with a third arriving or replaced; two prices make
  sweeps over two levels; cash 3 lets some buys be paid and others not.
  `OrderManagerDepthProofs` removes the bounds.
* In `order_touch` two orders compete for one or two displayed shares; one tick
  has no offer at all, one is locked (bid equals ask). `SimulationProofs` removes
  the bounds.
* `alpaca_fills` has a chain of two replacements next to an independent order,
  with partial fills at each.
* `live_feed`: three slots and five quotes fill the ring while a batch is being
  handled, drop quotes, and go on after the slots are given back. Its deadlock
  check is off because a session ends. The proofs remove the bounds.
* `thread_pool`: three workers and four tasks let one worker sleep, one be woken
  and one run a task that enqueues, with more tasks queued than workers awake.
  Its deadlock check is off because a destroyed pool does nothing more. The
  proofs remove the bounds of the safety part.
* `backtest`: three intervals allow a gap without ticks, six times include every
  boundary, two symbols interleave, three prices give a bar whose open, high, low
  and close differ in every order four ticks allow. Its deadlock check is off
  because a run ends. `SimulationProofs` removes the bounds.
* `research`: two days are there at first, too few for a window, so that programs
  raise at their manifest with the other files written; the other three come while
  programs have run. One symbol may miss the third day or get its bar late, so that
  the fill is in the middle of a window of two rows; the dividend's ex-date is the fourth day,
  so it changes closes on both sides of a window. Three rows of states and a refit
  every second row put a refit between states. Three runs make a chain of a
  producer, a rebuild and a consumer of mixed files. The functions that stand for
  numerics tell all data apart that occurs. Its deadlock check, as those of the
  next two, is off because behaviours end at their bounds.
* `validation`: eight bars hold flips, re-entries, entries on the last bar and
  events of different names with interleaved windows; labels end by each of the
  three barriers; eight bars do not divide into three groups. An embargo of 13
  percent is one bar. Six programs make dataset, new signals, sizing, audit and
  judge in every order, with one of them interrupted. `ValidationRunProofs` removes the
  bounds of this run, as `ResearchRunProofs` does those of `research`.
* `results`: a pair that trades and a strategy that does not (whose log stays
  empty) in two runs; three programs are a mover, an organizer and an analyst, or
  two organizers of the same run and an analyst. One panel in place of four makes
  the comparison plot overflow with two strategies; of the two curves without a
  stamp one has a name the code spells out and one is skipped. The strategy is
  `SMA_20_50` in both runs, so that their curves have one key. `ConcurrencyProofs`
  removes the bounds.
* `live_engine` needs two orders for a buy and a sale, and two units for a
  partial fill. Its cfg turns the deadlock check off because a session ends.
  `LiveSessionProofs` removes the bounds of the safety parts of both.

Fairness. The ring: the consumer keeps draining (`LiveEngine::run_for` does in
every step) and finishes what it began; a drain eventually sees the current
write index. Nothing is assumed of the producer. The handler: polls are started
again and again and end, and an exchange about one order does not fail for ever
(strong fairness of `PollAnswered`), which is what "transient failure: retry on
the next poll" in the code relies on. Nothing is assumed of the venue or the
caller. The engine: steps end, by the HTTP client's timeout at the latest, the
loop's deadline comes, and `reconcile` goes through its list; no exchange is
assumed to succeed. The feed: exchanges and pauses end
and the loop's deadline comes; no exchange has to succeed and the venue need not
quote. The pool: a thread that wants the mutex gets it, a thread that
may run does, and tasks end; nobody has to use or destroy the pool. The backtest
and the Python programs have safety properties only: nothing makes anyone run
them, and each runs straight through or dies.

What the properties say, in short:

* Ring: a slot is never written while it is moved out; nothing is lost,
  duplicated, reordered or overwritten after it was accepted; what was accepted
  is taken.
* Depth book and manager: queue, positions, sizes and totals of each level agree;
  a limit order is live exactly when it rests, once, with its remaining size; no
  trade is beyond a limit; a print never gives more than it has beyond the
  displayed size; older orders at a price, and better prices, come first; the
  ledger differs from the orders by the unaffordable buys and nothing else.
* Touch manager: the live list is exact; several orders never share the same
  displayed shares; an older market order, or an older one with no worse a limit,
  is served first.
* Handler: no fill is reported twice, across replacements too; working orders
  stay tracked; an order is only forgotten when what it had executed is reported;
  fills are reported in the end although exchanges fail.
* Engine: while submissions are answered, flag and orders agree; if nothing
  disturbs the final sweep the books match; a session always reports.
* Feed: the strategy gets each quote at most once and in order; each good quote that
  was polled is handled, waiting, or counted as dropped; a session ends with its
  poll thread joined. Quotes pushed after the last drain stay in the ring.
* Pool: no wake-up is lost, also when tasks enqueue tasks and while the pool
  stops; tasks start once each, in order; the destructor returns, with every
  accepted task done and no thread left.
* Backtest: at every moment the strategy has had exactly the bars due, but for
  the one in progress: no bar is early, late, doubled, missing, or made of other
  ticks than those of its interval. An exception of the strategy costs the bar
  that its tick completed, and nothing else.

* Research: each row of each file, and each book filed, is what a run at the
  close of its own day would have computed, whatever bars and actions came later
  (`LiveReplay`, by replaying the row on `KnownBy`); a manifest is never newer than
  a file it describes; paper returns come from books that could have been traded.
* Validation: no label or window that trains a model reaches into what it is
  tested on, whatever prices had been there instead; every bar of every path is
  predicted once, by a split that did not train near it; a held bet keeps the size
  of its entry, flips included, and books stay neutral. A sweep that is killed, with
  a file half written or not, spoils only the trial in its hands: the others load,
  with the Sharpe ratio of their series (`UncutTrialsLoad`); until a sweep logs that
  trial again, `load_all` raises. The next sweep that gets to its end has written
  every file anew (`SweepsRecover`), and deflates series of its own data only.
* Result files: nothing that the engine wrote is lost or cut short by a mover
  before a clean-up; an organized run holds all that its summary counts. That the
  analysis of a run shows all of it is not so, and no property says it: see the
  findings.

## Findings

* `compare_allocators.py` lets weights estimated on rows up to t-1 earn the return
  of row t (`walk_forward`), which means trading at the very close that ends the
  window. `build_universe.py` states of the same rows that a consumer must not
  execute before the next session, which `baselines.py` obeys with its extra lag
  (`PaperEarnsNextSession` holds).
* Modelled, but not the property of a run: `load_equity_curves` of
  `analyze_organized.py` is said to "Load all equity curves from the organized
  directory." It keeps each under the symbol and the first word of the strategy,
  without the time stamp, and a later file replaces an earlier one with the same
  key (`Loaded`). The curves `equity_AAPL_SMA_20_50_<stamp>.csv` of two runs of the
  engine, or of `SMA_20_50` and `SMA_Crossover`, are all `AAPL_SMA`; one of them is
  analysed, and which one depends on the order of the directory. The logs are kept
  in the same way: of the 186 trade logs that the `run_summary.json` of
  `organized_runs/first_run` counts, its report shows 9 (some are empty).

## Proofs

What every proof about lists rests on is in two modules of its own. `FoldFacts` is about
`FoldLeft` for an arbitrary step, its constant `Op`: there is a function of the places
of the list that starts with the base, applies the step once per place, and ends
in the fold (`Along`). The library's fold is defined over the set of places, so what
`FoldFacts` shows first is that it visits them in order. Induction over 0..n is a
hypothesis there (`CountsUp`) and is proved once, as `Induction` of `ListsProofs`, so
that the instances do not each carry the library's theorems. `ListsProofs` instantiates it
for sums and filters (a changed, inserted or zero number; a rising list stays
rising), and the proofs of both managers instantiate it for their loops. A property
of a loop is then shown by induction on the number of steps taken, with a set of
the places up to which it holds, since the induction theorems of the library,
which take an operator, cannot be used.

Components that run beside one another share a module of proofs; the definitions
that would clash carry a prefix (`PoolInit`, `FeedSpec`, `filesVars`).

Of the ring, `ConcurrencyProofs` proves, for every capacity and index width that
`RingAssumption` allows: `TypeCorrect`, `IndicesOrdered`, `SlotRaceFree` and
`RefinesFifo`. The argument: seen from the producer's cached view and counted
around the circle, the six indices are in a fixed order (`IndexOrder`): cached
read index, read index, cursor, end of the batch, cached write index, write index,
within one capacity. A stale load moves a view only between its old value and
the current one, so the order survives every load; the fullness test keeps the
producer within a lap; the batch keeps the consumer behind the published index.
From the order, the slot being written and the slot being taken differ by less
than a capacity and are not the same index, hence are different slots. For the
refinement, the last step needs besides that the slot written but not yet
published holds the pushed value and that publishing or taking changes the
mapped sequence by exactly one append or one tail. Lemmas about the wrapping
subtraction carry the arithmetic.

`OrderManagerDepthProofs` proves, for any prices, quantities, ticks, initial cash and
number of orders, that the manager stays in order (`StaysInOrder`), and from that
`BookStaysConsistent`, `RestsOnlyWhileActive`, `LimitsAreHonoured` and
`FillsAreAccountedFor`. None of the four is inductive alone: a fill is bounded by what
the order lacks only because the queue holds just that, and the queue does so
only because the order left it when it was last filled or cancelled.

* *Invariant.* `InOrder` is `StateOK` of the state between two calls, with nobody in
  mid-call. `StateOK(s, T)` says of any state of the manager: orders and ledger
  are what the fills make them (`OrdersOK`, `LedgerOK`), the book is sound and has each
  order once and each displayed quote at the head of its level (`BookOK`), the list
  is rising and names the live orders (`Listed`), and the live limit orders rest,
  each with what it lacks; the orders of `T`, which are taking, are listed but do
  not rest.
* *Folds.* Every loop of the code is a fold: over levels, makers, rounds of a
  market and takers (`Heads`, `Makers`, `Rounds`, `Takers`, instances of `FoldFacts`).
* *Level, book.* Whoever joins at either end or leaves at any place, queue,
  positions, sizes and total keep agreeing (`SoundJoined`, `SoundLeft`); a queue id
  given out is new, so that ids and orders stay in one-to-one correspondence
  (`RestAdds`, `Unqueued`).
* *Fills.* While a level is consumed the orders reached lack more in the book than
  the records say. `Owing` counts what is owed and each credit settles one
  (`CreditStep`). `LedgerOK` bounds what the ledger lacks between the lowest and the
  highest price, which a buy that cash cannot cover keeps (`FillOK`). What is taken at a
  crossable price is within the taker's limit, and sums of such are (`WorthMore`).
* *Calls.* A call is a composition of these steps: `LimitSubmitted`, `OrderDropped`,
  `PrintConsumed`, `TickQuoted`, `MarketMatched`, one lemma each.

On the same invariant rest the two properties of what happens within a call,
`PriorityIsKept` (`PriceTimePriority`) and `PrintsAreShared` (`PrintNeverOversold`).

* *Priority.* The orders of a level stand in order of age (`Aged`), because who joins
  at the back is younger than all others, and who leaves keeps the others' order.
  So a consumed level gives to the oldest first (`OldestFirst`), and a taker's rounds
  go from the best level on (`BestFirst`). What one fold has served, the next one
  leaves served (`Serves`, `Reached`), and an order that gained has less in the book
  by just that (`GainMeansLess`): whoever is worse or younger gains only when the one
  before has nothing left.
* *Prints.* When no market order works, nothing but the level of the print gives
  anything (`NobodyTakes`), and what its orders gain is what the level gave up
  (`LevelGives`). A displayed quote is at the head of its level, so it has given all
  it had before an order gains. The sum over the set of orders is what those orders
  gave up of the list taken (`SumIsGiven`), and that is at most the print's volume.

Assumed (`DepthAssumption`): prices are positive whole numbers and have a highest,
quantities are positive, sizes and volumes are not negative. `LimitHonoured` and the
ledger bounds are about values, so no division enters.

`SimulationProofs` proves, for any prices, quantities, ticks, cash, slippage and
number of orders, with a touch or on ticks alone, `StaysInOrder`, `ListsTheLive`,
`TouchIsShared` and `OlderAreServed`. The last two are about what happens within one
call, of which the state before and after it says too little. `Trying` describes the
middle of the call, after the first k live orders: the rest is as it was, the touch
has lost on each side the sum of what orders of that side gained, nobody who does
not cross gained, and an order that crosses and is not filled has left nothing at
its touch. Size does not come back within a call, so whoever comes later on that
side gains nothing (`TryStep`). A market order crosses every quote, and a limit order
every quote that an order with a worse limit for the other party crosses
(`EagerCrosses`). Oldest first comes from the
list being in rising order, which submission keeps because ids grow, and every
unlisting keeps because it only filters (`KeptListed`). Assumed (`TouchAssumption`):
limit prices and quantities are positive, ticks hold natural numbers.

Of the backtest loop it proves, for any interval, symbols and sequence of ticks,
`BarsInHand`, `BarsAreFaithful` and `BarsAreComplete`. Between two ticks a builder
buffers and queues nothing (`Holding`), so a tick has one of three outcomes
(`Added`): it starts the first bar, is added to the bar in progress, or completes
it and starts another. The bar in progress is that of the last interval due
(`Building`); the strategy has the others, in order (`HandedOver`), but for the one
that an exception cost. What a bar says of all ticks of its interval stays true when
ticks of other intervals or symbols follow (`BarStays`), is restored by a tick of its
own (`BarExtended`), and starts true (`BarStarted`); `Multiples` and `Intervals` are the
arithmetic of boundaries and gaps. Assumed: the interval is positive
(`IntervalAssumption`), times are natural numbers, prices positive, volumes not
negative (`TicksAssumption`).

Of the feed, `LiveSessionProofs` proves, for any capacity and number of quotes, `FeedTypeCorrect` (with
the bound on the ring, which no run repeats), `QuotesOnceInOrder` and
`QuotesAccounted`. The feed remembers one stamp. The invariant `Filtered` says why
that is enough: whatever was pushed or polled is not newer than it, but for the
quote in the poller's hand, and the quote that the venue shows was polled if its
stamp is the one remembered. So a quote that passes the filter was never polled
before, and pushing it keeps the order.

Of the pool, `ConcurrencyProofs` proves, for any number of workers, callers and tasks,
`PoolTypeCorrect`, `WakeupsKept`, `InOrderOnce` and `DestroyedDrained`. The inductive
invariant is `PoolTypeOK`, `NoLostWakeup`, `StartedInOrder` and `WindingDown`. The
argument for the wake-ups is one of counting: a push adds one task and one
notification on its way; a notification that is delivered becomes a worker
awake; a worker that takes a task lowers both sides; a worker goes to sleep
only when the queue is empty. `WindingDown` (a worker leaves only a stopped pool
with an empty queue, and no outside caller is in the middle of a call then) is
what keeps a task from being pushed after the last worker has left: with it, a
push needs a running worker, which will look at the queue again.

`ValidationRunProofs` proves all six properties of the run, for every grid, any
number of versions, bars, groups and programs, and any classifier:
`TrialsLoadUnlessCut`, `SweepsAlwaysRecover`, `SweepDeflated`, `ScoresAreOutOfSample`,
`PathsTileTheBars` and `BetsAreKept`.

* *Registry.* No file of a trial is newer than the sweep that is at work, and the
  sweep has brought every configuration before its place in the grid to its own
  version, but for the one it has open again when the grid repeats it; of the
  trial in its hands the series is closed before the parameters are opened. Deaths
  may leave anything torn: `UncutTrialsLoad` is part of the invariant and confines it to
  `cut` and the trial in hand. At the end of the grid nothing torn or of an older
  version is left among what the sweep covers, and only configurations of the grid
  are ever listed (`SweptAreCurrent`), so that the deflation can load them all.
* *Files.* The rest of the invariant (`MetaInv`, `FilesInv`) says that every file was
  made from versions of the data that there have been. The other three theorems
  are then about any version, any dataset and any folds.
* *Leakage.* `LabelsLookNoFurther`: a label ends by its horizon, and two histories
  of prices that agree up to its end give it the same end and value. Purge and
  embargo leave an event in training only if its window ends before a tested
  window begins or starts after it (`TrainedApart`), so nothing behind a trained
  label is among the tested bars.
* *Paths.* Every bar is in one group (`OneGroup`); a group is tested by as many
  splits as there are paths (`TestedByEachPath`, a bijection of combinations that
  have it with those of one group fewer); combinations are listed once each, in
  lexicographic order (`FirstDifference`, `CombinationsInOrder`), so that the k-th
  split that tests a group exists and differs from path to path (`PathSplits`).
* *Sizes.* The event that covers a held bar is the entry of the run of equal
  positions that the bar is in, and the only one (`CoveringIsEntry`, `OneEntry`):
  a flip enters anew, so a held bet never takes the size of its predecessor.

Events and combinations are lists of finite sets in an order; `Ranks` (in a strict
total order an element's rank determines it, and every rank below the size
occurs) is what these arguments share. Assumed of the constants: finitely many
names, positions -1, 0 or 1, and folds with 1 <= k < n_groups, which `cpcv.py:63`
enforces.

Of the result files, `ConcurrencyProofs` proves `CountsHeld` and `ResultsKept` for all combinations, runs and
programs. Nothing but a clean-up takes a file out of the trees, and nothing takes
one out of an organized run; so what an organizer has listed is either to be
copied or in its run (`ListedIsHeld`), and it counts only when it has copied
everything. For the rows: a file outside has its rows or is still open
(`FilledOrOpen`), and open files are those of the combination at work
(`OpenIsWritten`); a rename moves both facts along.

`ResearchRunProofs` proves all three properties of the run, for every history of bars
and actions, any finite set of symbols, any window, lag and refit schedule, and any
numerics: `FilesReplayLive`, `ManifestsAreLast` and `PaperIsNotEarly`.

* *Rows.* `UniverseIsLive`, `ScoresAreLive`, `SignalsAreLive`, `BaselinesAreLive` and
  `RegimesAreLive` say of each kind of row that the data known at the close of its
  day give the same row. An adjusted close does change when an action is entered
  later; `FactorsKnown` says that of a return all factors of later actions cancel:
  what remains has its ex-date between the two bars. Forward fills look back only,
  so windows of the known part are those of the whole. Positions, refits and
  committed states are scans over rows in order: `InOrderPrefix` says that the rows
  up to a day are a prefix of all rows, and a scan's value at a row depends on the
  rows before it only.
* *Files.* The inductive invariant: nothing is of a day that has not come
  (`DataOK`), every file is of a run that has read its input (`RunsOK`), and of the
  files of the program at work exactly a prefix is of this run, the rest to be
  written (`WrittenInOrder`). `ManifestIsLast` alone is not inductive: when a
  manifest is written, the invariant knows that everything else of that run is
  there, as manifests end their program's list (`FilesOfPrograms`). A death leaves
  a prefix without the manifest.
* *Paper returns.* A weight file carries a date that is later than its signal's
  by the lag, and a paper return at least one row after that (`EarnsLater`).

`LiveSessionProofs` proves of the handler, for any set of orders and any quantity,
`TypeCorrect`, `NoDoubleReport`, `WorkingOrdersTracked` and `DroppedReported`. The
inductive invariant relates four views of an order: what is emitted and reported
of a tracked order is the same and at most what is executed; an order that does
not exist yet has nothing executed or reported; a known working order is tracked;
`toPoll` is part of the tracked orders. `ReportedAtMostOnce` alone is not
inductive: a replacement copies counters between orders and needs the equality
of emitted and reported for the order replaced.

Of the live loop it proves `EngineImplementsHandler`: every session is a
behaviour of `AlpacaHandler`'s specification, so that all that is proved of the
handler holds during a session (`SessionReports`). `FlagMatchesVenue`: as long as
submissions are answered, the flag says which side was placed last and the counts
of both sides at the venue; the invariant adds that only finitely many orders
were placed. `QuietEndReconciles`: while nothing has disturbed the end of the
session, whatever the handler forgot was fully reported, whatever the final poll
has visited is, and hence all that is left to reconcile (`QuietInv`).

Not proved but checked: liveness, which is out of the prover's reach
(`EventuallyReported`, `EventuallyReconciled`, `SessionEnds`, `EveryTaskStarts`,
`DestructorReturns`). The violated statement of `walk_forward` needs no
proof: TLC shows the counterexample.

## Not modelled

* ZeroMQ streaming but for its ring, bar and factor strategies, factor execution,
  toxicity signals: running statistics on reals and wiring around modelled parts.
* The factor library, readers, benchmarks, and scripts that read one file and plot
  or print (tearsheets, audits, studies, the pair search, converters, downloads):
  sequential numerics or I/O without state that another program depends on.
* Within modelled programs: the numerics themselves, plots, wording, and of
  `sample_uniqueness.py` the sequential bootstrap, of `meta_model.py` the feature
  importance, of `allocators.py` the allocators.

What would be worth adding next: the composition of the research weight files with
the engine's loader, and a lossy publisher for the tick stream.
