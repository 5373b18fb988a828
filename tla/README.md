# ngtest in TLA+

ngtest runs trading strategies against recorded market data: a *request* names a
strategy library, a space of parameters, the instruments and a period, and every
combination of parameters is one strategy instance that is replayed through all
the working days of the period.  This directory models the parts of it that are
hard to test: the threads that schedule the days, the simulated broker and its
books, the strategy that trades through it, the simulated clock and the ticks that
drive it, the cache of files they are read from, and the dispatcher that spreads a
request over servers.

Paths are relative to `src/`.

## 1. The system

| component | state | operations | talks to |
|---|---|---|---|
| **TestFixture** `backtestbed/testfixture.*` | the queue of an `io_service`, `current_date` of each instance, the count of days in memory, producer, fetch and worker threads | `Init`, `prepareMarketDataReplayer`, `processOneDay`, `addMarketDataStoreToMarketReplay`, `runDataOnDay`, `run` | polls DataCache, calls StartReplay in a worker |
| **FakeOrderManager** `backtestbed/fakeordermanager.*` | requests, orders, next request number, subscribers | `submitRequest`, lookups | called by the strategy; calls the position manager and the strategy's `onUpdateOrder` |
| **testPositionManger**, **CPosition** `backtestbed/testpositionmanager.*`, `interface/IPositionManager.h` | per instrument four queues of positions, last price, realized P&L, trade count; the account's cash | `onUpdateOrder`, `onMarketData`, `onStartDay` | called by the broker, the replayer and the clock |
| **FakeTimerProvider** `backtestbed/faketimerprovider.*` | date, time, timers of each consumer | `setTimer`, `cancelTimer`, `startDate`, `setNextTickTime`, `endDate` | calls the consumers, who call it back |
| **MarketDataReplayerMultiThread** `backtestbed/marketdatareplayer.*` | the merged ticks of one day | `addDataStore` (several threads), `StartReplay` (several workers) | drives the clock and the consumers |
| **DataCache** `backtestbed/datacache.*`, **MarketDataStore** `backtestbed/marketdatastore.*` | which tick files exist; the files | `addDataCacheRequest` (fetch thread), `getDataCache` (loading threads) | a database, the file system |
| **Network** `backtestbed/run/cookdata_main.cpp` | status of the servers, the working ones, the jobs | `HandleRequestNetwrok`, `splitRequest`, `asyncwork`, `recvbroadcastStatus`, `server` | UDP broadcasts, one TCP connection per job |
| **Parameter space** `util/util.cpp` | none | `parserProps` | makes the configurations of a request |
| **SingleStrategy** `strategy/SingleStrategy.*` | its own book of each instrument, the counter of its signals, `pre_tick` | `onMarketData`, `onTimer`, `onStartDay`, `onEndDay` | submits to the broker, reads the position manager, is called by clock and replayer |
| **TestConfigureManager** | registry of configurables | register, find | strategies |

Not part of the program's own logic, and not modelled: nullLogger, the library loader,
SimpleStrategy (its trading code is disabled), testbed (commented out), otlv4.h and
protobuf-2.6.1 (third party).  PROJECT.json lists every part with its status.

### What is hard, and what would make it right

* **Scheduling.**  The queue does not know that an instance's days are to be
  replayed in order and one at a time: a worker compares a date and reposts.  The
  strategy, its broker, its positions and its clock have no lock, so everything
  else rests on this comparison.  Right means: one replay per instance at a time;
  each day once, in order, none skipped; only with all its ticks; no more than 15
  days in memory; a worker leaves only when all is done; and the run ends.
* **Broker.**  The subscriber is called in the middle of a request and may submit
  another; a close is split in two orders; fills are matched first in first out
  and in part; the start of a day changes the queues it iterates over.  Right
  means: the books balance, a request is filled exactly or rejected whole, every
  order is announced and concluded, and no profit is banked twice.
* **Clock.**  Handlers set and cancel timers while the provider walks them.  Right
  means: nobody is called later than a timer he waits for, time does not go back
  within a day, a day's timers end with it, and the day ends.
* **Ticks.**  The loads of a day, a thread each, merge their ticks into one vector of
  pointers that are moved.  Right means: a day that is replayed has every tick of
  every file once, in order.
* **Files.**  A fetch may fail, or crash the process; a load may find a file of an
  older version, and rewrite it, or one of which only a part was written.  Right means:
  nobody reads a file that is being written, only unreadable files cost days, and every
  day that can be read is replayed.
* **Strategy.**  It keeps a book by what it asked for, not by what was filled, beside
  the broker's; in one tick it may enter, exit and liquidate, each step reading the book
  the steps before it changed; it and the position manager are called in the order of
  their addresses.  Right means: the two books agree up to what the strategy dropped on
  purpose, it is never on both sides, does not close what it has just opened, is flat
  once it has liquidated, and keeps no pointer into ticks that are freed.
* **Network.**  Jobs end in any order, a server may go down, a session may fail or
  answer with nothing, the threads work on the dispatcher's locals.  Right means: each
  configuration is given away once, a result that is returned lacks no more than what was
  answered with nothing, no idle server is passed over for ever, and the request ends.

PROJECT.json lists these hazards line by line with the properties that cover
them.

## 2. The modules

| module | models | composed with |
|---|---|---|
| `Calendar` | days, weekends, `getNextWorkingDay` | used by the next three |
| `BacktestSchedule` | *abstract*: what TestFixture promises of the days | |
| `TestFixture` | the threads of `testfixture.*` | implements `BacktestSchedule` |
| `DataCache` | fetch thread, tick files, loads that fail, restarts | extends `TestFixture`; implements `BacktestSchedule` between restarts |
| `CPosition` | operators: the book of one instrument | used by the next |
| `FakeOrderManager` | broker and position manager of one instance | |
| `SingleStrategy` | the strategy and its instance's replay | extends `FakeOrderManager` |
| `FakeTimerProvider` | the clock of one instance, driven by `StartReplay` | |
| `MarketDataReplayer` | the loads of a day and their merge, then `StartReplay` | extends `FakeTimerProvider` |
| `NetDispatch` | dispatcher, status listener, servers, job threads | |
| `ParamSpace` | `parserProps` | |
| `..._proofs` | theorems about the module of that name | those of `DataCache` and `SingleStrategy` build on those of the part they extend; `MarketDataReplayer_proofs` also has those of `FakeTimerProvider` |
| `Folding` | lemmas about folds, sums and flattened sequences | used by the proofs about broker, ticks, dispatcher and parameters |
| `MC...` | the constants of the TLC instances | |

Definitions have the names of the code where they model a function, and "map" in
PROJECT.json gives the lines of each.  Definitions marked *Mutant* in a comment are
plausible bugs of the definition after them: TLC finds the property that each is
paired with violated when it takes the place of the correct one.

### TestFixture

A date is a day number (day 0 is a Sunday): the code converts yyyymmdd to a
calendar day for every step it takes, and only order and weekday matter.

`producer` is where `local_IOthread` is: it takes the *next* date, skips weekends
(`SkipWeekend`), waits for room (`PassMemoryCheck`), starts `processOneDay`
(`StartDay`), lets one thread per instrument poll the cache (`LoadInstrument`),
joins them (`JoinLoads`), posts one task per instance (`PostTask`) and drops its
reference (`ReturnFromProcessOneDay`).  The code means to start `processOneDay`
asynchronously, but discards the future, whose destructor waits: the days are
prepared one after another.  `EndOfPeriod` and `DeleteWork` end the thread.

`worker[w]` is where a worker is: `TakeTask` (in `io_service::run`), `Decide` (the
comparison of the dates), then `FinishReplay` or `RepostTask`, `ReleaseTask` (the
handler's copy of the `shared_ptr` goes) and `ExitRun`.  `Decide` is a step apart
from taking and from writing `current_date`, so all the orders of two workers on
one instance are there.  `current_date` is a plain integer; the race on it is the
order of `Decide` and `FinishReplay`.

`dayInMemoryCount` goes down in whichever step drops the last reference to a day
(`Drop`), which the model computes from who holds one.  `stores` has the ticks: whose are in
which day's replayer, put there by a load and gone when the day is freed.

`CacheFile` is the fetch thread: any file of `Fetchable` appears at any time; what
is not in `Fetchable` never does.  In this module every cached file can be read;
`DataCache` takes that back.

### DataCache

`TestFixture` with a fetch thread and files in place of its `CacheFile`.  `files` is
what is on the disk: nothing, a whole file, one of the older version, or a *torn* one of
which a part was written.  `cached` is `cache_status`, which the start of the process
fills from the names of the files (`FilesByName`), whatever is in them.

`fetcher` walks days and instruments as `addDataCacheRquetMSSql` and `getDataFromMSSql`
do: `Login` may throw and the walk goes on; a file that is not cached is queried, saved
and entered in `cache_status` in three steps (`Query`, `SaveFile`, `SetStatus`);
`QueryThrows` leaves the day; `LogOff` closes the connection after the first day that is
walked to its end, so that no later day is fetched; and a day of two ticks or more
dereferences a pointer that was moved away (`QueryCrashes`): the process is gone between
two files.

A load takes a whole file (`LoadWhole`), throws on a torn one (`LoadTorn`) or reads an
old one and writes it again in place (`RewriteOld`, `FinishRewrite`), which may throw and
leave a part of it (`RewriteThrows`).  `AbandonDay` is the
exception that leaves `processOneDay`: the day is freed, not posted, and the producer goes
on, because the future that holds the exception was dropped.  `Restart` may come between
any two steps: all that is kept is `files`.  `PeriodAssumption` says that a period does
not end before it starts: the fetch thread compares by `!=` and would walk for ever.

### FakeOrderManager and CPosition

`calls` is the stack of the `submitRequest`s under way: each is waiting for the
subscriber to return from `onUpdateOrder`.  `submitRequest` runs to its first call
(check, split, number, record and announce), `FillOrder` is what follows the
subscriber's return from a *new* order (fill in full at the order's price, book,
announce), `NextOrder` goes on to the second order of a split close, `Return`
leaves.  While `calls` is not empty another `submitRequest` may come, which is a
subscriber that submits from its callback.  `onMarketData` and `onStartDay` are the
position manager's other handlers and only happen between requests.

A position is four sequences of `[price, qty]`.  `tradeMatchPos` and `resetPnl`
are folds that do what the loops do, item by item.  The 64-bit ids are pairs of the
request's number and its low word, because the second order's `+ 1` goes there.
`told`, `flow`, `net`, `unmatched` and `reentered` are history variables; no action
reads them.  `Carried` are books a strategy may set up before its first day through
`getPosition` (as the commented code of SingleStrategy does): the program itself
never fills a queue of yesterday's positions, so the code about them would
otherwise not run at all.

### SingleStrategy

`book` is the `Instrument` of each instrument: quantities, their cost, the counter
(`opp`), the day's P&L and trades.  A day is `startDay`, ticks and `endDay`; in each of the
three the two consumers, strategy and position manager, have a `turn`, in either order,
the order of their addresses.

`onMarketData` is `skipTick` (its early returns) or `takeTick` followed by its steps 1 to
6: enter short and long, exit, liquidate.  `giveOrder` is the next of them that gives an
order, which submits a request to `FakeOrderManager`; the broker's own steps follow; then
`bookOrder` changes the strategy's book, whatever the broker did; `endOfTick` is reached
when no later step gives an order.  Each step reads the book the one before it left.

The averages, spreads and weights behind the decision come down to which sides
`onMarketData` is in favour of, the sign that moves the counter, and a jump of the price
against `pre_tick`, at which an equity position kept overnight is dropped from the book
(`Adjusted`): any combination the comparisons allow may come.  The timers only feed those
averages, so they are left out.  Prices are integers, so an average price is an integer
division; with the one order that `max_pos` allows it is exact.  `orphaned`, `clean`,
`entered`, `liquidated` and `marked` are history for the properties.

### FakeTimerProvider

`pc` says where the provider is; in one of the four callbacks (`onStartDay`,
`onTimer`, `onMarketData`, `onEndDay`) the consumer it is calling may set and cancel
its timers any number of times.  `firing.stored` says whether the timer that fired is
still the object in the table, which matters after a handler cancelled it.  The order
of the consumers is that of their addresses.  A `day` is kept in each timer for the
properties.  The timers of a consumer live in a map by event, so a second
`setTimer` of an event changes nothing; that is the guard of `setTimer`.

### MarketDataReplayer

`newReplayer` gives a day its files, `addDataStore(inst)` is a load: `lock`, `merge` (into
a vector of its own) and `swap` are steps of their own, since `allTicks_` is read in one
and replaced in the other.  `Merge` takes of two ticks of one time the new one first, as
the code's loop does, so the order of the loads decides; `taken` counts what the loop has
taken from the first vector.  `StoresAssumption` says that a file's ticks are its
instrument's and sorted, as `MarketDataStore` sorts them.  `StartReplay` hands the times to
`FakeTimerProvider`.  The loads of a day happen before the replay of it and share nothing
with the replay of another, so they are put between the days.

### NetDispatch

`hearStatus` is a datagram of a server, `scan` and `dispatch` are the two halves of
the dispatcher's loop, `acceptSession`/`endSession` the server, `finishWork` the end of
`asyncwork`, `mergeResult`/`throwFailure` the
loop over the futures and `leave` the destruction of the locals.  `crash` is the
environment.  A job is answered in full or with nothing: where the strategy cannot be
loaded `TestFixture::Init` returns early and the rest of the request runs on no instances,
and `recvMessage` takes an empty or unparsable reply as it is.  `failJob` is a server that is
down or a session that throws, which the server survives.  A server whose `share` of a request
rounds down to nothing (`cookdata_main.cpp:432`) is sent empty jobs as in the code, `MaxEmpty`
of them at most.  A scan is one step: the code iterates over maps that other threads
write, which has no defined outcomes to enumerate.

### ParamSpace

One step per property of `parserProps`'s loop; a value is its index.

## 3. The runs

`tlc -config X.cfg M` in this directory; all end in less than three minutes.

| run | instance | shows |
|---|---|---|
| `TestFixture` | 3 workers, 2 instances, 2 instruments, Fri-Mon-Tue-Wed, limit 3; symmetric in workers and instruments | all safety properties of the scheduler and that it implements `BacktestSchedule` |
| `TestFixtureLive` | 2 workers, limit 2, fair | `RunReturns`, and the fair abstract schedule |
| `DataCache` | 2 workers, 2 instances, 2 instruments, Sun-Wed, 3 directories to start from, 1 restart, fair | the files' properties; days in order and none lost under failures |
| `FakeOrderManager` | 1 instrument, 2 prices, 2 quantities, 3 requests, nesting 2, 1 new day, 3 carried books | the broker's and the books' properties |
| `SingleStrategy` | 1 instrument, 2 quotes, 2 configurations, 4 times of day, 2 days, 3 requests, both orders of the consumers | the strategy's properties |
| `MarketDataReplayer` | 2 instruments, 3 pairs of files; 2 consumers, 2 events, delays 1 and 2, 2 days, fair | the ticks' and the clock's properties |
| `NetDispatch` | 2 servers, 3 reports, 3 configurations, `task_factor` 0.75, 1 crash, 1 empty job, fair | the dispatcher's properties |
| `ParamSpace` | up to 3 properties of up to 6 values | coprime pairs are complete |
| `FakeOrderLookup`, `FakeOrderSell`, `NetDispatchBusy`, `ParamSpaceTest` | as above | disagreements, section 5 |

Why the bounds are enough: two workers are needed to meet on one instance and a third
to hold a day while two do; two instances to have tasks overtake one another; four
days with a limit of three (or two) to reach the limit and pass a weekend.  Three
requests are an open, a close that nests inside another, and a close of both queues;
the carried books give two items to match in part and a position on each side.  Two
consumers with two events give every order of two timers, one repeating, one
cancelled by the other's handler; the days include an empty one, two ticks at one
time, and a tick after the last second, from two files that overlap.  A Sunday start
passes the weekend rule of the period's first day; the three directories (empty, a day of
the older version, all but one file) meet every branch of the fetch and of the loads, and
one restart leaves every mixture of files they can leave.  The strategy's four times of day
are in a session, in a pause, between exit and liquidation, and after it; two configurations
are one that stays overnight and one that does not; three requests are an entry, its exit
and an entry on the other side or the next day.  Three configurations over servers
with a share of none or two give an empty, a partial and a last job, more jobs than
servers, and two jobs at one server.

Deadlock is not checked: every one of these programs ends, and the models stop with
them (or at their bounds).  The liveness properties say that they end where they should.

### Properties

*TestFixture*: `OneReplayPerInstance`; `MemoryAccounting` (the counter equals the days
held and stays within the limit); `EachDayOnce` (a posted day not replayed is in
exactly one place); `ExitMeansComplete`; `ReplayOnlyLoadedDays` (a day in replay has the ticks of every
instrument, each load having been joined, and is not freed under its other tasks);
`FollowsSchedule`
(refinement, `running` being the set of replays under way); `RefinesFairSchedule`
(no day is overtaken for ever by the reposting); `RunReturns`.

*DataCache*: `NoHalfWrittenFile` (a cached file is torn only if the process found it so or
its own load is writing it); `MissingOnlyUnreadable` (when workers have left, each missing
day has a file that cannot be read); `DaysInOrder` (refinement, restarts excepted);
`ReadableDaysReplayed` (liveness: the days up to the last readable one are replayed,
whatever later files do).

*FakeOrderManager*: `Ledger` (cash, realized P&L and the cost of the open positions
are the money that flowed, and open quantities are bought less sold, as long as no
close went unmatched); `UnmatchedOnlyReentrant` (which only a subscriber that submits
from its callback can make happen); `FilledAsRequested`; `EveryOrderConcluded`;
`NothingBankedTwice`.

*SingleStrategy*: `BookBacked` (what the strategy holds the broker holds, the rest being
what it dropped); `NoOrderRejected` (which is why it need not look); `OneSided`;
`NoRoundTripInTick`; `LiquidatedStaysFlat`; `ResultLinesAgree` (the strategy's trades and
P&L of the day against the position manager's); `MarkedAtLastTick`; `PreTickOutlivesDay`.

*MarketDataReplayer*: `DayInOrder`, and of the clock `NoTimerOverdue`, `ClockRunsForward`, `TimersOfTheDay`, `DayEnds`.
`ClockRunsForward` has the one exception the code has: a tick after 23:59:59 is
followed by the end of the day at 23:59:59.

*NetDispatch*: `EachConfigOnce`; `ResultAccounted` (a result that is returned lacks exactly
the configurations of the jobs that were answered with nothing, and no job failed: the code
cannot tell such a result from a complete one); `SkippedHasWork` (a server the scan passes
over has a job that has not succeeded); `RequestEnds`.

*ParamSpace*: `CoprimePairsComplete`.

### Fairness

Weak fairness of each thread that the code runs: the fetch thread while there is a file
it will get, the producer, each worker (`TestFixture`; `DataCache`: the same while the process lives, a load being a
step of the producer that waits for it); the one thread of a replay,
with callbacks that return (`MarketDataReplayer`: the consumer's calls have no fairness,
the provider's steps do); the dispatcher, every job's thread and connection, and the
broadcasts, which come every second (`NetDispatch`).  No fairness on crashes, on restarts or on
what a consumer does.  `RequestEnds` also assumes that servers do not go on reporting no
load, or too few cores for a share (`Useful`): the code multiplies cores by *load*, and a
server with none is never chosen (on Linux every server reports 0.0).  And it assumes that a
connection ends, by a reply or an error: the client has no timeout (`cookdata_main.cpp:467`), so
a host that vanishes without closing its sockets is waited for for ever.  A worker that takes a task too early does not starve the
others: the queue is first in, first out, so weak fairness suffices and no strong
fairness is assumed.

## 4. What is proved

All proofs are checked by TLAPS and hold for every value of the constants that the named
assumptions allow; TLC evaluates those assumptions on every run.

| module | theorem | states |
|---|---|---|
| `TestFixture_proofs` | `TypeInvariant` | `TypeOK` |
| | `ScheduleInvariant` | the inductive invariant `ScheduleInv` |
| | `MutualExclusion` | `OneReplayPerInstance` |
| | `CompleteAtExit` | `ExitMeansComplete` |
| | `OneCopyOfEachDay` | `EachDayOnce` |
| | `ReplaysAreLoaded` | `ReplayOnlyLoadedDays` |
| | `MemoryCounted` | `MemoryAccounting` |
| | `Refinement` | `FollowsSchedule` |
| `DataCache_proofs` | `NoPartialReads` | `NoHalfWrittenFile` |
| | `MissingDaysExplained` | `MissingOnlyUnreadable` |
| | `LoadedThroughFailures` | `ReplayOnlyLoadedDays` |
| | `DaysStayInOrder` | `DaysInOrder` |
| `FakeOrderManager_proofs` | `BrokerInvariant` | the inductive invariant `IInv` |
| | `TypeCorrect` | `TypeOK` |
| | `BooksBalance` | `Ledger` |
| | `ChecksSuffice` | `UnmatchedOnlyReentrant` |
| | `OrdersConclude` | `EveryOrderConcluded` |
| | `RequestsFilled` | `FilledAsRequested` |
| | `BankedOnce` | `NothingBankedTwice` |
| `SingleStrategy_proofs` | `StrategyTypeInvariant` | `StrategyTypeOK` |
| | `BooksOneSided` | `OneSided` |
| | `NoRoundTrip` | `NoRoundTripInTick` |
| | `LiquidatedForTheDay` | `LiquidatedStaysFlat`, for `max_pos = 1` as in the program |
| | `PreTickSafe` | `PreTickOutlivesDay` |
| | `StrategyInvariant` | the inductive invariant `StrategyInv` of strategy and broker |
| | `BrokerUnderStrategy` | `IInv`, of the broker the strategy trades through |
| | `OrdersAccepted` | `NoOrderRejected` |
| | `BooksBacked` | `BookBacked` |
| | `ValuedAtLastTick` | `MarkedAtLastTick` |
| | `ColumnsAgree` | `ResultLinesAgree`, for `max_pos = 1` |
| `MarketDataReplayer_proofs` | `ProviderTypeInvariant` | `FakeTimerProvider`'s `TypeOK` |
| | `TimersOnTime` | `NoTimerOverdue` |
| | `TimersEndWithDay` | `TimersOfTheDay` |
| | `ClockForward` | `ClockRunsForward` |
| | `ReplayerInvariant` | the inductive invariant `MergeInv` |
| | `ReplayerTypes` | `ReplayerTypeOK` |
| | `DaysInOrder` | `DayInOrder` |
| | `ReplayerDrivesProvider` | the replayer implements `FakeTimerProvider`'s `Spec` |
| | `TimersOnTimeInReplay`, `TimersOfTheDayInReplay`, `ClockForwardInReplay` | `NoTimerOverdue`, `TimersOfTheDay` and `ClockRunsForward` of the composition |
| `NetDispatch_proofs` | `DispatchTypes` | `TypeOK` |
| | `NoIdleSkipped` | `SkippedHasWork` |
| | `ConfigsOnce` | `EachConfigOnce` |
| | `AllAccounted` | `ResultAccounted` |
| `ParamSpace_proofs` | `ParamSpaceInvariant` | the inductive invariant `WrittenInv` |
| | `PairsComplete` | `CoprimePairsComplete` |

**Folds.**  The loops over queues, sequences and maps are folds of the community modules.
`Folding` proves what such a fold computes for sequences of every length and finite sets of
every size.  No fact in it has an operator for a parameter: the steps of a loop are a
sequence of functions, its intermediate results a *run* of them (`IsRun`), and induction is
over a set of numbers (`UpTo`) or over the subsets of a finite set (`AllSubsets`).

**Scheduler.**  `OneReplayPerInstance` is not inductive: a worker that decides to
replay might find another already replaying.  What prevents it is that two *different*
days of one instance cannot both be the instance's next day, and that no day is there
twice.  So `TaskInv` follows every task from its post until it was replayed (*live*):
a live task is in one place, a position of the queue (`QueuedOnce`) or one worker
(`HeldOnce`, `HeldNotQueued`); it is a posted working day after its instance's date
(`TasksPending`); a day in replay is its instance's next (`ReplaysNextDay`); posting makes
a new task because no instance is ahead of the producer (`BehindProducer`).  `ScheduleInv`
adds that a posted day that was not replayed is live somewhere (`NothingLost`), so that when
nothing is queued and nobody is busy everything was replayed.  The lemma
`NextWorkingDayIsFirst` relates the code's `getNextWorkingDay` to the abstract "first
working day after".  Each action has a lemma; `DecideImplementsBegin`,
`FinishImplementsEnd` and `OtherStepStutters` map the steps to the abstract ones.
`MemoryCounted` rests on an invariant that says which days are held and that the producer
has room for the one it starts; `ReplaysAreLoaded` on `LoadedInv`: the loads that
are done have added their ticks, and every day that is held beside the producer's has all of
them; a day's ticks only go with its last reference (`DropKeepsHeld`).  With loads that throw and
days that are abandoned it is `LoadedThroughFailures` of the next module.

**Files.**  An abandoned day is never posted, so `NothingLost` is false here, but
`TaskInv` is kept by every step all the same, a step that loses no posted task being enough
(`NoTaskMoved`, `NoneSkipped`).  `CacheInv` adds where the fetch thread and the loads may be
writing (`FilesInv`), that a load only fails on a torn file (`FailedOnTorn`) and that a
working day the producer has passed without posting has an unreadable file
(`LostUnreadable`).  It keeps the scheduler's `LoadedInv`, as an abandoned day is one that nobody but
the producer holds (`AbandonKeepsLoaded`).  A restart re-establishes it from any files.

**Broker.**  `IInv` is what holds between any two of the broker's steps, with other
requests of the subscriber in the middle of one.  `Ledger` alone says nothing of the trade that is about to be
booked.  It is enough for money, whatever a trade matches; that positions and net flow agree also
needs that a close finds what it is to match, so `CoveredOK` says that, unless a request came
from inside a notification, the queues still cover what the call under way has to close, and
`CallsOK` what each call still has to fill, order by order.  `Numbered` says that no id is given twice; `OrdersOK`
what an order's stage, its request and what the subscriber was told of it say of each other;
`ConcludedOK` that a request no call is working on was refused or is filled by as much as was asked for.  Below them are the
lemmas about one position: `tradeMatchPos` keeps of a queue what it does not match
(`MatchSpec`), `addTrade` moves the book by the money of the trade (`AddTradeBooks`), and a roll
changes the cost of what is held by exactly what it reports as the day's profit
(`ResetSpec`), so that what was banked is not in the next day's (`BankedOnce`).

**Strategy.**  The properties of its own book do not depend on what the broker does, so all
the broker's and the position manager's steps are taken together as steps that leave the
strategy's variables alone.  `NoRoundTrip` needs `EnteredHeld`: after an entry the book is
on the side the counter is on, by the threshold, so neither exit's condition holds and it
is too early to liquidate.  `LiquidatedForTheDay` needs `LiquidatedSoFar`, what steps 5 and 6
have closed, and that with one order per side a liquidation closes all of it;
`ConfigAssumption` orders the times of day.

**Strategy and broker.**  `BookBacked` speaks of the moments between requests and is far
from inductive: a request is filled in one or two pieces while the book stands still.
`StrategyInv` therefore counts what the request under way has moved so far
(`Backed`: a side of the position is the book's, what the book forgot, and `Moved`).  That a
fill moves it by its whole amount needs that nothing goes unmatched, hence the broker's `IInv`,
and that no request comes from inside a notification (`Calling`): the strategy has no
order while another is under way.  That the broker takes the request at all is the
other half: what the strategy closes, its book has, so the broker has it (`Backed`), and the amount
is one that is submitted because books are in whole orders (`WholeOrders`).
`NoOrderRejected` and `BookBacked` are parts or consequences; with `IInv` every property of the
broker that follows from it alone holds in the strategy's run, which has ticks and days
instead of an arbitrary caller.

`MarkedAtLastTick` needs where the day's tick has got to (`MarksOK`): a position's price is
the last tick's once the position manager has had it, or nothing was held before the tick.
`ResultLinesAgree` compares two ways of accounting, reset by two consumers in either order.
`ColumnsOK` has what each column is on every step of the day: the position manager's
realized P&L less the cost of what it holds (`Book`) and the book's P&L less its cost
(`OwnBook`) differ by the money of what the request under way has moved (`MovedMoney`),
the trades by its amount; before both consumers have started the day each has its own part of
this (`Started`).  The identity holds however the average price of an exit is rounded.  What
rounding could spoil is only that a book that is flat might keep a rest of its cost; with
one entry per side the average is exact (`AtOnePrice`), and this is where `max_pos = 1` is needed.

**Clock.**  The invariant `ProviderInv` puts every pending timer at or after the clock, the
clock at or before every tick to come, and the target at the first of these.  That there *is* a first timer
among those pending (`NextTimerExists`) is the minimum of a well-founded order, from the
library's `WFMin`.  `TicksAssumption` asks that a day's ticks be in order.

**Ticks.**  What `Merge` returns is proved for vectors of every length: it is in order if
both were (`MergeInOrder`), and what it has of an instrument is what the one vector that has
ticks of it had, in the same order (`MergeOwn`, `MergeOthers`).  `MergeInv` says which files
are merged (`MergedOf`) in `allTicks_` and in the vector a load is about to swap in, and
that only the load that has the mutex is inside.  With it every vector that
reaches `StartReplay` is a day that `TicksAssumption` allows, so the replayer implements the
clock's specification (`ReplayerDrivesProvider`) and has its properties, with nothing assumed
of what is merged.

**Dispatcher.**  `DispatchInv`: what the jobs were given, one after another, and what is still
to be given away are the request (`Divided`; lemma `SplitKeepsAll`: no split loses one, of
whatever size the share, none included); what the collected jobs were given is in the result or
in those of them that were answered with nothing (`Accounted`), as each answer is merged with
its job (`AccountedMore`); each of them succeeded, and a job that has ended takes no step;
nothing is left to give away when the collecting starts.  `SkippedHasWork` is inductive: the
step in which a job succeeds is the one that takes its server out of the set.

**Parameters.**  `WrittenInv`: configuration number i (from 0) has the remainder of i by
the number of a property's values, for each property written.  That every pair of values of two
properties is among them is the Chinese remainder theorem (`ChineseRemainder`), proved from the
least positive combination of two numbers (`CombinationOfOne`) because there is no library for
it, and that the list is long enough to have it (`RoomForPairs`): its length is the product of all the numbers
of values (`TotalIsProduct`).

Before it was proved, every inductive invariant was an invariant of the TLC run of its
module (`IInv` over 1.4 million states, `StrategyInv`, `MarksOK` and `ColumnsOK` over two million).
Every safety property of the passing runs is the statement of a theorem.

Assumptions: naturals for counts, dates, times and limits, integers for money; no name that
stands for "none" is a real one; the instruments are finitely many; `PeriodAssumption`, `TicksAssumption`
and `StoresAssumption` as said above; `ReportsAssumption`: cores and load are numbers, no more; `CarriedAssumption`: nothing was opened or realized before
the first day; `NothingCarried`: a strategy that is a SingleStrategy sets up no positions
at all before it.  `LiquidatedForTheDay` and `ColumnsAgree` are for `max_pos = 1`, the
value the program gives it.

Only model-checked: liveness (`RunReturns`, `ReadableDaysReplayed`, `DayEnds`, `RequestEnds`) and
the fair refinement `RefinesFairSchedule`, because TLAPS here proves no liveness.

## 5. Disagreements found

* `FakeOrderLookup`: the lookup by request id misses the second order of a split close
  (`fakeordermanager.cpp:47`), where the interface says a request may have many orders.
* `FakeOrderSell`: the roll of today's longs works on a copy
  (`testpositionmanager.cpp:125`), so a security bought on one day can never be sold.
* `NetDispatchBusy`: with no idle server the last one chosen gets the next job
  (`cookdata_main.cpp:430`).
* `ParamSpaceTest`: lists whose lengths share a divisor are not combined in full
  (`util.cpp:103`).

## 6. Not modelled, and the plan

Left out of the models on purpose: text, logging, prices as floating point, message
encoding, loading of the strategy library, the data races on `std::map` and on
`cache_status` (undefined, no outcomes to enumerate), 32-bit overflow of times, more than
one data source (the second `swap` in `TestFixture::Init` would destroy a running thread),
a machine that reports no cores, which would have no workers, and a period that ends before
it starts.  What two threads in `allready_working_node` at once may do is of the same kind as
the races on the maps.  Of SingleStrategy the arithmetic of its averages is left out, and with it its
timers; of the broker `MakeOrderTrade` and `onStartDay`, which only a test or nobody calls.

Limits of what is shown:

* `setTimer` takes any delay; the model's `Delays` are positive, as all in the repository
  are.  A timer of delay 0, or one repeated every 0, is not modelled; the second would keep
  `advanceToTime` in its loop for ever.
* `ParamSpace` has no list without values, for which the product is 0, and an unbounded
  product where `util.cpp:87` has a `uint32_t` that wraps.
* `MarkedAtLastTick` speaks of a strategy that is called before the position manager.  The
  order in which `testfixture.cpp:146` allocates the two usually gives the other.
* `RollQueue` goes over the items a queue has when the loop of `resetPnl` starts; the code
  changes the queue under its iterators, which is undefined.
* `QuantityAssumption` leaves out requests for a quantity of 0, which the broker does not
  refuse.
* `takeTick` relates the signal to the favoured side for a positive `self_bp`, which
  `SingleStrategy.cpp:533` does not guarantee for negative parameters; no property depends on
  it.
* `FilesByName` leaves out the test of the instrument's index at `datacache.cpp:52`: every
  instrument that has a name passes it.
* Hosts that vanish without a word, servers that go on reporting no load and shares of
  nothing are where `RequestEnds` says nothing, and the code waits for ever.

`TestConfigureManager` is a map that one thread fills before it reads it, and
`SimpleStrategy` returns before it trades: there is nothing in them that could go wrong in a
way a test would not show.  Nearly all of the repository's lines are third party (protobuf,
OTL) and no part of this program's behaviour.

Done: scheduler with its abstract specification and theorems; broker and books; clock;
ticks; files and restarts; strategy; dispatcher; parameter space.  What could follow:

1. Several strategy instances over one position manager's account, if the program comes to
   share one.
2. The broker's `MakeOrderTrade` (partial fills), once something calls it.
