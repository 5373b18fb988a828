----------------------------- MODULE TestFixture -----------------------------
(***************************************************************************)
(* The scheduler of a backtest (backtestbed/testfixture.cpp, .h).          *)
(*                                                                         *)
(* A producer thread walks the days of the request, loads each working     *)
(* day's ticks into memory from the files the fetch thread leaves in the   *)
(* cache, and posts one task per strategy instance to an io_service.  The  *)
(* worker threads run the tasks.  Nothing in the queue says that an        *)
(* instance's days must be replayed in order or one at a time: a worker    *)
(* that takes a day too early puts it back at the end of the queue.        *)
(***************************************************************************)
EXTENDS Calendar, Sequences, FiniteSets

CONSTANTS NumInst,         \* allStrInst.size()
          Workers,         \* the threads in io_.run()
          Instruments,     \* datasrc[0].instruments
          StartDate,       \* the period is StartDate .. EndDate - 1
          EndDate,
          MaxDayInMemory,  \* 15 in the program
          Fetchable        \* the <<instrument, date>> files DataCache ends up with

ASSUME NumInstAssumption == NumInst \in Nat
ASSUME DateAssumption    == StartDate \in Nat /\ EndDate \in Nat
ASSUME MaxDayAssumption  == MaxDayInMemory \in Nat \ {0}

Insts == 1 .. NumInst
Tasks == [inst : Insts, date : Int]

VARIABLES
  cached,            \* DataCache::cache_status, as getDataCache answers it
  producer,          \* where local_IOthread is
  date,              \* the day the producer is at
  loaded,            \* the instruments of that day whose load has returned
  postIdx,           \* the next instance to post that day to
  queue,             \* io_'s queue
  worker,            \* where each worker is in runDataOnDay
  task,              \* the arguments of its current runDataOnDay
  current_date,      \* TestInstGroup::current_date
  stores,            \* the <<instrument, date>> added to the day's replayer, and not freed
  dayInMemoryCount   \* the atomic counter of the days in memory

producerVars == <<producer, date, loaded, postIdx>>
workerVars   == <<worker, task>>
dataVars     == <<stores, dayInMemoryCount>>
vars == <<cached, producer, date, loaded, postIdx, queue, worker, task,
          current_date, dataVars>>

NoTask == [inst |-> 0, date |-> 0]

\* In a handler, and holding its copy of the arguments.
Busy(w) == worker[w] \in {"decide", "replay", "repost", "release"}

TypeOK ==
  /\ cached \subseteq Fetchable
  /\ producer \in {"next", "start", "load", "post", "finish", "done"}
  /\ date \in Int
  /\ loaded \subseteq Instruments
  /\ postIdx \in 1 .. NumInst + 1
  /\ queue \in Seq(Tasks)
  /\ worker \in [Workers -> {"idle", "decide", "replay", "repost", "release", "exited"}]
  /\ task \in [Workers -> Tasks \cup {NoTask}]
  /\ \A w \in Workers : Busy(w) => task[w] \in Tasks
  /\ current_date \in [Insts -> Int]
  /\ stores \subseteq Instruments \X Int
  /\ dayInMemoryCount \in Int

-----------------------------------------------------------------------------
(* The data of a day is shared: it is freed, and dayInMemoryCount goes      *)
(* down, when the last shared_ptr to it goes.  The producer holds one while *)
(* it loads and posts the day, each task another.                           *)

QueueHolds(q, d) == \E k \in 1 .. Len(q) : q[k].date = d
WorkerHolds(w, d) == Busy(w) /\ task[w].date = d
ProducerHolds(d) == producer \in {"load", "post"} /\ date = d

WorkersHold(d) == QueueHolds(queue, d) \/ \E w \in Workers : WorkerHolds(w, d)

\* Mutant: the producer's own reference forgotten.
HeldByWorkersBeside(w, d) ==
  QueueHolds(queue, d) \/ \E v \in Workers \ {w} : WorkerHolds(v, d)

\* Somebody but worker w holds day d.
HeldBeside(w, d) ==
  \/ QueueHolds(queue, d)
  \/ \E v \in Workers \ {w} : WorkerHolds(v, d)
  \/ ProducerHolds(d)

\* A reference to day d is dropped.
Drop(d, held) ==
  IF held
    THEN UNCHANGED dataVars
    ELSE /\ dayInMemoryCount' = dayInMemoryCount - 1
         /\ stores' = {p \in stores : p[2] # d}

\* Mutant: the work object gone before the last day is posted.
WorkReleasedEarly == producer \in {"next", "start", "load"}

\* The io_service::work that Init creates and the producer deletes last.
WorkAlive == producer # "done"

\* io_service::run returns once no work object, no queued handler and no
\* running handler is left.
Stopped == /\ ~WorkAlive
           /\ queue = <<>>
           /\ \A w \in Workers : ~Busy(w)

-----------------------------------------------------------------------------
(* Init: each instance stands on the day before the first, the producer on *)
(* the first; a past run may have left any of the files in the cache.      *)

Init ==
  /\ cached \in SUBSET Fetchable
  /\ producer = "next"
  /\ date = StartDate
  /\ loaded = {}
  /\ postIdx = 1
  /\ queue = <<>>
  /\ worker = [w \in Workers |-> "idle"]
  /\ task = [w \in Workers |-> NoTask]
  /\ current_date = [i \in Insts |-> StartDate - 1]
  /\ stores = {}
  /\ dayInMemoryCount = 0

(* The fetch thread.                                                       *)
CacheFile(p) ==
  /\ p \in Fetchable \ cached
  /\ cached' = cached \cup {p}
  /\ UNCHANGED <<producerVars, queue, workerVars, current_date, dataVars>>

(* The producer: prepareMarketDataReplayer and, inside it, processOneDay.  *)
(* The future that std::async returns is discarded, so its destructor      *)
(* waits for processOneDay and the days are prepared one after another.    *)

MemoryHasRoom == dayInMemoryCount < MaxDayInMemory

SkipWeekend ==
  /\ producer = "next" /\ date < EndDate
  /\ ~IsWeekday(date)
  /\ date' = date + 1
  /\ UNCHANGED <<cached, producer, loaded, postIdx, queue, workerVars, current_date,
                 dataVars>>

PassMemoryCheck ==
  /\ producer = "next" /\ date < EndDate
  /\ IsWeekday(date)
  /\ MemoryHasRoom
  /\ producer' = "start"
  /\ UNCHANGED <<cached, date, loaded, postIdx, queue, workerVars, current_date,
                 dataVars>>

StartDay ==
  /\ producer = "start"
  /\ producer' = "load"
  /\ dayInMemoryCount' = dayInMemoryCount + 1
  /\ loaded' = {}
  /\ UNCHANGED <<cached, date, postIdx, queue, workerVars, current_date, stores>>

\* addMarketDataStoreToMarketReplay: polls the cache until the file is there, and adds
\* what is in it to the day's replayer.  A file that is there can be read; DataCache has
\* the files of which this is not so.
LoadInstrument(inst) ==
  /\ producer = "load"
  /\ inst \in Instruments \ loaded
  /\ <<inst, date>> \in cached
  /\ stores' = stores \cup {<<inst, date>>}
  /\ loaded' = loaded \cup {inst}
  /\ UNCHANGED <<cached, producer, date, postIdx, queue, workerVars, current_date,
                 dayInMemoryCount>>

\* Mutant: posting starts when one load is done instead of every one.
SomeLoaded == loaded # {}

AllLoaded == loaded = Instruments

JoinLoads ==
  /\ producer = "load"
  /\ AllLoaded
  /\ producer' = "post"
  /\ postIdx' = 1
  /\ UNCHANGED <<cached, date, loaded, queue, workerVars, current_date, dataVars>>

\* Mutant: the loop over the instances runs one too far.
MoreToPostOffByOne == postIdx <= NumInst + 1

MoreToPost == postIdx <= NumInst

\* io_.post of the day to one instance.
PostTask ==
  /\ producer = "post"
  /\ MoreToPost
  /\ queue' = Append(queue, [inst |-> postIdx, date |-> date])
  /\ postIdx' = postIdx + 1
  /\ UNCHANGED <<cached, producer, date, loaded, workerVars, current_date,
                 dataVars>>

ReturnFromProcessOneDay ==
  /\ producer = "post"
  /\ ~MoreToPost
  /\ Drop(date, WorkersHold(date))
  /\ producer' = "next"
  /\ date' = date + 1
  /\ UNCHANGED <<cached, loaded, postIdx, queue, workerVars, current_date>>

EndOfPeriod ==
  /\ producer = "next" /\ date >= EndDate
  /\ producer' = "finish"
  /\ UNCHANGED <<cached, date, loaded, postIdx, queue, workerVars, current_date,
                 dataVars>>

DeleteWork ==
  /\ producer = "finish"
  /\ producer' = "done"
  /\ UNCHANGED <<cached, date, loaded, postIdx, queue, workerVars, current_date,
                 dataVars>>

-----------------------------------------------------------------------------
(* A worker: io_service::run around TestFixture::runDataOnDay.             *)

\* Mutant: any day later than the last one is taken to be the next.
IsLaterTask(t) == t.date > current_date[t.inst]

\* targetDate == data->getDate()
IsNextTask(t) == getNextWorkingDay(current_date[t.inst]) = t.date

TakeTask(w) ==
  /\ worker[w] = "idle"
  /\ queue # <<>>
  /\ task' = [task EXCEPT ![w] = Head(queue)]
  /\ queue' = Tail(queue)
  /\ worker' = [worker EXCEPT ![w] = "decide"]
  /\ UNCHANGED <<cached, producerVars, current_date, dataVars>>

\* current_date is a plain integer another worker may be writing: this step
\* reads the old or the new value, depending on which comes first.
Decide(w) ==
  /\ worker[w] = "decide"
  /\ worker' = [worker EXCEPT ![w] = IF IsNextTask(task[w]) THEN "replay" ELSE "repost"]
  /\ UNCHANGED <<cached, producerVars, queue, task, current_date, dataVars>>

\* Mutant: a day taken too early is dropped.
RequeuedNever(t) == queue

Requeued(t) == Append(queue, t)

RepostTask(w) ==
  /\ worker[w] = "repost"
  /\ queue' = Requeued(task[w])
  /\ worker' = [worker EXCEPT ![w] = "release"]
  /\ UNCHANGED <<cached, producerVars, task, current_date, dataVars>>

\* StartReplay returns and the instance moves on to that day.
FinishReplay(w) ==
  /\ worker[w] = "replay"
  /\ current_date' = [current_date EXCEPT ![task[w].inst] = task[w].date]
  /\ worker' = [worker EXCEPT ![w] = "release"]
  /\ UNCHANGED <<cached, producerVars, queue, task, dataVars>>

\* The handler and its shared_ptr to the day go.
ReleaseTask(w) ==
  /\ worker[w] = "release"
  /\ Drop(task[w].date, HeldBeside(w, task[w].date))
  /\ worker' = [worker EXCEPT ![w] = "idle"]
  /\ task' = [task EXCEPT ![w] = NoTask]
  /\ UNCHANGED <<cached, producerVars, queue, current_date>>

ExitRun(w) ==
  /\ worker[w] = "idle"
  /\ Stopped
  /\ worker' = [worker EXCEPT ![w] = "exited"]
  /\ UNCHANGED <<cached, producerVars, queue, task, current_date, dataVars>>

-----------------------------------------------------------------------------
Fetch == \E p \in Fetchable : CacheFile(p)

Load == \E inst \in Instruments : LoadInstrument(inst)

Produce == \/ SkipWeekend \/ PassMemoryCheck \/ StartDay \/ Load \/ JoinLoads
           \/ PostTask \/ ReturnFromProcessOneDay \/ EndOfPeriod \/ DeleteWork

Work(w) == \/ TakeTask(w) \/ Decide(w) \/ RepostTask(w) \/ FinishReplay(w)
           \/ ReleaseTask(w) \/ ExitRun(w)

Next == Fetch \/ Produce \/ \E w \in Workers : Work(w)

Spec == Init /\ [][Next]_vars

\* Each is a thread of its own, and a thread that can run keeps running.
Fairness == /\ WF_vars(Fetch)
            /\ WF_vars(Produce)
            /\ \A w \in Workers : WF_vars(Work(w))

FairSpec == Spec /\ Fairness

-----------------------------------------------------------------------------
(* Properties.                                                             *)

WorkingDays == {d \in StartDate .. EndDate - 1 : IsWeekday(d)}

\* No two workers replay into the same strategy, position manager, order
\* manager or timer at once: none of these has a lock, and runDataOnDay's date
\* check is all that keeps two days of one instance apart.
OneReplayPerInstance ==
  \A v, w \in Workers :
    v # w /\ worker[v] = "replay" /\ worker[w] = "replay" => task[v].inst # task[w].inst

\* dayInMemoryCount is the number of days some thread still holds, however the
\* last references are dropped, and it never passes MaxDayInMemory.
DaysHeld ==
  {d \in WorkingDays : \/ ProducerHolds(d)
                       \/ QueueHolds(queue, d)
                       \/ \E w \in Workers : WorkerHolds(w, d)}

MemoryAccounting ==
  /\ dayInMemoryCount = Cardinality(DaysHeld)
  /\ dayInMemoryCount <= MaxDayInMemory

\* Every (instance, day) not replayed yet is still to be posted, queued, or in
\* the hands of a worker that will replay it or put it back: reposting loses
\* and duplicates nothing.
Posted(i, d) == d < date \/ (d = date /\ producer = "post" /\ i < postIdx)

Copies(i, d) ==
  Cardinality({k \in 1 .. Len(queue) : queue[k] = [inst |-> i, date |-> d]})
  + Cardinality({w \in Workers : /\ worker[w] \in {"decide", "replay", "repost"}
                                 /\ task[w] = [inst |-> i, date |-> d]})

EachDayOnce ==
  \A i \in Insts, d \in WorkingDays :
    Copies(i, d) = IF Posted(i, d) /\ current_date[i] < d THEN 1 ELSE 0

\* A worker only leaves io_service::run when every instance has replayed the
\* whole period, so getResult reads complete results.
ExitMeansComplete ==
  (\E w \in Workers : worker[w] = "exited") =>
     \A i \in Insts, d \in WorkingDays : d <= current_date[i]

\* Every instrument's ticks of a day are in its replayer while the day is replayed: the
\* day was posted only after each of its loads had added them, and is not freed while
\* any of its tasks, first or reposted, is still to run.
ReplayOnlyLoadedDays ==
  \A w \in Workers : worker[w] = "replay" =>
    \A inst \in Instruments : <<inst, task[w].date>> \in stores

\* Every instance replays each of its days once, in order, with no gap.
Replaying ==
  {<<task[w].inst, task[w].date>> : w \in {v \in Workers : worker[v] = "replay"}}

Schedule == INSTANCE BacktestSchedule WITH running <- Replaying

FollowsSchedule == Schedule!Spec

\* ... and, when every file comes, no instance stops before the period is
\* over: a day put back at the end of the queue is not overtaken for ever.
RefinesFairSchedule == Schedule!FairSpec

\* When every file comes, the run ends: all workers and the producer return and
\* the joins of run() pass.
RunReturns ==
  <>(producer = "done" /\ \A w \in Workers : worker[w] = "exited")

-----------------------------------------------------------------------------
(* Why the scheduler is correct: an invariant that every step preserves, from *)
(* which the properties above follow.  A task is live from its post until an *)
(* instance has replayed it; it is in one place only, the queue or one       *)
(* worker, whatever is reposted.                                             *)

Live(w) == worker[w] \in {"decide", "replay", "repost"}

QueuedOnce ==
  \A k, l \in 1 .. Len(queue) : queue[k] = queue[l] => k = l

HeldNotQueued ==
  \A w \in Workers : Live(w) => \A k \in 1 .. Len(queue) : queue[k] # task[w]

HeldOnce ==
  \A v, w \in Workers : v # w /\ Live(v) /\ Live(w) => task[v] # task[w]

\* A live task is a posted working day its instance has not reached.
Pending(t) ==
  /\ t \in Tasks
  /\ t.date \in WorkingDays
  /\ Posted(t.inst, t.date)
  /\ current_date[t.inst] < t.date

TasksPending ==
  /\ \A k \in 1 .. Len(queue) : Pending(queue[k])
  /\ \A w \in Workers : Live(w) => Pending(task[w])

\* A day being replayed is its instance's next one: no other worker moved it on.
ReplaysNextDay == \A w \in Workers : worker[w] = "replay" => IsNextTask(task[w])

\* An instance is never ahead of the producer.
BehindProducer == \A i \in Insts : Posted(i, current_date[i])

\* A posted day that is not replayed yet is live somewhere.
Waits(i, d) ==
  \/ \E k \in 1 .. Len(queue) : queue[k] = [inst |-> i, date |-> d]
  \/ \E w \in Workers : Live(w) /\ task[w] = [inst |-> i, date |-> d]

Lost(i, d) == Posted(i, d) /\ current_date[i] < d /\ ~Waits(i, d)

NothingLost == \A i \in Insts, d \in WorkingDays : ~Lost(i, d)

ProducerOnTrack ==
  /\ StartDate <= date
  /\ producer \in {"start", "load", "post"} => date \in WorkingDays
  /\ producer \in {"finish", "done"} => EndDate <= date
  /\ \A w \in Workers : worker[w] = "exited" => Stopped

TaskInv ==
  /\ TypeOK
  /\ QueuedOnce
  /\ HeldNotQueued
  /\ HeldOnce
  /\ TasksPending
  /\ ReplaysNextDay
  /\ BehindProducer
  /\ ProducerOnTrack

ScheduleInv == TaskInv /\ NothingLost
=============================================================================
