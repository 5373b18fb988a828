------------------------- MODULE MarketDataReplayer -------------------------
(***************************************************************************)
(* The ticks of a day (backtestbed/marketdatareplayer.cpp): the loads of   *)
(* the day, a thread for each instrument, merge their files into one       *)
(* vector, and StartReplay drives the clock and the consumers with it.     *)
(*                                                                         *)
(* The vectors' unique_ptrs are moved from one to the other: what a merge  *)
(* does not take over is gone.  A replayer has its own vector for each     *)
(* day, so its loads are put just before the day, where nothing else is    *)
(* running that could see it.                                              *)
(***************************************************************************)
EXTENDS FakeTimerProvider, SequencesExt

CONSTANTS Instruments,  \* whose files a day has
          DataStores,   \* what they may hold: instrument -> the ticks' timeInMS
          Nobody        \* who holds a mutex that is free

ASSUME NobodyAssumption == Nobody \notin Instruments
ASSUME StoresAssumption ==
  \A stores \in DataStores :
    /\ DOMAIN stores = Instruments
    /\ \A inst \in Instruments :
         /\ stores[inst] \in Seq(Nat)
         /\ \A k, l \in 1 .. Len(stores[inst]) : k < l => stores[inst][k] <= stores[inst][l]

VARIABLES
  datastore,  \* the day's files, as loaded and sorted
  allTicks_,
  addmutex,   \* who holds it, or nobody
  load,       \* where each addDataStore is
  result      \* its own vector

replayerVars == <<datastore, allTicks_, addmutex, load, result>>
dayVars      == <<vars, replayerVars>>

Tick(inst, time) == [instIndex |-> inst, timeInMS |-> time]
Ticks == [instIndex : Instruments, timeInMS : Nat]

TicksOf(inst) == [k \in DOMAIN datastore[inst] |-> Tick(inst, datastore[inst][k])]

NoData == [inst \in Instruments |-> <<>>]

AllLoaded == \A inst \in Instruments : load[inst] = "done"

ReplayerInit ==
  /\ Init
  /\ datastore = NoData
  /\ allTicks_ = <<>>
  /\ addmutex = Nobody
  /\ load = [inst \in Instruments |-> "none"]
  /\ result = [inst \in Instruments |-> <<>>]

\* The constructor; processOneDay then starts a load for each instrument.
newReplayer ==
  /\ pc = "between"
  /\ \A inst \in Instruments : load[inst] = "none"
  /\ datastore' \in DataStores
  /\ load' = [inst \in Instruments |-> "polling"]
  /\ UNCHANGED <<vars, allTicks_, addmutex, result>>

-----------------------------------------------------------------------------
(* addDataStore.                                                           *)

\* Mutant: no lock.
NoLock(inst) == TRUE

MutexFree(inst) == addmutex = Nobody

lock(inst) ==
  /\ load[inst] = "polling"
  /\ MutexFree(inst)
  /\ addmutex' = inst
  /\ load' = [load EXCEPT ![inst] = "merge"]
  /\ UNCHANGED <<vars, datastore, allTicks_, result>>

\* The two vectors merged by time: of two ticks of the same time the new one first.
\* taken[n] counts those of the first n ticks that come from ticks1, the others being
\* from ticks2.
Merge(ticks1, ticks2) ==
  LET all == Len(ticks1) + Len(ticks2)
      FromFirst(k, l) ==
        /\ k < Len(ticks1)
        /\ l < Len(ticks2) => ticks1[k + 1].timeInMS < ticks2[l + 1].timeInMS
      taken[n \in 0 .. all] ==
        IF n = 0 THEN 0
        ELSE IF FromFirst(taken[n - 1], n - 1 - taken[n - 1]) THEN taken[n - 1] + 1
        ELSE taken[n - 1]
  IN  [n \in 1 .. all |-> IF taken[n - 1] < taken[n] THEN ticks1[taken[n]]
                                                    ELSE ticks2[n - taken[n]]]

merge(inst) ==
  /\ load[inst] = "merge"
  /\ result' = [result EXCEPT ![inst] = Merge(allTicks_, TicksOf(inst))]
  /\ load' = [load EXCEPT ![inst] = "swap"]
  /\ UNCHANGED <<vars, datastore, allTicks_, addmutex>>

\* allTicks_.swap, and the lock_guard goes.
swap(inst) ==
  /\ load[inst] = "swap"
  /\ allTicks_' = result[inst]
  /\ result' = [result EXCEPT ![inst] = <<>>]
  /\ addmutex' = Nobody
  /\ load' = [load EXCEPT ![inst] = "done"]
  /\ UNCHANGED <<vars, datastore>>

addDataStore(inst) == lock(inst) \/ merge(inst) \/ swap(inst)

\* StartReplay, once every load was joined.  The vector is only read from here on:
\* `ticks' is what is left of it, and it makes room for the next day's.
StartReplay ==
  /\ AllLoaded
  /\ startDate([k \in DOMAIN allTicks_ |-> allTicks_[k].timeInMS])
  /\ datastore' = NoData
  /\ allTicks_' = <<>>
  /\ load' = [inst \in Instruments |-> "none"]
  /\ UNCHANGED <<addmutex, result>>

ReplayerNext == \/ newReplayer
                \/ \E inst \in Instruments : addDataStore(inst)
                \/ StartReplay
                \/ (DuringDay \/ Consumer) /\ UNCHANGED replayerVars

ReplayerSpec == /\ ReplayerInit
                /\ [][ReplayerNext]_dayVars
                /\ WF_dayVars(DuringDay /\ UNCHANGED replayerVars)

-----------------------------------------------------------------------------
(* Properties.                                                             *)

\* The vectors hold ticks, and the mutex is held by the one load that is inside.
ReplayerTypeOK ==
  /\ TypeOK
  /\ allTicks_ \in Seq(Ticks)
  /\ load \in [Instruments -> {"none", "polling", "merge", "swap", "done"}]
  /\ \A inst \in Instruments :
       /\ result[inst] \in Seq(Ticks)
       /\ load[inst] \in {"merge", "swap"} <=> addmutex = inst

OfInstrument(ticks_, inst) ==
  FlattenSeq([k \in DOMAIN ticks_ |->
                IF ticks_[k].instIndex = inst THEN <<ticks_[k]>> ELSE <<>>])

\* However the loads come together, a day that is about to be replayed has every
\* tick of every file once: in the order of time, and each instrument's in the
\* order of its file.
DayInOrder ==
  AllLoaded =>
    /\ \A k, l \in DOMAIN allTicks_ :
         k < l => allTicks_[k].timeInMS <= allTicks_[l].timeInMS
    /\ \A inst \in Instruments : OfInstrument(allTicks_, inst) = TicksOf(inst)
=============================================================================
