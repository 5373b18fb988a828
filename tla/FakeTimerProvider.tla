-------------------------- MODULE FakeTimerProvider --------------------------
(***************************************************************************)
(* The simulated clock and timers of one strategy instance                 *)
(* (backtestbed/faketimerprovider.cpp), driven through its days by         *)
(* MarketDataReplayerMultiThread::StartReplay.                             *)
(*                                                                         *)
(* One thread runs it all, but the consumers' callbacks set and cancel     *)
(* timers while the provider is walking its own tables: `pc' says where    *)
(* the provider is, and in which callback.                                 *)
(***************************************************************************)
EXTENDS Integers, Sequences

CONSTANTS NumConsumers,  \* the keys of allTimers, in the order of their addresses
          EventIDs,      \* the event numbers a consumer uses
          Delays,        \* the timeInMSFromNow it passes
          Days,          \* what allTicks_ may be on a day: the ticks' timeInMS
          LastMs,        \* 23:59:59.000, to which endDate advances
          MaxDate        \* bounds the number of days

ASSUME ConsumersAssumption == NumConsumers \in Nat \ {0} /\ MaxDate \in Nat
ASSUME TimeAssumption  == LastMs \in Nat /\ Delays \subseteq Nat \ {0} /\ EventIDs \subseteq Nat
ASSUME TicksAssumption ==
  \A day \in Days : /\ day \in Seq(Nat)
                    /\ \A k, l \in 1 .. Len(day) : l <= k => day[l] <= day[k]

VARIABLES current_date,
          current_time,
          allTimers,     \* consumer -> event -> TimerInfo
          ticks,         \* the ticks StartReplay has still to replay
          pc,            \* where the provider is
          at,            \* the consumer a loop over the consumers has come to
          target,        \* advanceToTime's timeInMs
          firing         \* advanceToTime's next_timer

vars == <<current_date, current_time, allTimers, ticks, pc, at, target, firing>>

Consumers == 1 .. NumConsumers

\* TimerInfo.  `day' is kept for the properties only: the day a timer was set for,
\* one set at the end of a day being for the next.
TimerInfo(trigger, interval, repeat, day) ==
  [nextTriggerTime |-> trigger, interval |-> interval, isRepeat |-> repeat, day |-> day]

NoTimers == [e \in {} |-> 0]

\* No timer is firing, or the object may have left allTimers meanwhile.
NotFiring == [consumer |-> 0, event |-> 0, repeat |-> FALSE, stored |-> FALSE]

Pending == {p \in Consumers \X EventIDs : p[2] \in DOMAIN allTimers[p[1]]}
Trigger(p) == allTimers[p[1]][p[2]].nextTriggerTime

\* The callbacks, and whom they call.
CallbackAt == IF pc = "onTimer" THEN firing.consumer ELSE at
InCallback == pc \in {"onStartDay", "onTimer", "onMarketData", "onEndDay"}

TypeOK ==
  /\ current_date \in 0 .. MaxDate
  /\ current_time \in Nat
  /\ DOMAIN allTimers = Consumers
  /\ \A c \in Consumers :
       /\ DOMAIN allTimers[c] \subseteq EventIDs
       /\ \A e \in DOMAIN allTimers[c] :
            /\ allTimers[c][e].nextTriggerTime \in Nat
            /\ allTimers[c][e].isRepeat => allTimers[c][e].interval \in Delays
  /\ pc \in {"between", "onStartDay", "ticks", "advance", "onTimer", "onMarketData", "onEndDay"}
  /\ at \in Consumers
  /\ pc = "onTimer" => firing.consumer \in Consumers /\ firing.event \in EventIDs
  /\ pc = "onTimer" /\ firing.stored => <<firing.consumer, firing.event>> \in Pending

Init ==
  /\ current_date = 0
  /\ current_time = 0
  /\ allTimers = [c \in Consumers |-> NoTimers]
  /\ ticks = <<>>
  /\ pc = "between"
  /\ at = 1
  /\ target = 0
  /\ firing = NotFiring

-----------------------------------------------------------------------------
(* What a consumer may call from any of its callbacks.                     *)

\* insert: a timer of that event already there stays, and FALSE is returned.
setTimer(c, e, delay, repeat) ==
  /\ e \notin DOMAIN allTimers[c]
  /\ LET day  == IF pc = "onEndDay" THEN current_date + 1 ELSE current_date
         info == TimerInfo(delay + current_time, IF repeat THEN delay ELSE 0, repeat, day)
     IN  allTimers' = [allTimers EXCEPT ![c] =
                         [x \in DOMAIN @ \cup {e} |-> IF x = e THEN info ELSE @[x]]]
  /\ UNCHANGED <<current_date, current_time, ticks, pc, at, target, firing>>

Without(timers, e) == [x \in DOMAIN timers \ {e} |-> timers[x]]

cancelTimer(c, e) ==
  /\ e \in DOMAIN allTimers[c]
  /\ allTimers' = [allTimers EXCEPT ![c] = Without(@, e)]
  /\ firing' = IF firing.consumer = c /\ firing.event = e
                 THEN [firing EXCEPT !.stored = FALSE] ELSE firing
  /\ UNCHANGED <<current_date, current_time, ticks, pc, at, target>>

-----------------------------------------------------------------------------
(* StartReplay: startDate, the ticks, endDate.                             *)

startDate(day) ==
  /\ pc = "between"
  /\ current_date < MaxDate
  /\ current_date' = current_date + 1
  /\ current_time' = 0
  /\ ticks' = day
  /\ pc' = "onStartDay"
  /\ at' = 1
  /\ UNCHANGED <<allTimers, target, firing>>

setNextTickTime ==
  /\ pc = "ticks"
  /\ ticks # <<>>
  /\ target' = Head(ticks)
  /\ pc' = "advance"
  /\ UNCHANGED <<current_date, current_time, allTimers, ticks, at, firing>>

endDate ==
  /\ pc = "ticks"
  /\ ticks = <<>>
  /\ target' = LastMs
  /\ pc' = "advance"
  /\ UNCHANGED <<current_date, current_time, allTimers, ticks, at, firing>>

-----------------------------------------------------------------------------
(* advanceToTime.                                                          *)

\* Mutant: the first timer found instead of the earliest.
FoundBefore(p, q) == p[1] < q[1] \/ (p[1] = q[1] /\ p[2] <= q[2])

\* getNextTimer's choice: the earliest, the first found of several.
Precedes(p, q) ==
  \/ Trigger(p) < Trigger(q)
  \/ Trigger(p) = Trigger(q) /\ (p[1] < q[1] \/ (p[1] = q[1] /\ p[2] <= q[2]))

IsNextTimer(p) == p \in Pending /\ \A q \in Pending : Precedes(p, q)

Due == \E p \in Pending : IsNextTimer(p) /\ Trigger(p) <= target

\* The loop's head, up to the call of onTimer.
fireTimer ==
  /\ pc = "advance"
  /\ \E p \in Pending :
       /\ IsNextTimer(p)
       /\ Trigger(p) <= target
       /\ current_time' = Trigger(p)
       /\ firing' = [consumer |-> p[1], event |-> p[2],
                     repeat |-> allTimers[p[1]][p[2]].isRepeat, stored |-> TRUE]
  /\ pc' = "onTimer"
  /\ UNCHANGED <<current_date, allTimers, ticks, at, target>>

\* Mutant: a repeating timer keeps its trigger time.
NotRepeated(info) == info

Repeated(info) == [info EXCEPT !.nextTriggerTime = @ + info.interval]

\* onTimer returns.  A repeating timer moves on; one its handler cancelled is not
\* in allTimers any more, where there may be another of the same event.  A timer
\* that does not repeat is cancelled by its event, so one its handler has set
\* again goes too.
returnFromOnTimer ==
  LET c == firing.consumer
      e == firing.event
  IN  /\ pc = "onTimer"
      /\ allTimers' =
           IF ~firing.repeat THEN [allTimers EXCEPT ![c] = Without(@, e)]
           ELSE IF firing.stored THEN [allTimers EXCEPT ![c][e] = Repeated(@)]
           ELSE allTimers
      /\ firing' = NotFiring
      /\ pc' = "advance"
      /\ UNCHANGED <<current_date, current_time, ticks, at, target>>

\* Mutant: endDate keeps the timers.
KeptOf(c) == allTimers

\* endDate clears each consumer's timers, then calls its onEndDay.
ClearedOf(c) == [allTimers EXCEPT ![c] = NoTimers]

\* Nothing is due: the guard sets the time, and the tick is given to the consumers
\* or, when there is no tick left, the day ended.
finishAdvance ==
  /\ pc = "advance"
  /\ ~Due
  /\ current_time' = target
  /\ at' = 1
  /\ IF ticks # <<>>
       THEN /\ ticks' = Tail(ticks)
            /\ pc' = "onMarketData"
            /\ UNCHANGED allTimers
       ELSE /\ pc' = "onEndDay"
            /\ allTimers' = ClearedOf(1)
            /\ UNCHANGED ticks
  /\ UNCHANGED <<current_date, target, firing>>

-----------------------------------------------------------------------------
(* The loops over the consumers.                                           *)

\* Mutant: the loop runs one too far.
MoreConsumersOffByOne == at <= NumConsumers

MoreConsumers == at < NumConsumers

nextConsumer ==
  /\ pc \in {"onStartDay", "onMarketData", "onEndDay"}
  /\ MoreConsumers
  /\ at' = at + 1
  /\ allTimers' = IF pc = "onEndDay" THEN ClearedOf(at + 1) ELSE allTimers
  /\ UNCHANGED <<current_date, current_time, ticks, pc, target, firing>>

lastConsumer ==
  /\ pc \in {"onStartDay", "onMarketData", "onEndDay"}
  /\ ~MoreConsumers
  /\ at' = 1
  /\ pc' = IF pc = "onEndDay" THEN "between" ELSE "ticks"
  /\ UNCHANGED <<current_date, current_time, allTimers, ticks, target, firing>>

DuringDay == \/ setNextTickTime \/ endDate
             \/ fireTimer \/ returnFromOnTimer \/ finishAdvance
             \/ nextConsumer \/ lastConsumer

Provider == DuringDay \/ \E day \in Days : startDate(day)

Consumer == /\ InCallback
            /\ \E e \in EventIDs :
                 \/ \E delay \in Delays, repeat \in BOOLEAN :
                      setTimer(CallbackAt, e, delay, repeat)
                 \/ cancelTimer(CallbackAt, e)

Next == Provider \/ Consumer

Spec == Init /\ [][Next]_vars

\* The thread keeps running, and a callback returns.
FairSpec == Spec /\ WF_vars(Provider)

-----------------------------------------------------------------------------
(* Properties.                                                             *)

\* Whatever the callbacks set and cancel, a consumer never runs later than a timer
\* it is waiting for: while timers fire, none is behind the clock, and whoever is
\* called outside advanceToTime has every timer still before it.
NoTimerOverdue ==
  \A p \in Pending : IF pc \in {"advance", "onTimer"} THEN Trigger(p) >= current_time
                                                    ELSE Trigger(p) > current_time

\* Within a day the clock never goes back: except once, to LastMs, at the end of a
\* day with a tick after it.
ClockRunsForward ==
  [][current_date' = current_date /\ current_time' < current_time =>
       ticks = <<>> /\ current_time > LastMs /\ current_time' = LastMs]_vars

\* A day's timers end with it: what is pending was set today, or by onEndDay.
TimersOfTheDay ==
  \A p \in Pending :
    LET day == allTimers[p[1]][p[2]].day
    IN  day >= current_date /\ (pc = "between" => day > current_date)

\* A day that has started ends: StartReplay returns.
DayEnds == pc = "onStartDay" ~> pc = "between"
=============================================================================
