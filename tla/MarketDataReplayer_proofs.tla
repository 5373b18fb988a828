---------------------- MODULE MarketDataReplayer_proofs ----------------------
(***************************************************************************)
(* Proofs about the clock of an instance and the loads of a day.           *)
(*                                                                         *)
(* First FakeTimerProvider, for any number of consumers, events and        *)
(* delays, whatever the callbacks set and cancel, and any days of ticks    *)
(* that are in order.  Then the loads, for any instruments, any files and  *)
(* any order of the loads: the replayer gives the provider no other days,  *)
(* so what is proved of clock and timers is proved of the two together.    *)
(***************************************************************************)
EXTENDS MarketDataReplayer, Folding

-----------------------------------------------------------------------------
(* The choice of the next timer.                                           *)

LEMMA LeastNatural ==
  ASSUME NEW S \in SUBSET Nat, S # {}
  PROVE  \E x \in S : \A y \in S : x <= y
<1>1. PICK x \in S : \A y \in S : ~(<<y, x>> \in OpToRel(<, Nat))
  BY NatLessThanWellFounded, WFMin
<1>2. \A y \in S : ~(y < x)
  BY <1>1 DEF OpToRel
<1> QED
  BY <1>2

\* What is waited for has a first: the loop of advanceToTime finds every timer that
\* is due, and none that is due is left when it ends.
LEMMA NextTimerExists ==
  ASSUME Pending # {}, \A p \in Pending : Trigger(p) \in Nat
  PROVE  \E p \in Pending : IsNextTimer(p)
<1>1. \A p \in Pending : p = <<p[1], p[2]>> /\ p[1] \in Nat /\ p[2] \in Nat
  <2>1. Consumers \subseteq Nat
    BY ConsumersAssumption DEF Consumers
  <2>2. \A p \in Consumers \X EventIDs : p = <<p[1], p[2]>> /\ p[1] \in Consumers /\ p[2] \in EventIDs
    OBVIOUS
  <2> QED
    BY <2>1, <2>2, TimeAssumption DEF Pending
<1> DEFINE times == {Trigger(p) : p \in Pending}
<1>2. PICK time \in times : \A s \in times : time <= s
  <2>1. times \in SUBSET Nat /\ times # {}
    OBVIOUS
  <2> HIDE DEF times
  <2> QED
    BY <2>1, LeastNatural
<1> DEFINE first == {p \in Pending : Trigger(p) = time}
           consumers == {p[1] : p \in first}
<1>3. PICK c \in consumers : \A b \in consumers : c <= b
  <2>1. consumers \in SUBSET Nat /\ consumers # {}
    BY <1>1, <1>2
  <2> HIDE DEF consumers
  <2> QED
    BY <2>1, LeastNatural
<1> DEFINE mine == {p \in first : p[1] = c}
           events == {p[2] : p \in mine}
<1>4. PICK e \in events : \A b \in events : e <= b
  <2>1. events \in SUBSET Nat /\ events # {}
    BY <1>1, <1>3
  <2> HIDE DEF events
  <2> QED
    BY <2>1, LeastNatural
<1>5. PICK p \in mine : p[2] = e
  BY <1>4
<1>6. ASSUME NEW q \in Pending PROVE Precedes(p, q)
  <2>1. time <= Trigger(q) /\ Trigger(p) = time
    BY <1>2, <1>5
  <2>2. CASE Trigger(q) # time
    BY <1>2, <1>5, <2>1, <2>2 DEF Precedes
  <2>3. CASE Trigger(q) = time /\ q[1] # c
    BY <1>1, <1>3, <1>5, <2>3 DEF Precedes
  <2>4. CASE Trigger(q) = time /\ q[1] = c
    BY <1>1, <1>4, <1>5, <2>4 DEF Precedes
  <2> QED
    BY <2>2, <2>3, <2>4
<1> QED
  BY <1>5, <1>6 DEF IsNextTimer

-----------------------------------------------------------------------------
(* The invariant.                                                          *)

TimerInfos == [nextTriggerTime : Nat, interval : Nat, isRepeat : BOOLEAN, day : Int]

Advancing == pc \in {"advance", "onTimer"}

\* A timer of consumer c is ahead of the clock, and of this day or a later one; while
\* endDate goes through the consumers, it has cleared those up to `at'.
InTime(t, c) ==
  /\ t \in TimerInfos
  /\ t.isRepeat => t.interval \in Delays
  /\ t.nextTriggerTime >= current_time
  /\ ~Advancing => t.nextTriggerTime > current_time
  /\ t.day >= current_date
  /\ pc = "between" \/ (pc = "onEndDay" /\ c <= at) => t.day > current_date

TimersInTime ==
  /\ DOMAIN allTimers = Consumers
  /\ \A c \in Consumers :
       /\ DOMAIN allTimers[c] \subseteq EventIDs
       /\ \A e \in DOMAIN allTimers[c] : InTime(allTimers[c][e], c)

\* The provider's own variables; a timer that fires is in allTimers unless its handler
\* cancelled it.
ProviderOK ==
  /\ current_date \in 0 .. MaxDate
  /\ current_time \in Nat
  /\ pc \in {"between", "onStartDay", "ticks", "advance", "onTimer", "onMarketData", "onEndDay"}
  /\ at \in Consumers
  /\ target \in Nat
  /\ firing \in [consumer : Consumers \cup {0}, event : Nat, repeat : BOOLEAN, stored : BOOLEAN]
  /\ pc = "onTimer" => firing.consumer \in Consumers /\ firing.event \in EventIDs
  /\ pc = "onTimer" /\ firing.stored => firing.event \in DOMAIN allTimers[firing.consumer]

\* The ticks to come are in the order of time, none before the clock, and the clock is
\* on its way to the first of them.
TicksAhead ==
  /\ ticks \in Seq(Nat)
  /\ \A k, l \in 1 .. Len(ticks) : l <= k => ticks[l] <= ticks[k]
  /\ \A k \in 1 .. Len(ticks) : current_time <= ticks[k]
  /\ Advancing => target = IF ticks = <<>> THEN LastMs ELSE Head(ticks)
  /\ pc \in {"between", "onEndDay"} => ticks = <<>>

ProviderInv == TimersInTime /\ ProviderOK /\ TicksAhead

LEMMA ProviderInvInit == Init => ProviderInv
  BY ConsumersAssumption DEF Init, ProviderInv, TimersInTime, ProviderOK, TicksAhead, NoTimers,
     NotFiring, Consumers, Advancing

\* What a callback sets is ahead of the clock: its delay is not 0.
LEMMA SetTimerStep ==
  ASSUME ProviderInv, InCallback, NEW e \in EventIDs, NEW delay \in Delays, NEW repeat \in BOOLEAN,
         setTimer(CallbackAt, e, delay, repeat)
  PROVE  ProviderInv'
<1> DEFINE c == CallbackAt
           day == IF pc = "onEndDay" THEN current_date + 1 ELSE current_date
           info == TimerInfo(delay + current_time, IF repeat THEN delay ELSE 0, repeat, day)
<1>1. /\ UNCHANGED <<current_date, current_time, ticks, pc, at, target, firing>>
      /\ e \notin DOMAIN allTimers[c]
      /\ allTimers' = [allTimers EXCEPT ![c] =
                         [x \in DOMAIN allTimers[c] \cup {e} |->
                            IF x = e THEN info ELSE allTimers[c][x]]]
  BY DEF setTimer
<1>2. c \in Consumers
  BY DEF CallbackAt, InCallback, ProviderInv, ProviderOK
<1>3. InTime(info, c)
  <2>1. delay \in Nat \ {0} /\ current_time \in Nat /\ current_date \in Int
    BY TimeAssumption, ConsumersAssumption DEF ProviderInv, ProviderOK
  <2>2. pc # "between"
    BY DEF InCallback
  <2> QED
    BY <2>1, <2>2 DEF InTime, TimerInfo, TimerInfos
<1> HIDE DEF info
<1>4. /\ DOMAIN allTimers' = Consumers
      /\ allTimers'[c] = [x \in DOMAIN allTimers[c] \cup {e} |-> IF x = e THEN info ELSE allTimers[c][x]]
      /\ \A b \in Consumers \ {c} : allTimers'[b] = allTimers[b]
  BY <1>1, <1>2 DEF ProviderInv, TimersInTime
<1>5. \A t, b : InTime(t, b)' <=> InTime(t, b)
  BY <1>1 DEF InTime, Advancing
<1> HIDE DEF c
<1>6. TimersInTime'
  <2> SUFFICES ASSUME NEW b \in Consumers
               PROVE  /\ DOMAIN allTimers'[b] \subseteq EventIDs
                      /\ \A x \in DOMAIN allTimers'[b] : InTime(allTimers'[b][x], b)
    BY <1>4, <1>5 DEF TimersInTime
  <2>1. CASE b = c
    BY <1>2, <1>3, <1>4, <2>1 DEF ProviderInv, TimersInTime
  <2>2. CASE b # c
    BY <1>4, <2>2 DEF ProviderInv, TimersInTime
  <2> QED
    BY <2>1, <2>2
<1>7. ProviderOK'
  BY <1>1, <1>2, <1>4 DEF ProviderInv, ProviderOK
<1>8. TicksAhead'
  BY <1>1 DEF ProviderInv, TicksAhead, Advancing
<1> QED
  BY <1>6, <1>7, <1>8 DEF ProviderInv

\* A timer that is cancelled is gone, also for the timer that fires.
LEMMA CancelTimerStep ==
  ASSUME ProviderInv, InCallback, NEW e \in EventIDs, cancelTimer(CallbackAt, e)
  PROVE  ProviderInv'
<1> DEFINE c == CallbackAt
<1>1. /\ UNCHANGED <<current_date, current_time, ticks, pc, at, target>>
      /\ allTimers' = [allTimers EXCEPT ![c] = Without(allTimers[c], e)]
      /\ firing' = IF firing.consumer = c /\ firing.event = e
                     THEN [firing EXCEPT !.stored = FALSE] ELSE firing
  BY DEF cancelTimer
<1>2. c \in Consumers
  BY DEF CallbackAt, InCallback, ProviderInv, ProviderOK
<1>3. /\ DOMAIN allTimers' = Consumers
      /\ DOMAIN allTimers'[c] = DOMAIN allTimers[c] \ {e}
      /\ \A x \in DOMAIN allTimers'[c] : allTimers'[c][x] = allTimers[c][x]
      /\ \A b \in Consumers \ {c} : allTimers'[b] = allTimers[b]
  BY <1>1, <1>2 DEF ProviderInv, TimersInTime, Without
<1>4. \A t, b : InTime(t, b)' <=> InTime(t, b)
  BY <1>1 DEF InTime, Advancing
<1> HIDE DEF c
<1>5. TimersInTime'
  BY <1>2, <1>3, <1>4 DEF ProviderInv, TimersInTime
<1>6. ProviderOK'
  <2> DEFINE F == [consumer : Consumers \cup {0}, event : Nat, repeat : BOOLEAN, stored : BOOLEAN]
  <2>1. /\ firing' \in F
        /\ firing'.consumer = firing.consumer /\ firing'.event = firing.event
        /\ firing'.stored => firing.stored /\ ~(firing.consumer = c /\ firing.event = e)
    BY <1>1 DEF ProviderInv, ProviderOK
  <2> HIDE DEF F
  <2>2. pc = "onTimer" /\ firing'.stored => firing.event \in DOMAIN allTimers'[firing.consumer]
    BY <1>3, <2>1 DEF ProviderInv, ProviderOK
  <2> QED
    BY <1>1, <2>1, <2>2 DEF ProviderInv, ProviderOK, F
<1>7. TicksAhead'
  BY <1>1 DEF ProviderInv, TicksAhead, Advancing
<1> QED
  BY <1>5, <1>6, <1>7 DEF ProviderInv

\* What is left over from the evening is ahead of a clock that starts at 0.
LEMMA StartDateStep ==
  ASSUME ProviderInv, NEW day \in Days, startDate(day)
  PROVE  ProviderInv'
<1>1. /\ pc = "between" /\ pc' = "onStartDay" /\ current_time' = 0 /\ current_time \in Nat
      /\ current_date \in Int /\ current_date' = current_date + 1 /\ current_date < MaxDate
      /\ ticks' = day /\ at' = 1 /\ UNCHANGED <<allTimers, target, firing>>
  BY ConsumersAssumption DEF startDate, ProviderInv, ProviderOK
<1>2. ASSUME NEW t, NEW c, InTime(t, c) PROVE InTime(t, c)'
  <2>1. t \in TimerInfos /\ t.nextTriggerTime \in Nat /\ t.day \in Int
    BY <1>2 DEF InTime, TimerInfos
  <2> QED
    BY <1>1, <1>2, <2>1 DEF InTime, Advancing
<1>3. TimersInTime'
  BY <1>1, <1>2 DEF ProviderInv, TimersInTime
<1>4. ProviderOK'
  BY <1>1, ConsumersAssumption DEF ProviderInv, ProviderOK, Consumers
<1>5. TicksAhead'
  <2>1. day \in Seq(Nat) /\ \A k, l \in 1 .. Len(day) : l <= k => day[l] <= day[k]
    BY TicksAssumption
  <2>2. \A k \in 1 .. Len(day) : 0 <= day[k]
    BY <2>1
  <2> QED
    BY <1>1, <2>1, <2>2 DEF TicksAhead, Advancing
<1> QED
  BY <1>3, <1>4, <1>5 DEF ProviderInv

\* The clock sets out for the next tick, or for the end of the day.
LEMMA SetOutStep == ProviderInv /\ (setNextTickTime \/ endDate) => ProviderInv'
<1> SUFFICES ASSUME ProviderInv, setNextTickTime \/ endDate PROVE ProviderInv'
  OBVIOUS
<1>1. /\ pc = "ticks" /\ pc' = "advance"
      /\ target' = IF ticks = <<>> THEN LastMs ELSE Head(ticks)
      /\ UNCHANGED <<current_date, current_time, allTimers, ticks, at, firing>>
  BY DEF setNextTickTime, endDate
<1>2. target' \in Nat
  BY <1>1, TimeAssumption DEF ProviderInv, TicksAhead
<1>3. \A t, c : InTime(t, c) => InTime(t, c)'
  BY <1>1 DEF InTime, Advancing
<1>4. TimersInTime'
  BY <1>1, <1>3 DEF ProviderInv, TimersInTime
<1>5. ProviderOK' /\ TicksAhead'
  BY <1>1, <1>2 DEF ProviderInv, ProviderOK, TicksAhead
<1> QED
  BY <1>4, <1>5 DEF ProviderInv

\* The clock goes to the first timer, which is due: no other is behind it.
LEMMA FireTimerStep == ProviderInv /\ fireTimer => ProviderInv' /\ current_time <= current_time'
<1> SUFFICES ASSUME ProviderInv, fireTimer PROVE ProviderInv' /\ current_time <= current_time'
  OBVIOUS
<1>1. PICK p \in Pending : /\ IsNextTimer(p) /\ Trigger(p) <= target
                          /\ current_time' = Trigger(p)
                          /\ firing' = [consumer |-> p[1], event |-> p[2],
                                        repeat |-> allTimers[p[1]][p[2]].isRepeat, stored |-> TRUE]
  BY DEF fireTimer
<1>2. /\ pc = "advance" /\ pc' = "onTimer"
      /\ UNCHANGED <<current_date, allTimers, ticks, at, target>>
  BY DEF fireTimer
<1>3. /\ p[1] \in Consumers /\ p[2] \in EventIDs /\ p[2] \in Nat /\ p[2] \in DOMAIN allTimers[p[1]]
      /\ InTime(allTimers[p[1]][p[2]], p[1])
  BY TimeAssumption DEF Pending, ProviderInv, TimersInTime
<1>4. /\ Trigger(p) \in Nat /\ current_time <= Trigger(p)
      /\ allTimers[p[1]][p[2]].isRepeat \in BOOLEAN
  BY <1>3 DEF InTime, TimerInfos, Trigger, ProviderInv, ProviderOK
<1>5. ASSUME NEW c \in Consumers, NEW e \in DOMAIN allTimers[c]
      PROVE  InTime(allTimers[c][e], c)'
  <2>1. InTime(allTimers[c][e], c) /\ <<c, e>> \in Pending
    BY <1>5 DEF ProviderInv, TimersInTime, Pending
  <2>2. Trigger(p) <= allTimers[c][e].nextTriggerTime
    BY <1>1, <2>1, <1>4 DEF IsNextTimer, Precedes, Trigger, InTime, TimerInfos
  <2> QED
    BY <1>1, <1>2, <2>1, <2>2 DEF InTime, Advancing
<1>6. TimersInTime'
  BY <1>2, <1>5 DEF ProviderInv, TimersInTime
<1>7. ProviderOK'
  BY <1>1, <1>2, <1>3, <1>4 DEF ProviderInv, ProviderOK
<1>8. TicksAhead'
  <2>1. \A k \in 1 .. Len(ticks) : Trigger(p) <= ticks[k]
    <3> SUFFICES ASSUME NEW k \in 1 .. Len(ticks) PROVE Trigger(p) <= ticks[k]
      OBVIOUS
    <3>1. ticks \in Seq(Nat) /\ ticks # <<>> /\ ticks[1] <= ticks[k] /\ target = ticks[1]
      BY <1>2 DEF ProviderInv, TicksAhead, Advancing
    <3> QED
      BY <1>1, <1>4, <3>1
  <2> QED
    BY <1>1, <1>2, <2>1 DEF ProviderInv, TicksAhead, Advancing
<1> QED
  BY <1>1, <1>4, <1>6, <1>7, <1>8 DEF ProviderInv

\* A repeating timer that is still there moves on; any other is gone or untouched.
LEMMA ReturnStep == ProviderInv /\ returnFromOnTimer => ProviderInv'
<1> SUFFICES ASSUME ProviderInv, returnFromOnTimer PROVE ProviderInv'
  OBVIOUS
<1> DEFINE c == firing.consumer
           e == firing.event
<1>1. /\ pc = "onTimer" /\ pc' = "advance" /\ firing' = NotFiring
      /\ UNCHANGED <<current_date, current_time, ticks, at, target>>
      /\ c \in Consumers /\ e \in EventIDs
  BY DEF returnFromOnTimer, ProviderInv, ProviderOK
<1>2. \A t, b : InTime(t, b)' <=> InTime(t, b)
  BY <1>1 DEF InTime, Advancing
<1>3. TimersInTime'
  <2>1. CASE ~firing.repeat
    <3>1. allTimers' = [allTimers EXCEPT ![c] = Without(allTimers[c], e)]
      BY <2>1 DEF returnFromOnTimer
    <3>2. /\ DOMAIN allTimers' = Consumers
          /\ DOMAIN allTimers'[c] = DOMAIN allTimers[c] \ {e}
          /\ \A x \in DOMAIN allTimers'[c] : allTimers'[c][x] = allTimers[c][x]
          /\ \A b \in Consumers \ {c} : allTimers'[b] = allTimers[b]
      BY <1>1, <3>1 DEF ProviderInv, TimersInTime, Without
    <3> HIDE DEF c
    <3> QED
      BY <1>1, <1>2, <3>2 DEF ProviderInv, TimersInTime
  <2>2. CASE firing.repeat /\ firing.stored
    <3>1. allTimers' = [allTimers EXCEPT ![c] = [allTimers[c] EXCEPT ![e] = Repeated(allTimers[c][e])]]
      BY <2>2 DEF returnFromOnTimer
    <3>2. e \in DOMAIN allTimers[c] /\ InTime(allTimers[c][e], c)
      BY <1>1, <2>2 DEF ProviderInv, ProviderOK, TimersInTime
    <3>3. InTime(Repeated(allTimers[c][e]), c)
      <4> PICK t : t = allTimers[c][e]
        OBVIOUS
      <4>1. t \in TimerInfos /\ InTime(t, c)
        BY <3>2 DEF InTime
      <4>2. Repeated(t) = [nextTriggerTime |-> t.nextTriggerTime + t.interval, interval |-> t.interval,
                           isRepeat |-> t.isRepeat, day |-> t.day]
        BY <4>1 DEF Repeated, TimerInfos
      <4>3. /\ Repeated(t) \in TimerInfos /\ t.interval \in Nat /\ t.nextTriggerTime \in Nat
            /\ current_time \in Nat
        BY <4>1, <4>2 DEF TimerInfos, ProviderInv, ProviderOK
      <4> QED
        BY <4>1, <4>2, <4>3 DEF InTime
    <3>4. /\ DOMAIN allTimers' = Consumers
          /\ allTimers'[c] = [allTimers[c] EXCEPT ![e] = Repeated(allTimers[c][e])]
          /\ \A b \in Consumers \ {c} : allTimers'[b] = allTimers[b]
      BY <1>1, <3>1 DEF ProviderInv, TimersInTime
    <3>5. /\ DOMAIN allTimers'[c] = DOMAIN allTimers[c]
          /\ \A x \in DOMAIN allTimers[c] :
               allTimers'[c][x] = IF x = e THEN Repeated(allTimers[c][e]) ELSE allTimers[c][x]
      BY <3>4
    <3> HIDE DEF c
    <3> QED
      BY <1>1, <1>2, <3>2, <3>3, <3>4, <3>5 DEF ProviderInv, TimersInTime
  <2>3. CASE firing.repeat /\ ~firing.stored
    <3>1. UNCHANGED allTimers
      BY <2>3 DEF returnFromOnTimer
    <3> QED
      BY <1>2, <3>1 DEF ProviderInv, TimersInTime
  <2> QED
    BY <2>1, <2>2, <2>3
<1>4. ProviderOK'
  BY <1>1 DEF ProviderInv, ProviderOK, NotFiring
<1>5. TicksAhead'
  BY <1>1 DEF ProviderInv, TicksAhead, Advancing
<1> QED
  BY <1>3, <1>4, <1>5 DEF ProviderInv

\* Clearing one consumer's timers touches nobody else's.
LEMMA Cleared ==
  ASSUME TimersInTime, NEW c \in Consumers
  PROVE  /\ DOMAIN ClearedOf(c) = Consumers
         /\ DOMAIN ClearedOf(c)[c] = {}
         /\ \A b \in Consumers \ {c} : ClearedOf(c)[b] = allTimers[b]
  BY DEF ClearedOf, TimersInTime, NoTimers

\* Nothing is due, so what is pending is after the target.
LEMMA FinishAdvanceStep ==
  ASSUME ProviderInv, finishAdvance
  PROVE  /\ ProviderInv'
         /\ current_time' < current_time => ticks = <<>> /\ current_time' = LastMs
<1>1. /\ pc = "advance" /\ ~Due /\ current_time' = target /\ target \in Nat /\ at' = 1
      /\ 1 \in Consumers /\ \A c \in Consumers : 1 <= c /\ c \in Int
      /\ target = IF ticks = <<>> THEN LastMs ELSE Head(ticks)
      /\ UNCHANGED <<current_date, target, firing>>
  BY ConsumersAssumption DEF finishAdvance, ProviderInv, ProviderOK, TicksAhead, Advancing, Consumers
<1>2. ASSUME NEW c \in Consumers, NEW e \in DOMAIN allTimers[c]
      PROVE  InTime(allTimers[c][e], c) /\ allTimers[c][e].nextTriggerTime > target
  <2>1. ASSUME NEW p \in Pending PROVE Trigger(p) \in Nat
    BY <2>1 DEF ProviderInv, TimersInTime, Pending, Trigger, InTime, TimerInfos
  <2>2. <<c, e>> \in Pending /\ InTime(allTimers[c][e], c) /\ Trigger(<<c, e>>) = allTimers[c][e].nextTriggerTime
    BY <1>2 DEF ProviderInv, TimersInTime, Pending, Trigger
  <2>3. PICK p \in Pending : IsNextTimer(p)
    BY <2>1, <2>2, NextTimerExists
  <2>4. ~(Trigger(p) <= target)
    BY <1>1, <2>3 DEF Due
  <2>5. Trigger(p) <= Trigger(<<c, e>>)
    BY <2>1, <2>2, <2>3 DEF IsNextTimer, Precedes
  <2> QED
    BY <1>1, <2>1, <2>2, <2>4, <2>5
<1>3. CASE ticks # <<>>
  <2>1. ticks' = Tail(ticks) /\ pc' = "onMarketData" /\ UNCHANGED allTimers
    BY <1>3 DEF finishAdvance
  <2>2. \A c \in Consumers : \A e \in DOMAIN allTimers[c] : InTime(allTimers[c][e], c)'
    <3> SUFFICES ASSUME NEW c \in Consumers, NEW e \in DOMAIN allTimers[c]
                 PROVE  InTime(allTimers[c][e], c)'
      OBVIOUS
    <3> PICK t : t = allTimers[c][e]
      OBVIOUS
    <3>1. InTime(t, c) /\ t.nextTriggerTime > target /\ t.nextTriggerTime \in Nat
      BY <1>2 DEF InTime, TimerInfos
    <3>2. InTime(t, c)'
      BY <1>1, <2>1, <3>1 DEF InTime, Advancing
    <3> QED
      BY <2>1, <3>2
  <2>3. TimersInTime'
    BY <2>1, <2>2 DEF ProviderInv, TimersInTime
  <2>4. ProviderOK'
    BY <1>1, <2>1 DEF ProviderInv, ProviderOK
  <2>5. TicksAhead' /\ current_time <= current_time'
    <3>1. /\ ticks \in Seq(Nat) /\ target = ticks[1] /\ current_time <= ticks[1]
          /\ \A k, l \in 1 .. Len(ticks) : l <= k => ticks[l] <= ticks[k]
      BY <1>1, <1>3 DEF ProviderInv, TicksAhead
    <3>2. /\ ticks' \in Seq(Nat)
          /\ \A k \in 1 .. Len(ticks') : k + 1 \in 1 .. Len(ticks) /\ ticks'[k] = ticks[k + 1]
          /\ 1 \in 1 .. Len(ticks)
      BY <1>3, <2>1, <3>1
    <3>3. \A k \in 1 .. Len(ticks') : target <= ticks'[k]
      BY <3>1, <3>2
    <3>4. \A k, l \in 1 .. Len(ticks') : l <= k => ticks'[l] <= ticks'[k]
      BY <3>1, <3>2
    <3> QED
      BY <1>1, <2>1, <3>1, <3>2, <3>3, <3>4 DEF TicksAhead, Advancing
  <2> QED
    BY <1>1, <2>3, <2>4, <2>5 DEF ProviderInv, ProviderOK
<1>4. CASE ticks = <<>>
  <2>1. pc' = "onEndDay" /\ allTimers' = ClearedOf(1) /\ UNCHANGED ticks
    BY <1>4 DEF finishAdvance
  <2>2. /\ DOMAIN allTimers' = Consumers /\ DOMAIN allTimers'[1] = {}
        /\ \A b \in Consumers \ {1} : allTimers'[b] = allTimers[b]
    BY <1>1, <2>1, Cleared DEF ProviderInv
  <2>3. \A c \in Consumers \ {1} : \A e \in DOMAIN allTimers[c] : InTime(allTimers[c][e], c)'
    <3> SUFFICES ASSUME NEW c \in Consumers \ {1}, NEW e \in DOMAIN allTimers[c]
                 PROVE  InTime(allTimers[c][e], c)'
      OBVIOUS
    <3> PICK t : t = allTimers[c][e]
      OBVIOUS
    <3>1. InTime(t, c) /\ t.nextTriggerTime > target /\ t.nextTriggerTime \in Nat
      BY <1>2 DEF InTime, TimerInfos
    <3>2. InTime(t, c)'
      BY <1>1, <2>1, <3>1 DEF InTime, Advancing
    <3> QED
      BY <2>2, <3>2
  <2>4. TimersInTime'
    BY <2>2, <2>3 DEF ProviderInv, TimersInTime
  <2>5. ProviderOK' /\ TicksAhead'
    BY <1>1, <1>4, <2>1 DEF ProviderInv, ProviderOK, TicksAhead, Advancing
  <2> QED
    BY <1>1, <1>4, <2>4, <2>5 DEF ProviderInv
<1> QED
  BY <1>3, <1>4

\* The loops over the consumers: at the end of the day each is cleared before it is called.
LEMMA NextConsumerStep == ProviderInv /\ nextConsumer => ProviderInv'
<1> SUFFICES ASSUME ProviderInv, nextConsumer PROVE ProviderInv'
  OBVIOUS
<1>1. /\ pc \in {"onStartDay", "onMarketData", "onEndDay"}
      /\ at' = at + 1 /\ at + 1 \in Consumers /\ at \in Consumers
      /\ UNCHANGED <<current_date, current_time, ticks, pc, target, firing>>
      /\ \A c \in Consumers : c \in Int
  BY ConsumersAssumption DEF nextConsumer, MoreConsumers, ProviderInv, ProviderOK, Consumers
<1>2. ASSUME NEW t, NEW c \in Consumers, InTime(t, c), pc = "onEndDay" => c # at + 1
      PROVE  InTime(t, c)'
  BY <1>1, <1>2 DEF InTime, Advancing
<1>3. TimersInTime'
  <2>1. CASE pc = "onEndDay"
    <3>1. allTimers' = ClearedOf(at + 1)
      BY <2>1 DEF nextConsumer
    <3>2. /\ DOMAIN allTimers' = Consumers /\ DOMAIN allTimers'[at + 1] = {}
          /\ \A b \in Consumers \ {at + 1} : allTimers'[b] = allTimers[b]
      BY <1>1, <3>1, Cleared DEF ProviderInv
    <3> QED
      BY <1>2, <3>2 DEF ProviderInv, TimersInTime
  <2>2. CASE pc # "onEndDay"
    <3>1. UNCHANGED allTimers
      BY <2>2 DEF nextConsumer
    <3> QED
      BY <1>2, <2>2, <3>1 DEF ProviderInv, TimersInTime
  <2> QED
    BY <2>1, <2>2
<1>4. ProviderOK' /\ TicksAhead'
  BY <1>1 DEF ProviderInv, ProviderOK, TicksAhead, Advancing
<1> QED
  BY <1>3, <1>4 DEF ProviderInv

\* Once the last consumer was called every timer of the day is gone.
LEMMA LastConsumerStep == ProviderInv /\ lastConsumer => ProviderInv'
<1> SUFFICES ASSUME ProviderInv, lastConsumer PROVE ProviderInv'
  OBVIOUS
<1>1. /\ pc \in {"onStartDay", "onMarketData", "onEndDay"}
      /\ pc' = IF pc = "onEndDay" THEN "between" ELSE "ticks"
      /\ at' = 1 /\ 1 \in Consumers /\ \A c \in Consumers : c <= at
      /\ UNCHANGED <<current_date, current_time, allTimers, ticks, target, firing>>
  BY ConsumersAssumption DEF lastConsumer, MoreConsumers, ProviderInv, ProviderOK, Consumers
<1>2. ASSUME NEW t, NEW c \in Consumers, InTime(t, c) PROVE InTime(t, c)'
  BY <1>1, <1>2 DEF InTime, Advancing
<1>3. TimersInTime'
  BY <1>1, <1>2 DEF ProviderInv, TimersInTime
<1>4. ProviderOK' /\ TicksAhead'
  BY <1>1 DEF ProviderInv, ProviderOK, TicksAhead, Advancing
<1> QED
  BY <1>3, <1>4 DEF ProviderInv

\* The lemmas above, one for each action, together.
LEMMA ProviderInvStep == ProviderInv /\ [Next]_vars => ProviderInv'
<1> SUFFICES ASSUME ProviderInv, [Next]_vars PROVE ProviderInv'
  OBVIOUS
<1>1. CASE Consumer
  BY <1>1, SetTimerStep, CancelTimerStep DEF Consumer
<1>2. CASE Provider
  BY <1>2, StartDateStep, SetOutStep, FireTimerStep, ReturnStep, FinishAdvanceStep,
     NextConsumerStep, LastConsumerStep DEF Provider, DuringDay
<1>3. CASE UNCHANGED vars
  BY <1>3 DEF vars, ProviderInv, TimersInTime, InTime, ProviderOK, TicksAhead, Advancing
<1> QED
  BY <1>1, <1>2, <1>3 DEF Next

LEMMA ProviderInvariant == Spec => []ProviderInv
  BY ProviderInvInit, ProviderInvStep, PTL DEF Spec

-----------------------------------------------------------------------------
(* What follows from it.                                                   *)

\* The clock's variables keep their types, and a timer that fires is in allTimers unless
\* its handler cancelled it.
THEOREM ProviderTypeInvariant == Spec => []TypeOK
<1>1. ProviderInv => TypeOK
  BY DEF ProviderInv, TimersInTime, InTime, TimerInfos, ProviderOK, TypeOK, Pending
<1> QED
  BY <1>1, ProviderInvariant, PTL

\* No timer is ever behind the clock.
THEOREM TimersOnTime == Spec => []NoTimerOverdue
<1>1. ProviderInv => NoTimerOverdue
  <2> SUFFICES ASSUME ProviderInv, NEW p \in Pending
               PROVE  IF pc \in {"advance", "onTimer"} THEN Trigger(p) >= current_time
                                                      ELSE Trigger(p) > current_time
    BY DEF NoTimerOverdue
  <2>1. InTime(allTimers[p[1]][p[2]], p[1])
    BY DEF ProviderInv, TimersInTime, Pending
  <2> QED
    BY <2>1 DEF InTime, Trigger, Advancing
<1> QED
  BY <1>1, ProviderInvariant, PTL

\* endDate leaves no timer of the day, and startDate finds those of the new day only.
THEOREM TimersEndWithDay == Spec => []TimersOfTheDay
<1>1. ProviderInv => TimersOfTheDay
  <2> SUFFICES ASSUME ProviderInv, NEW p \in Pending
               PROVE  /\ allTimers[p[1]][p[2]].day >= current_date
                      /\ pc = "between" => allTimers[p[1]][p[2]].day > current_date
    BY DEF TimersOfTheDay
  <2>1. InTime(allTimers[p[1]][p[2]], p[1])
    BY DEF ProviderInv, TimersInTime, Pending
  <2> QED
    BY <2>1 DEF InTime
<1> QED
  BY <1>1, ProviderInvariant, PTL

\* The clock goes to a tick or to a timer that is not behind it, or to the day's last
\* second.
THEOREM ClockForward == Spec => ClockRunsForward
<1>1. ProviderInv /\ [Next]_vars =>
        (current_date' = current_date /\ current_time' < current_time =>
           ticks = <<>> /\ current_time > LastMs /\ current_time' = LastMs)
  <2> SUFFICES ASSUME ProviderInv, [Next]_vars, current_date' = current_date,
                      current_time' < current_time
               PROVE  ticks = <<>> /\ current_time > LastMs /\ current_time' = LastMs
    OBVIOUS
  <2>1. current_date \in Int /\ current_time \in Nat
    BY ConsumersAssumption DEF ProviderInv, ProviderOK
  <2>2. CASE fireTimer
    BY <2>1, <2>2, FireTimerStep DEF ProviderInv, ProviderOK
  <2>3. CASE finishAdvance
    BY <2>1, <2>3, FinishAdvanceStep
  <2>4. ASSUME NEW day \in Days, startDate(day) PROVE FALSE
    BY <2>1, <2>4 DEF startDate
  <2>5. CASE Consumer
    <3>1. current_time' = current_time
      BY <2>5 DEF Consumer, setTimer, cancelTimer
    <3> QED
      BY <2>1, <3>1
  <2>6. CASE \/ setNextTickTime \/ endDate \/ returnFromOnTimer \/ nextConsumer \/ lastConsumer
           \/ UNCHANGED vars
    <3>1. current_time' = current_time
      BY <2>6 DEF setNextTickTime, endDate, returnFromOnTimer, nextConsumer, lastConsumer, vars
    <3> QED
      BY <2>1, <3>1
  <2> QED
    BY <2>2, <2>3, <2>4, <2>5, <2>6 DEF Next, Provider, DuringDay
<1> QED
  BY <1>1, ProviderInvariant, PTL DEF Spec, ClockRunsForward

-----------------------------------------------------------------------------
(* One merge: how far it is in either vector.                              *)

\* Where the loops of addDataStore take the next tick from, k and l being taken already.
FirstNext(s1, s2, k, l) ==
  /\ k < Len(s1)
  /\ l < Len(s2) => s1[k + 1].timeInMS < s2[l + 1].timeInMS

\* taken[i] of the first i ticks come from s1.
IsTaken(taken, s1, s2) ==
  /\ taken[0] = 0
  /\ \A i \in 1 .. Len(s1) + Len(s2) :
       taken[i] = IF FirstNext(s1, s2, taken[i - 1], i - 1 - taken[i - 1]) THEN taken[i - 1] + 1
                                                                          ELSE taken[i - 1]

IsMerge(r, taken, s1, s2) ==
  r = [i \in 1 .. Len(s1) + Len(s2) |->
         IF taken[i - 1] < taken[i] THEN s1[taken[i]] ELSE s2[i - taken[i]]]

LEMMA TakenExists ==
  ASSUME NEW s1 \in Seq(Ticks), NEW s2 \in Seq(Ticks), NEW n, n = Len(s1) + Len(s2)
  PROVE  \E f : f = [i \in 0 .. n |->
                       IF i = 0 THEN 0
                       ELSE IF FirstNext(s1, s2, f[i - 1], i - 1 - f[i - 1]) THEN f[i - 1] + 1
                       ELSE f[i - 1]]
<1>1. n \in Nat /\ 0 \in Nat
  OBVIOUS
<1>2. PICK g : g = [i \in 1 .. n |-> [k \in Nat |-> IF FirstNext(s1, s2, k, i - 1 - k) THEN k + 1 ELSE k]]
  OBVIOUS
<1>3. /\ g \in [1 .. n -> [Nat -> Nat]]
      /\ \A i \in 1 .. n, k \in Nat :
           g[i][k] = IF FirstNext(s1, s2, k, i - 1 - k) THEN k + 1 ELSE k
  BY <1>2
<1>4. PICK iter \in [SUBSET (1 .. n) -> Nat] : IsFold(iter, n, 0, g)
  BY <1>1, <1>3, FoldExists
<1>5. FoldsIn(Nat, iter, n, 0, g)
  BY <1>4 DEF IsFold, FoldsIn
<1>6. PICK run \in [0 .. n -> Nat] : IsRun(run, n, 0, g, iter[1 .. n])
  BY <1>1, <1>3, <1>5, FoldRun
<1>7. ASSUME NEW i \in 0 .. n
      PROVE  run[i] = IF i = 0 THEN 0
                      ELSE IF FirstNext(s1, s2, run[i - 1], i - 1 - run[i - 1]) THEN run[i - 1] + 1
                      ELSE run[i - 1]
  <2>1. CASE i = 0
    BY <1>6, <2>1 DEF IsRun
  <2>2. CASE i # 0
    <3>1. i \in 1 .. n /\ i - 1 \in 0 .. n
      BY <1>1, <2>2
    <3>2. run[i] = g[i][run[i - 1]] /\ run[i - 1] \in Nat
      BY <1>6, <3>1 DEF IsRun
    <3> QED
      BY <1>3, <2>2, <3>1, <3>2
  <2> QED
    BY <2>1, <2>2
<1>8. run = [i \in 0 .. n |->
               IF i = 0 THEN 0
               ELSE IF FirstNext(s1, s2, run[i - 1], i - 1 - run[i - 1]) THEN run[i - 1] + 1
               ELSE run[i - 1]]
  BY <1>6, <1>7
<1> QED
  BY <1>8

LEMMA MergeIs ==
  ASSUME NEW s1 \in Seq(Ticks), NEW s2 \in Seq(Ticks)
  PROVE  \E taken : IsTaken(taken, s1, s2) /\ IsMerge(Merge(s1, s2), taken, s1, s2)
<1> DEFINE Defines(f) ==
      f = [i \in 0 .. Len(s1) + Len(s2) |->
             IF i = 0 THEN 0
             ELSE IF FirstNext(s1, s2, f[i - 1], i - 1 - f[i - 1]) THEN f[i - 1] + 1
             ELSE f[i - 1]]
           taken == CHOOSE f : Defines(f)
<1>1. Defines(taken)
  <2>1. \E f : Defines(f)
    BY TakenExists
  <2> HIDE DEF Defines
  <2> QED
    BY <2>1
<1>2. IsMerge(Merge(s1, s2), taken, s1, s2)
  BY DEF IsMerge, Merge, FirstNext
<1> HIDE DEF taken
<1>3. IsTaken(taken, s1, s2)
  <2>1. PICK n : n = Len(s1) + Len(s2)
    OBVIOUS
  <2>2. n \in Nat
    BY <2>1
  <2>3. taken = [i \in 0 .. n |->
             IF i = 0 THEN 0
             ELSE IF FirstNext(s1, s2, taken[i - 1], i - 1 - taken[i - 1]) THEN taken[i - 1] + 1
             ELSE taken[i - 1]]
    BY <1>1, <2>1
  <2>4. \A i \in 0 .. n : taken[i] =
             IF i = 0 THEN 0
             ELSE IF FirstNext(s1, s2, taken[i - 1], i - 1 - taken[i - 1]) THEN taken[i - 1] + 1
             ELSE taken[i - 1]
    BY <2>3
  <2>5. \A i \in 1 .. n : i \in 0 .. n /\ i # 0
    BY <2>2
  <2>6. taken[0] = 0
    BY <2>2, <2>4
  <2> QED
    BY <2>1, <2>4, <2>5, <2>6 DEF IsTaken
<1> QED
  BY <1>2, <1>3

\* The next tick of the merge is the first vector's ...
FirstTaken(r, taken, s1, s2, i, k, l) ==
  /\ k < Len(s1) /\ taken[i + 1] = k + 1 /\ r[i + 1] = s1[k + 1]
  /\ l < Len(s2) => s1[k + 1].timeInMS <= s2[l + 1].timeInMS

\* ... or the second's.
SecondTaken(r, taken, s1, s2, i, k, l) ==
  /\ l < Len(s2) /\ taken[i + 1] = k /\ r[i + 1] = s2[l + 1]
  /\ k < Len(s1) => s2[l + 1].timeInMS <= s1[k + 1].timeInMS

MergeAt(r, taken, s1, s2, i) ==
  \E k \in 0 .. Len(s1), l \in 0 .. Len(s2) :
    /\ taken[i] = k /\ k + l = i
    /\ i < Len(s1) + Len(s2) => \/ FirstTaken(r, taken, s1, s2, i, k, l)
                                \/ SecondTaken(r, taken, s1, s2, i, k, l)

LEMMA MergeSteps ==
  ASSUME NEW s1 \in Seq(Ticks), NEW s2 \in Seq(Ticks), NEW taken, IsTaken(taken, s1, s2),
         NEW r, IsMerge(r, taken, s1, s2)
  PROVE  \A i \in 0 .. Len(s1) + Len(s2) : MergeAt(r, taken, s1, s2, i)
<1>1. PICK n1, n2, n : n1 = Len(s1) /\ n2 = Len(s2) /\ n = n1 + n2
  OBVIOUS
<1>2. n1 \in Nat /\ n2 \in Nat /\ n \in Nat
  BY <1>1
<1>3. /\ \A k \in 0 .. n1 - 1 : s1[k + 1].timeInMS \in Nat
      /\ \A k \in 0 .. n2 - 1 : s2[k + 1].timeInMS \in Nat
  <2>1. /\ \A k \in 0 .. n1 - 1 : s1[k + 1] \in Ticks
        /\ \A k \in 0 .. n2 - 1 : s2[k + 1] \in Ticks
    BY <1>1, <1>2
  <2> QED
    BY <2>1 DEF Ticks
<1> DEFINE In(i) == \E k \in 0 .. n1, l \in 0 .. n2 : taken[i] = k /\ k + l = i
<1>4. ASSUME NEW i \in 0 .. n - 1, NEW k \in 0 .. n1, NEW l \in 0 .. n2, taken[i] = k, k + l = i
      PROVE  FirstTaken(r, taken, s1, s2, i, k, l) \/ SecondTaken(r, taken, s1, s2, i, k, l)
  <2> PICK j : j = i + 1
    OBVIOUS
  <2>1. j \in 1 .. n /\ j - 1 = i /\ j - 1 - k = l /\ j - k = l + 1
    BY <1>2, <1>4
  <2>2. taken[j] = IF FirstNext(s1, s2, k, l) THEN k + 1 ELSE k
    BY <1>1, <1>4, <2>1 DEF IsTaken
  <2>3. r[j] = IF k < taken[j] THEN s1[taken[j]] ELSE s2[j - taken[j]]
    <3>1. r = [x \in 1 .. n |-> IF taken[x - 1] < taken[x] THEN s1[taken[x]] ELSE s2[x - taken[x]]]
      BY <1>1 DEF IsMerge
    <3> QED
      BY <1>4, <2>1, <3>1
  <2>4. CASE FirstNext(s1, s2, k, l)
    <3>1. k < n1 /\ (l < n2 => s1[k + 1].timeInMS < s2[l + 1].timeInMS)
      BY <1>1, <2>4 DEF FirstNext
    <3>2. taken[j] = k + 1 /\ k < k + 1 /\ r[j] = s1[k + 1]
      BY <1>2, <2>2, <2>3, <2>4
    <3>3. ASSUME l < n2 PROVE s1[k + 1].timeInMS <= s2[l + 1].timeInMS
      <4>1. PICK x, y : x = s1[k + 1].timeInMS /\ y = s2[l + 1].timeInMS
        OBVIOUS
      <4>2. k \in 0 .. n1 - 1 /\ l \in 0 .. n2 - 1
        BY <1>2, <3>1, <3>3
      <4>3. x \in Nat /\ y \in Nat /\ x < y
        BY <1>3, <3>1, <3>3, <4>1, <4>2
      <4> QED
        BY <4>1, <4>3
    <3> QED
      BY <1>1, <3>1, <3>2, <3>3 DEF FirstTaken
  <2>5. CASE ~FirstNext(s1, s2, k, l)
    <3>1. ~(k < n1 /\ (l < n2 => s1[k + 1].timeInMS < s2[l + 1].timeInMS))
      BY <1>1, <2>5 DEF FirstNext
    <3>2. taken[j] = k /\ r[j] = s2[l + 1]
      BY <1>2, <2>1, <2>2, <2>3, <2>5
    <3>3. l < n2
      BY <1>1, <1>2, <1>4, <3>1
    <3>4. ASSUME k < n1 PROVE s2[l + 1].timeInMS <= s1[k + 1].timeInMS
      <4>1. PICK x, y : x = s1[k + 1].timeInMS /\ y = s2[l + 1].timeInMS
        OBVIOUS
      <4>2. k \in 0 .. n1 - 1 /\ l \in 0 .. n2 - 1
        BY <1>2, <3>3, <3>4
      <4>3. x \in Nat /\ y \in Nat /\ ~(x < y)
        BY <1>3, <3>1, <3>3, <3>4, <4>1, <4>2
      <4> QED
        BY <4>1, <4>3
    <3> QED
      BY <1>1, <3>2, <3>3, <3>4 DEF SecondTaken
  <2> QED
    BY <2>4, <2>5
<1> DEFINE ok == {i \in 0 .. n : In(i)}
<1>5. 0 \in ok
  <2>1. taken[0] = 0 /\ 0 \in 0 .. n1 /\ 0 \in 0 .. n2 /\ 0 + 0 = 0 /\ 0 \in 0 .. n
    BY <1>2 DEF IsTaken
  <2> QED
    BY <2>1
<1>6. ASSUME NEW i \in 0 .. n - 1, i \in ok PROVE i + 1 \in ok
  <2>1. PICK k \in 0 .. n1, l \in 0 .. n2 : taken[i] = k /\ k + l = i
    BY <1>6
  <2>2. FirstTaken(r, taken, s1, s2, i, k, l) \/ SecondTaken(r, taken, s1, s2, i, k, l)
    BY <1>4, <2>1
  <2>3. \/ k < n1 /\ taken[i + 1] = k + 1
        \/ l < n2 /\ taken[i + 1] = k
    BY <1>1, <2>2 DEF FirstTaken, SecondTaken
  <2>4. i + 1 \in 0 .. n
    BY <1>2
  <2>5. CASE k < n1 /\ taken[i + 1] = k + 1
    <3>1. k + 1 \in 0 .. n1 /\ (k + 1) + l = i + 1
      BY <1>2, <2>1, <2>5
    <3>2. In(i + 1)
      BY <2>5, <3>1
    <3> HIDE DEF In
    <3> QED
      BY <2>4, <3>2
  <2>6. CASE l < n2 /\ taken[i + 1] = k
    <3>1. l + 1 \in 0 .. n2 /\ k + (l + 1) = i + 1
      BY <1>2, <2>1, <2>6
    <3>2. In(i + 1)
      BY <2>6, <3>1
    <3> HIDE DEF In
    <3> QED
      BY <2>4, <3>2
  <2> QED
    BY <2>3, <2>5, <2>6
<1>7. \A i \in 0 .. n : i \in ok
  <2> HIDE DEF ok
  <2> QED
    BY <1>2, <1>5, <1>6, UpTo
<1>8. ASSUME NEW i \in 0 .. n PROVE MergeAt(r, taken, s1, s2, i)
  <2>1. PICK k \in 0 .. n1, l \in 0 .. n2 : taken[i] = k /\ k + l = i
    BY <1>7
  <2>2. i < n => FirstTaken(r, taken, s1, s2, i, k, l) \/ SecondTaken(r, taken, s1, s2, i, k, l)
    <3> SUFFICES ASSUME i < n
                 PROVE  FirstTaken(r, taken, s1, s2, i, k, l) \/ SecondTaken(r, taken, s1, s2, i, k, l)
      OBVIOUS
    <3>1. i \in 0 .. n - 1
      BY <1>2
    <3> QED
      BY <1>4, <2>1, <3>1
  <2> QED
    BY <1>1, <2>1, <2>2 DEF MergeAt
<1> QED
  BY <1>1, <1>8

-----------------------------------------------------------------------------
(* What a merge keeps.                                                     *)

InOrder(s) == \A k, l \in 1 .. Len(s) : k < l => s[k].timeInMS <= s[l].timeInMS

\* A merge has a tick of either vector at each of its places.
LEMMA MergeType ==
  ASSUME NEW s1 \in Seq(Ticks), NEW s2 \in Seq(Ticks), NEW taken, NEW r, IsMerge(r, taken, s1, s2),
         \A i \in 0 .. Len(s1) + Len(s2) : MergeAt(r, taken, s1, s2, i)
  PROVE  /\ r \in Seq(Ticks) /\ Len(r) = Len(s1) + Len(s2)
         /\ \A i \in 1 .. Len(r) : r[i] \in Range(s1) \cup Range(s2)
<1>1. PICK n1, n2, n : n1 = Len(s1) /\ n2 = Len(s2) /\ n = n1 + n2
  OBVIOUS
<1>2. n1 \in Nat /\ n2 \in Nat /\ n \in Nat
  BY <1>1
<1>3. ASSUME NEW i \in 1 .. n PROVE r[i] \in Ticks /\ r[i] \in Range(s1) \cup Range(s2)
  <2> PICK h : h = i - 1
    OBVIOUS
  <2>1. h \in 0 .. n /\ h < n /\ h + 1 = i
    BY <1>2
  <2>2. MergeAt(r, taken, s1, s2, h)
    BY <1>1, <2>1
  <2>3. PICK k \in 0 .. n1, l \in 0 .. n2 : \/ FirstTaken(r, taken, s1, s2, h, k, l)
                                            \/ SecondTaken(r, taken, s1, s2, h, k, l)
    BY <1>1, <2>1, <2>2 DEF MergeAt
  <2>4. CASE FirstTaken(r, taken, s1, s2, h, k, l)
    <3>1. r[i] = s1[k + 1] /\ k + 1 \in 1 .. n1
      BY <1>1, <1>2, <2>1, <2>4 DEF FirstTaken
    <3> QED
      BY <1>1, <3>1 DEF Range
  <2>5. CASE SecondTaken(r, taken, s1, s2, h, k, l)
    <3>1. r[i] = s2[l + 1] /\ l + 1 \in 1 .. n2
      BY <1>1, <1>2, <2>1, <2>5 DEF SecondTaken
    <3> QED
      BY <1>1, <3>1 DEF Range
  <2> QED
    BY <2>3, <2>4, <2>5
<1>4. r = [i \in 1 .. n |-> r[i]]
  <2>1. \E f : r = [i \in 1 .. n |-> f[i]]
    <3>1. r = [i \in 1 .. n |-> IF taken[i - 1] < taken[i] THEN s1[taken[i]] ELSE s2[i - taken[i]]]
      BY <1>1 DEF IsMerge
    <3>2. r = [i \in 1 .. n |-> r[i]]
      BY <3>1
    <3> QED
      BY <3>2
  <2> QED
    BY <2>1
<1>5. r \in Seq(Ticks) /\ Len(r) = n
  <2>1. r \in [1 .. n -> Ticks]
    BY <1>3, <1>4
  <2> QED
    BY <1>2, <2>1
<1> QED
  BY <1>1, <1>3, <1>5

LEMMA NotAfter ==
  ASSUME NEW x \in Nat, NEW y \in Nat, NEW z \in Nat, x <= y, y <= z
  PROVE  x <= z
  OBVIOUS

\* What is merged is in order when what it is merged from is.
LEMMA MergeInOrder ==
  ASSUME NEW s1 \in Seq(Ticks), NEW s2 \in Seq(Ticks), InOrder(s1), InOrder(s2),
         NEW taken, NEW r, IsMerge(r, taken, s1, s2),
         \A i \in 0 .. Len(s1) + Len(s2) : MergeAt(r, taken, s1, s2, i)
  PROVE  InOrder(r)
<1>1. PICK n1, n2, n : n1 = Len(s1) /\ n2 = Len(s2) /\ n = n1 + n2
  OBVIOUS
<1>2. n1 \in Nat /\ n2 \in Nat /\ n \in Nat
  BY <1>1
<1>3. r \in Seq(Ticks) /\ Len(r) = n
  BY <1>1, MergeType
<1> PICK t1, t2, t : /\ t1 = [k \in 1 .. n1 |-> s1[k].timeInMS]
                     /\ t2 = [k \in 1 .. n2 |-> s2[k].timeInMS]
                     /\ t = [k \in 1 .. n |-> r[k].timeInMS]
  OBVIOUS
<1>4. /\ \A k \in 1 .. n1 : t1[k] \in Nat /\ t1[k] = s1[k].timeInMS
      /\ \A k \in 1 .. n2 : t2[k] \in Nat /\ t2[k] = s2[k].timeInMS
      /\ \A k \in 1 .. n : t[k] \in Nat /\ t[k] = r[k].timeInMS
  <2>1. /\ \A k \in 1 .. n1 : s1[k] \in Ticks
        /\ \A k \in 1 .. n2 : s2[k] \in Ticks
        /\ \A k \in 1 .. n : r[k] \in Ticks
    BY <1>1, <1>3
  <2> QED
    BY <2>1 DEF Ticks
<1>5. /\ \A k, l \in 1 .. n1 : k < l => t1[k] <= t1[l]
      /\ \A k, l \in 1 .. n2 : k < l => t2[k] <= t2[l]
  BY <1>1, <1>4 DEF InOrder
\* Everything merged is no later than what is next in either vector.
<1> DEFINE Before(j, k, l) == /\ k < n1 => t[j] <= t1[k + 1]
                              /\ l < n2 => t[j] <= t2[l + 1]
           At(i) == \E k \in 0 .. n1, l \in 0 .. n2 :
                      /\ taken[i] = k /\ k + l = i
                      /\ \A j \in 1 .. i : Before(j, k, l)
           ok == {i \in 0 .. n : At(i)}
<1>6. 0 \in ok
  <2>1. PICK k \in 0 .. n1, l \in 0 .. n2 : taken[0] = k /\ k + l = 0
    <3>1. 0 \in 0 .. n
      BY <1>2
    <3> QED
      BY <1>1, <3>1 DEF MergeAt
  <2>2. 1 .. 0 = {} /\ 0 \in 0 .. n
    BY <1>2
  <2> QED
    BY <2>1, <2>2
<1> DEFINE Goes(i, k, l) ==
      \/ /\ k < n1 /\ taken[i + 1] = k + 1 /\ t[i + 1] = t1[k + 1]
         /\ l < n2 => t1[k + 1] <= t2[l + 1]
      \/ /\ l < n2 /\ taken[i + 1] = k /\ t[i + 1] = t2[l + 1]
         /\ k < n1 => t2[l + 1] <= t1[k + 1]
<1>7. ASSUME NEW i \in 0 .. n - 1, NEW k \in 0 .. n1, NEW l \in 0 .. n2, taken[i] = k, k + l = i
      PROVE  Goes(i, k, l)
  <2>1. MergeAt(r, taken, s1, s2, i) /\ i < n
    <3>1. i \in 0 .. n /\ i < n
      BY <1>2
    <3> QED
      BY <1>1, <3>1
  <2>2. PICK a \in 0 .. n1, b \in 0 .. n2 :
          /\ taken[i] = a /\ a + b = i
          /\ FirstTaken(r, taken, s1, s2, i, a, b) \/ SecondTaken(r, taken, s1, s2, i, a, b)
    BY <1>1, <2>1 DEF MergeAt
  <2>3. a = k /\ b = l
    BY <1>2, <1>7, <2>2
  <2>4. FirstTaken(r, taken, s1, s2, i, k, l) \/ SecondTaken(r, taken, s1, s2, i, k, l)
    BY <2>2, <2>3
  <2>5. i + 1 \in 1 .. n /\ (k < n1 => k + 1 \in 1 .. n1) /\ (l < n2 => l + 1 \in 1 .. n2)
    BY <1>2
  <2>6. CASE FirstTaken(r, taken, s1, s2, i, k, l)
    BY <1>1, <1>4, <2>5, <2>6 DEF FirstTaken
  <2>7. CASE SecondTaken(r, taken, s1, s2, i, k, l)
    BY <1>1, <1>4, <2>5, <2>7 DEF SecondTaken
  <2> QED
    BY <2>4, <2>6, <2>7
<1>8. ASSUME NEW i \in 0 .. n - 1, i \in ok PROVE i + 1 \in ok
  <2>1. PICK k \in 0 .. n1, l \in 0 .. n2 :
          taken[i] = k /\ k + l = i /\ \A j \in 1 .. i : Before(j, k, l)
    BY <1>8
  <2>2. /\ k \in Nat /\ l \in Nat /\ k <= n1 /\ l <= n2
        /\ i + 1 \in 0 .. n /\ i + 1 \in 1 .. n
        /\ \A j \in 1 .. i + 1 : j \in 1 .. n /\ (j # i + 1 => j \in 1 .. i)
    BY <1>2, <2>1
  <2>3. CASE /\ k < n1 /\ taken[i + 1] = k + 1 /\ t[i + 1] = t1[k + 1]
             /\ l < n2 => t1[k + 1] <= t2[l + 1]
    <3>1. k + 1 \in 0 .. n1 /\ (k + 1) + l = i + 1 /\ k + 1 \in 1 .. n1
      BY <1>2, <2>1, <2>2, <2>3
    <3>2. k + 1 < n1 => t1[k + 1] <= t1[(k + 1) + 1]
      <4>1. k + 1 < n1 => (k + 1) + 1 \in 1 .. n1 /\ k + 1 < (k + 1) + 1
        BY <1>2, <2>2
      <4> QED
        BY <1>5, <3>1, <4>1
    <3>3. ASSUME NEW j \in 1 .. i + 1 PROVE Before(j, k + 1, l)
      <4>1. t[j] <= t1[k + 1]
        <5>1. CASE j = i + 1
          BY <1>4, <2>3, <3>1, <5>1
        <5>2. CASE j # i + 1
          BY <2>1, <2>2, <2>3, <5>2
        <5> QED
          BY <5>1, <5>2
      <4>2. k + 1 < n1 => (k + 1) + 1 \in 1 .. n1
        BY <1>2, <2>2
      <4>3. t[j] \in Nat /\ t1[k + 1] \in Nat /\ (k + 1 < n1 => t1[(k + 1) + 1] \in Nat)
        BY <1>4, <2>2, <3>1, <4>2
      <4>4. k + 1 < n1 => t[j] <= t1[(k + 1) + 1]
        <5> SUFFICES ASSUME k + 1 < n1 PROVE t[j] <= t1[(k + 1) + 1]
          OBVIOUS
        <5> PICK x, y, z : x = t[j] /\ y = t1[k + 1] /\ z = t1[(k + 1) + 1]
          OBVIOUS
        <5>1. x \in Nat /\ y \in Nat /\ z \in Nat /\ x <= y /\ y <= z
          BY <3>2, <4>1, <4>3
        <5>2. x <= z
          BY <5>1, NotAfter
        <5> QED
          BY <5>2
      <4>5. l < n2 => t[j] <= t2[l + 1]
        <5> SUFFICES ASSUME l < n2 PROVE t[j] <= t2[l + 1]
          OBVIOUS
        <5>1. l + 1 \in 1 .. n2
          BY <1>2, <2>2
        <5> PICK x, y, z : x = t[j] /\ y = t1[k + 1] /\ z = t2[l + 1]
          OBVIOUS
        <5>2. x \in Nat /\ y \in Nat /\ z \in Nat /\ x <= y
          BY <1>4, <4>1, <4>3, <5>1
        <5>3. y <= z
          BY <2>3
        <5>4. x <= z
          BY <5>2, <5>3, NotAfter
        <5> QED
          BY <5>4
      <4> QED
        BY <4>4, <4>5
    <3>4. At(i + 1)
      <4> HIDE DEF Before
      <4> QED
        BY <2>3, <3>1, <3>3
    <3> HIDE DEF At
    <3> QED
      BY <2>2, <3>4
  <2>4. CASE /\ l < n2 /\ taken[i + 1] = k /\ t[i + 1] = t2[l + 1]
             /\ k < n1 => t2[l + 1] <= t1[k + 1]
    <3>1. l + 1 \in 0 .. n2 /\ k + (l + 1) = i + 1 /\ l + 1 \in 1 .. n2
      BY <1>2, <2>1, <2>2, <2>4
    <3>2. l + 1 < n2 => t2[l + 1] <= t2[(l + 1) + 1]
      <4>1. l + 1 < n2 => (l + 1) + 1 \in 1 .. n2 /\ l + 1 < (l + 1) + 1
        BY <1>2, <2>2
      <4> QED
        BY <1>5, <3>1, <4>1
    <3>3. ASSUME NEW j \in 1 .. i + 1 PROVE Before(j, k, l + 1)
      <4>1. t[j] <= t2[l + 1]
        <5>1. CASE j = i + 1
          BY <1>4, <2>4, <3>1, <5>1
        <5>2. CASE j # i + 1
          BY <2>1, <2>2, <2>4, <5>2
        <5> QED
          BY <5>1, <5>2
      <4>2. l + 1 < n2 => (l + 1) + 1 \in 1 .. n2
        BY <1>2, <2>2
      <4>3. t[j] \in Nat /\ t2[l + 1] \in Nat /\ (l + 1 < n2 => t2[(l + 1) + 1] \in Nat)
        BY <1>4, <2>2, <3>1, <4>2
      <4>4. l + 1 < n2 => t[j] <= t2[(l + 1) + 1]
        <5> SUFFICES ASSUME l + 1 < n2 PROVE t[j] <= t2[(l + 1) + 1]
          OBVIOUS
        <5> PICK x, y, z : x = t[j] /\ y = t2[l + 1] /\ z = t2[(l + 1) + 1]
          OBVIOUS
        <5>1. x \in Nat /\ y \in Nat /\ z \in Nat /\ x <= y /\ y <= z
          BY <3>2, <4>1, <4>3
        <5>2. x <= z
          BY <5>1, NotAfter
        <5> QED
          BY <5>2
      <4>5. k < n1 => t[j] <= t1[k + 1]
        <5> SUFFICES ASSUME k < n1 PROVE t[j] <= t1[k + 1]
          OBVIOUS
        <5>1. k + 1 \in 1 .. n1
          BY <1>2, <2>2
        <5> PICK x, y, z : x = t[j] /\ y = t2[l + 1] /\ z = t1[k + 1]
          OBVIOUS
        <5>2. x \in Nat /\ y \in Nat /\ z \in Nat /\ x <= y
          BY <1>4, <4>1, <4>3, <5>1
        <5>3. y <= z
          BY <2>4
        <5>4. x <= z
          BY <5>2, <5>3, NotAfter
        <5> QED
          BY <5>4
      <4> QED
        BY <4>4, <4>5
    <3>4. At(i + 1)
      <4> HIDE DEF Before
      <4> QED
        BY <2>4, <3>1, <3>3
    <3> HIDE DEF At
    <3> QED
      BY <2>2, <3>4
  <2>5. Goes(i, k, l)
    <3> HIDE DEF Before, Goes
    <3> QED
      BY <1>7, <2>1
  <2> HIDE DEF ok
  <2> QED
    BY <2>3, <2>4, <2>5
<1>9. \A i \in 0 .. n : i \in ok
  <2> HIDE DEF ok
  <2> QED
    BY <1>2, <1>6, <1>8, UpTo
<1>10. ASSUME NEW j \in 1 .. n, NEW m \in 1 .. n, j < m PROVE t[j] <= t[m]
  <2> PICK i : i = m - 1
    OBVIOUS
  <2>1. i \in 0 .. n - 1 /\ i \in 0 .. n /\ i + 1 = m /\ j \in 1 .. i
    BY <1>2, <1>10
  <2>2. PICK k \in 0 .. n1, l \in 0 .. n2 :
          taken[i] = k /\ k + l = i /\ \A x \in 1 .. i : Before(x, k, l)
    BY <1>9, <2>1
  <2>3. Before(j, k, l)
    BY <2>1, <2>2
  <2>4. \/ k < n1 /\ t[m] = t1[k + 1]
        \/ l < n2 /\ t[m] = t2[l + 1]
    <3>1. taken[i] = k /\ k + l = i
      BY <2>2
    <3>2. Goes(i, k, l)
      <4> HIDE DEF Goes
      <4> QED
        BY <1>7, <2>1, <3>1
    <3> QED
      BY <2>1, <3>2
  <2> QED
    BY <2>3, <2>4
<1> QED
  BY <1>3, <1>4, <1>10 DEF InOrder

-----------------------------------------------------------------------------
(* The ticks of one instrument.                                            *)

Own(tick, inst) == IF tick.instIndex = inst THEN <<tick>> ELSE <<>>

\* Those among the first n.
OfFirst(s, inst, n) == FlattenSeq([k \in 1 .. n |-> Own(s[k], inst)])

LEMMA OwnType ==
  ASSUME NEW tick \in Ticks, NEW inst
  PROVE  Own(tick, inst) \in Seq(Ticks)
  BY DEF Own

LEMMA OfInstrumentIs ==
  ASSUME NEW s \in Seq(Ticks), NEW inst
  PROVE  OfInstrument(s, inst) = OfFirst(s, inst, Len(s))
<1>1. DOMAIN s = 1 .. Len(s)
  OBVIOUS
<1>2. [k \in DOMAIN s |-> IF s[k].instIndex = inst THEN <<s[k]>> ELSE <<>>]
        = [k \in 1 .. Len(s) |-> Own(s[k], inst)]
  BY <1>1 DEF Own
<1> QED
  BY <1>2 DEF OfInstrument, OfFirst

LEMMA OfFirstNone ==
  ASSUME NEW s, NEW inst
  PROVE  OfFirst(s, inst, 0) = <<>>
<1>1. PICK none : none = [k \in 1 .. 0 |-> Own(s[k], inst)]
  OBVIOUS
<1>2. none = <<>>
  BY <1>1
<1> QED
  BY <1>1, <1>2, FlattenNone DEF OfFirst

LEMMA OfFirstMore ==
  ASSUME NEW s \in Seq(Ticks), NEW inst, NEW n \in 0 .. Len(s) - 1
  PROVE  /\ OfFirst(s, inst, n) \in Seq(Ticks)
         /\ OfFirst(s, inst, n + 1) = OfFirst(s, inst, n) \o Own(s[n + 1], inst)
<1>1. PICK m, some, more, last : /\ m = n + 1
                                 /\ some = [k \in 1 .. n |-> Own(s[k], inst)]
                                 /\ more = [k \in 1 .. m |-> Own(s[k], inst)]
                                 /\ last = Own(s[m], inst)
  OBVIOUS
<1>2. m \in Nat /\ n \in Nat /\ \A k \in 1 .. m : k \in 1 .. Len(s)
  BY <1>1
<1>3. PICK V : V = Seq(Ticks)
  OBVIOUS
<1>4. \A k \in 1 .. m : Own(s[k], inst) \in V
  <2> SUFFICES ASSUME NEW k \in 1 .. m PROVE Own(s[k], inst) \in V
    OBVIOUS
  <2>1. s[k] \in Ticks
    BY <1>2
  <2> QED
    BY <1>3, <2>1, OwnType
<1>5. \A k \in 1 .. n : k \in 1 .. m
  BY <1>1, <1>2
<1>6. some \in Seq(V) /\ Len(some) = n
  BY <1>1, <1>2, <1>4, <1>5, IsASeq
<1>7. more \in Seq(V) /\ Len(more) = m
  BY <1>1, <1>2, <1>4, IsASeq
<1>8. last \in V
  <2>1. m \in 1 .. m
    BY <1>1, <1>2
  <2> QED
    BY <1>1, <1>4, <2>1
<1>9. more = Append(some, last)
  <2>1. PICK other : other = Append(some, last)
    OBVIOUS
  <2>2. other \in Seq(V) /\ Len(other) = Len(more)
    BY <1>1, <1>6, <1>7, <1>8, <2>1
  <2>3. ASSUME NEW k \in 1 .. Len(more) PROVE more[k] = other[k]
    <3>1. k \in 1 .. m
      BY <1>7
    <3>2. CASE k = m
      <4>1. other[k] = last
        BY <1>1, <1>6, <1>8, <2>1, <3>2
      <4> QED
        BY <1>1, <3>1, <3>2, <4>1
    <3>3. CASE k # m
      <4>1. k \in 1 .. n
        BY <1>1, <1>2, <3>1, <3>3
      <4>2. other[k] = some[k]
        BY <1>6, <1>8, <2>1, <4>1
      <4> QED
        BY <1>1, <3>1, <4>1, <4>2
    <3> QED
      BY <3>2, <3>3
  <2> QED
    BY <1>7, <2>1, <2>2, <2>3, SeqEqual
<1>10. FlattenSeq(some) \in Seq(Ticks) /\ FlattenSeq(more) = FlattenSeq(some) \o last
  BY <1>3, <1>6, <1>8, <1>9, FlattenAppend
<1> QED
  BY <1>1, <1>10 DEF OfFirst

LEMMA OfFirstType ==
  ASSUME NEW s \in Seq(Ticks), NEW inst, NEW n \in 0 .. Len(s)
  PROVE  OfFirst(s, inst, n) \in Seq(Ticks)
<1>1. CASE n < Len(s)
  <2>1. n \in 0 .. Len(s) - 1
    BY <1>1
  <2> QED
    BY <2>1, OfFirstMore
<1>2. CASE n = Len(s) /\ n # 0
  <2> PICK m : m = n - 1
    OBVIOUS
  <2>1. m \in 0 .. Len(s) - 1 /\ m + 1 = n /\ m + 1 \in 1 .. Len(s)
    BY <1>2
  <2> PICK a, b : a = OfFirst(s, inst, m) /\ b = Own(s[m + 1], inst)
    OBVIOUS
  <2>2. a \in Seq(Ticks) /\ OfFirst(s, inst, n) = a \o b
    BY <2>1, OfFirstMore
  <2>3. s[m + 1] \in Ticks
    BY <2>1
  <2>4. b \in Seq(Ticks)
    BY <2>3, OwnType
  <2> QED
    BY <2>2, <2>4
<1>3. CASE n = 0
  <2>1. OfFirst(s, inst, 0) = <<>> /\ <<>> \in Seq(Ticks)
    BY OfFirstNone
  <2> QED
    BY <1>3, <2>1
<1> QED
  BY <1>1, <1>2, <1>3

\* A tick of another instrument adds nothing, and where all are of the instrument all are
\* in.
LEMMA OfOthers ==
  ASSUME NEW s \in Seq(Ticks), NEW inst, \A k \in 1 .. Len(s) : s[k].instIndex # inst
  PROVE  \A n \in 0 .. Len(s) : OfFirst(s, inst, n) = <<>>
<1> DEFINE ok == {n \in 0 .. Len(s) : OfFirst(s, inst, n) = <<>>}
<1>1. Len(s) \in Nat
  OBVIOUS
<1>2. 0 \in ok
  BY <1>1, OfFirstNone
<1>3. ASSUME NEW n \in 0 .. Len(s) - 1, n \in ok PROVE n + 1 \in ok
  <2>1. OfFirst(s, inst, n + 1) = OfFirst(s, inst, n) \o Own(s[n + 1], inst)
    BY OfFirstMore
  <2>2. n + 1 \in 1 .. Len(s) /\ n + 1 \in 0 .. Len(s)
    BY <1>1
  <2>3. Own(s[n + 1], inst) = <<>>
    BY <2>2 DEF Own
  <2>4. <<>> \o <<>> = <<>>
    OBVIOUS
  <2>5. OfFirst(s, inst, n + 1) = <<>>
    BY <1>3, <2>1, <2>3, <2>4
  <2> QED
    BY <2>2, <2>5
<1>4. \A n \in 0 .. Len(s) : n \in ok
  <2> HIDE DEF ok
  <2> QED
    BY <1>1, <1>2, <1>3, UpTo
<1> QED
  BY <1>4

LEMMA OfItself ==
  ASSUME NEW s \in Seq(Ticks), NEW inst, \A k \in 1 .. Len(s) : s[k].instIndex = inst
  PROVE  OfFirst(s, inst, Len(s)) = s
<1> DEFINE ok == {n \in 0 .. Len(s) : OfFirst(s, inst, n) = SubSeq(s, 1, n)}
<1>1. Len(s) \in Nat
  OBVIOUS
<1>2. 0 \in ok
  <2>1. SubSeq(s, 1, 0) = <<>> /\ 0 \in 0 .. Len(s)
    BY <1>1
  <2>2. OfFirst(s, inst, 0) = <<>>
    BY OfFirstNone
  <2>3. OfFirst(s, inst, 0) = SubSeq(s, 1, 0)
    <3> HIDE DEF ok
    <3> QED
      BY <2>1, <2>2
  <2> QED
    BY <2>1, <2>3
<1>3. ASSUME NEW n \in 0 .. Len(s) - 1, n \in ok PROVE n + 1 \in ok
  <2> PICK a, b, x : a = SubSeq(s, 1, n) /\ b = SubSeq(s, 1, n + 1) /\ x = s[n + 1]
    OBVIOUS
  <2>1. OfFirst(s, inst, n + 1) = OfFirst(s, inst, n) \o Own(x, inst)
    BY OfFirstMore
  <2>2. n + 1 \in 1 .. Len(s) /\ n + 1 \in 0 .. Len(s)
    BY <1>1
  <2>3. Own(x, inst) = <<x>>
    BY <2>2 DEF Own
  <2>4. a \in Seq(Ticks) /\ x \in Ticks /\ b = Append(a, x)
    BY <1>1, <2>2
  <2>5. a \o <<x>> = Append(a, x)
    BY <2>4
  <2>6. OfFirst(s, inst, n + 1) = b
    BY <1>3, <2>1, <2>3, <2>4, <2>5
  <2> QED
    BY <2>2, <2>6
<1>4. \A n \in 0 .. Len(s) : n \in ok
  <2> HIDE DEF ok
  <2> QED
    BY <1>1, <1>2, <1>3, UpTo
<1>5. SubSeq(s, 1, Len(s)) = s /\ Len(s) \in 0 .. Len(s)
  BY <1>1
<1> QED
  BY <1>4, <1>5

\* What the two lemmas ask of a merge.
Steps(r, taken, s1, s2) ==
  /\ Len(r) = Len(s1) + Len(s2)
  /\ \A i \in 0 .. Len(s1) + Len(s2) : MergeAt(r, taken, s1, s2, i)

NoneOf(s, inst) == \A k \in 1 .. Len(s) : s[k].instIndex # inst
AllOf(s, inst)  == \A k \in 1 .. Len(s) : s[k].instIndex = inst

\* The ticks of an instrument, from a merge that has its file for one vector and none of it
\* in the other, are its file ...
LEMMA MergeOwn ==
  ASSUME NEW s1 \in Seq(Ticks), NEW s2 \in Seq(Ticks), NEW taken, NEW r \in Seq(Ticks),
         Steps(r, taken, s1, s2), NEW inst, NoneOf(s1, inst), AllOf(s2, inst)
  PROVE  OfInstrument(r, inst) = s2
<1>1. PICK n1, n2, n : n1 = Len(s1) /\ n2 = Len(s2) /\ n = n1 + n2
  OBVIOUS
<1>2. /\ n1 \in Nat /\ n2 \in Nat /\ n \in Nat /\ Len(r) = n
      /\ \A i \in 0 .. n : MergeAt(r, taken, s1, s2, i)
  BY <1>1 DEF Steps
<1> DEFINE At(i) == \E k \in 0 .. n1, l \in 0 .. n2 :
                      taken[i] = k /\ k + l = i /\ OfFirst(r, inst, i) = OfFirst(s2, inst, l)
           ok == {i \in 0 .. n : At(i)}
<1>3. 0 \in ok
  <2>1. PICK k \in 0 .. n1, l \in 0 .. n2 : taken[0] = k /\ k + l = 0
    <3>1. 0 \in 0 .. n
      BY <1>2
    <3> QED
      BY <1>1, <1>2, <3>1 DEF MergeAt
  <2>2. l = 0 /\ 0 \in 0 .. n
    BY <1>2, <2>1
  <2>3. OfFirst(r, inst, 0) = OfFirst(s2, inst, 0)
    BY OfFirstNone
  <2>4. At(0)
    BY <2>1, <2>2, <2>3
  <2> HIDE DEF At
  <2> QED
    BY <2>2, <2>4
<1>4. ASSUME NEW i \in 0 .. n - 1, i \in ok PROVE i + 1 \in ok
  <2>1. PICK k \in 0 .. n1, l \in 0 .. n2 :
          taken[i] = k /\ k + l = i /\ OfFirst(r, inst, i) = OfFirst(s2, inst, l)
    BY <1>4
  <2>2. FirstTaken(r, taken, s1, s2, i, k, l) \/ SecondTaken(r, taken, s1, s2, i, k, l)
    <3>1. MergeAt(r, taken, s1, s2, i) /\ i < n
      <4>1. i \in 0 .. n /\ i < n
        BY <1>2
      <4> QED
        BY <1>2, <4>1
    <3>2. PICK a \in 0 .. n1, b \in 0 .. n2 :
            /\ taken[i] = a /\ a + b = i
            /\ FirstTaken(r, taken, s1, s2, i, a, b) \/ SecondTaken(r, taken, s1, s2, i, a, b)
      BY <1>1, <3>1 DEF MergeAt
    <3>3. a = k /\ b = l
      BY <1>2, <2>1, <3>2
    <3> QED
      BY <3>2, <3>3
  <2>3. i + 1 \in 0 .. n
    BY <1>2
  <2>4. OfFirst(r, inst, i + 1) = OfFirst(r, inst, i) \o Own(r[i + 1], inst)
        /\ OfFirst(r, inst, i) \in Seq(Ticks)
    BY <1>2, OfFirstMore
  <2>5. CASE FirstTaken(r, taken, s1, s2, i, k, l)
    <3>1. k + 1 \in 1 .. n1 /\ k + 1 \in 0 .. n1 /\ (k + 1) + l = i + 1
          /\ taken[i + 1] = k + 1 /\ r[i + 1] = s1[k + 1]
      BY <1>1, <1>2, <2>1, <2>5 DEF FirstTaken
    <3>2. Own(r[i + 1], inst) = <<>>
      BY <1>1, <3>1 DEF Own, NoneOf
    <3>3. OfFirst(r, inst, i + 1) = OfFirst(r, inst, i)
      <4> PICK a : a = OfFirst(r, inst, i)
        OBVIOUS
      <4>1. a \in Seq(Ticks) /\ a \o <<>> = a
        BY <2>4
      <4> QED
        BY <2>4, <3>2, <4>1
    <3>4. At(i + 1)
      BY <2>1, <3>1, <3>3
    <3> HIDE DEF At
    <3> QED
      BY <2>3, <3>4
  <2>6. CASE SecondTaken(r, taken, s1, s2, i, k, l)
    <3>1. l \in 0 .. n2 - 1 /\ l + 1 \in 0 .. n2 /\ k + (l + 1) = i + 1
          /\ taken[i + 1] = k /\ r[i + 1] = s2[l + 1]
      BY <1>1, <1>2, <2>1, <2>6 DEF SecondTaken
    <3>2. OfFirst(s2, inst, l + 1) = OfFirst(s2, inst, l) \o Own(s2[l + 1], inst)
      BY <1>1, <3>1, OfFirstMore
    <3>3. OfFirst(r, inst, i + 1) = OfFirst(s2, inst, l + 1)
      BY <2>1, <2>4, <3>1, <3>2
    <3>4. At(i + 1)
      BY <2>1, <3>1, <3>3
    <3> HIDE DEF At
    <3> QED
      BY <2>3, <3>4
  <2> HIDE DEF ok
  <2> QED
    BY <2>2, <2>5, <2>6
<1>5. n \in ok
  <2> HIDE DEF ok
  <2>1. \A i \in 0 .. n : i \in ok
    BY <1>2, <1>3, <1>4, UpTo
  <2> QED
    BY <1>2, <2>1
<1>6. PICK k \in 0 .. n1, l \in 0 .. n2 : k + l = n /\ OfFirst(r, inst, n) = OfFirst(s2, inst, l)
  BY <1>5
<1>7. l = n2
  BY <1>1, <1>2, <1>6
<1>8. OfFirst(s2, inst, n2) = s2
  BY <1>1, OfItself DEF AllOf
<1> QED
  BY <1>2, <1>6, <1>7, <1>8, OfInstrumentIs

\* ... and those of any other are what they were.
LEMMA MergeOthers ==
  ASSUME NEW s1 \in Seq(Ticks), NEW s2 \in Seq(Ticks), NEW taken, NEW r \in Seq(Ticks),
         Steps(r, taken, s1, s2), NEW inst, NoneOf(s2, inst)
  PROVE  OfInstrument(r, inst) = OfInstrument(s1, inst)
<1>1. PICK n1, n2, n : n1 = Len(s1) /\ n2 = Len(s2) /\ n = n1 + n2
  OBVIOUS
<1>2. /\ n1 \in Nat /\ n2 \in Nat /\ n \in Nat /\ Len(r) = n
      /\ \A i \in 0 .. n : MergeAt(r, taken, s1, s2, i)
  BY <1>1 DEF Steps
<1> DEFINE At(i) == \E k \in 0 .. n1, l \in 0 .. n2 :
                      taken[i] = k /\ k + l = i /\ OfFirst(r, inst, i) = OfFirst(s1, inst, k)
           ok == {i \in 0 .. n : At(i)}
<1>3. 0 \in ok
  <2>1. PICK k \in 0 .. n1, l \in 0 .. n2 : taken[0] = k /\ k + l = 0
    <3>1. 0 \in 0 .. n
      BY <1>2
    <3> QED
      BY <1>1, <1>2, <3>1 DEF MergeAt
  <2>2. k = 0 /\ 0 \in 0 .. n
    BY <1>2, <2>1
  <2>3. OfFirst(r, inst, 0) = OfFirst(s1, inst, 0)
    BY OfFirstNone
  <2>4. At(0)
    BY <2>1, <2>2, <2>3
  <2> HIDE DEF At
  <2> QED
    BY <2>2, <2>4
<1>4. ASSUME NEW i \in 0 .. n - 1, i \in ok PROVE i + 1 \in ok
  <2>1. PICK k \in 0 .. n1, l \in 0 .. n2 :
          taken[i] = k /\ k + l = i /\ OfFirst(r, inst, i) = OfFirst(s1, inst, k)
    BY <1>4
  <2>2. FirstTaken(r, taken, s1, s2, i, k, l) \/ SecondTaken(r, taken, s1, s2, i, k, l)
    <3>1. MergeAt(r, taken, s1, s2, i) /\ i < n
      <4>1. i \in 0 .. n /\ i < n
        BY <1>2
      <4> QED
        BY <1>2, <4>1
    <3>2. PICK a \in 0 .. n1, b \in 0 .. n2 :
            /\ taken[i] = a /\ a + b = i
            /\ FirstTaken(r, taken, s1, s2, i, a, b) \/ SecondTaken(r, taken, s1, s2, i, a, b)
      BY <1>1, <3>1 DEF MergeAt
    <3>3. a = k /\ b = l
      BY <1>2, <2>1, <3>2
    <3> QED
      BY <3>2, <3>3
  <2>3. i + 1 \in 0 .. n
    BY <1>2
  <2>4. OfFirst(r, inst, i + 1) = OfFirst(r, inst, i) \o Own(r[i + 1], inst)
        /\ OfFirst(r, inst, i) \in Seq(Ticks)
    BY <1>2, OfFirstMore
  <2>5. CASE SecondTaken(r, taken, s1, s2, i, k, l)
    <3>1. l + 1 \in 1 .. n2 /\ l + 1 \in 0 .. n2 /\ k + (l + 1) = i + 1
          /\ taken[i + 1] = k /\ r[i + 1] = s2[l + 1]
      BY <1>1, <1>2, <2>1, <2>5 DEF SecondTaken
    <3>2. Own(r[i + 1], inst) = <<>>
      BY <1>1, <3>1 DEF Own, NoneOf
    <3>3. OfFirst(r, inst, i + 1) = OfFirst(r, inst, i)
      <4> PICK a : a = OfFirst(r, inst, i)
        OBVIOUS
      <4>1. a \in Seq(Ticks) /\ a \o <<>> = a
        BY <2>4
      <4> QED
        BY <2>4, <3>2, <4>1
    <3>4. At(i + 1)
      BY <2>1, <3>1, <3>3
    <3> HIDE DEF At
    <3> QED
      BY <2>3, <3>4
  <2>6. CASE FirstTaken(r, taken, s1, s2, i, k, l)
    <3>1. k \in 0 .. n1 - 1 /\ k + 1 \in 0 .. n1 /\ (k + 1) + l = i + 1
          /\ taken[i + 1] = k + 1 /\ r[i + 1] = s1[k + 1]
      BY <1>1, <1>2, <2>1, <2>6 DEF FirstTaken
    <3>2. OfFirst(s1, inst, k + 1) = OfFirst(s1, inst, k) \o Own(s1[k + 1], inst)
      BY <1>1, <3>1, OfFirstMore
    <3>3. OfFirst(r, inst, i + 1) = OfFirst(s1, inst, k + 1)
      BY <2>1, <2>4, <3>1, <3>2
    <3>4. At(i + 1)
      BY <2>1, <3>1, <3>3
    <3> HIDE DEF At
    <3> QED
      BY <2>3, <3>4
  <2> HIDE DEF ok
  <2> QED
    BY <2>2, <2>5, <2>6
<1>5. n \in ok
  <2> HIDE DEF ok
  <2>1. \A i \in 0 .. n : i \in ok
    BY <1>2, <1>3, <1>4, UpTo
  <2> QED
    BY <1>2, <2>1
<1>6. PICK k \in 0 .. n1, l \in 0 .. n2 : k + l = n /\ OfFirst(r, inst, n) = OfFirst(s1, inst, k)
  BY <1>5
<1>7. k = n1
  BY <1>1, <1>2, <1>6
<1> QED
  BY <1>1, <1>2, <1>6, <1>7, OfInstrumentIs

-----------------------------------------------------------------------------
(* The inductive invariant.                                                *)

Loaded == {inst \in Instruments : load[inst] = "done"}

\* s is the files of these instruments, merged.
MergedOf(s, insts) ==
  /\ s \in Seq(Ticks) /\ InOrder(s)
  /\ \A k \in 1 .. Len(s) : s[k].instIndex \in insts
  /\ \A inst \in insts : OfInstrument(s, inst) = TicksOf(inst)

LoadStates == {"none", "polling", "merge", "swap", "done"}

LoadTypes ==
  /\ datastore \in DataStores \cup {NoData}
  /\ load \in [Instruments -> LoadStates]
  /\ result \in [Instruments -> Seq(Ticks)]

\* The mutex is held by the one load that is merging.  allTicks_ is the files of the loads
\* that are done, and a vector to be swapped in the file of its load besides.
MergeInv ==
  /\ LoadTypes
  /\ \A inst \in Instruments : load[inst] \in {"merge", "swap"} <=> addmutex = inst
  /\ MergedOf(allTicks_, Loaded)
  /\ \A inst \in Instruments : load[inst] = "swap" => MergedOf(result[inst], Loaded \cup {inst})

\* A file as MarketDataStore sorts it, or none.
LEMMA FileInOrder ==
  ASSUME LoadTypes, NEW inst \in Instruments
  PROVE  /\ TicksOf(inst) \in Seq(Ticks) /\ InOrder(TicksOf(inst))
         /\ \A k \in 1 .. Len(TicksOf(inst)) : TicksOf(inst)[k].instIndex = inst
<1> PICK file, s : file = datastore[inst] /\ s = TicksOf(inst)
  OBVIOUS
<1>1. file \in Seq(Nat) /\ \A k, l \in 1 .. Len(file) : k < l => file[k] <= file[l]
  <2>1. CASE datastore \in DataStores
    BY <2>1, StoresAssumption
  <2>2. CASE datastore = NoData
    <3>1. file = <<>>
      BY <2>2 DEF NoData
    <3> QED
      BY <3>1
  <2> QED
    BY <2>1, <2>2 DEF LoadTypes
<1>2. PICK n : n = Len(file)
  OBVIOUS
<1>3. n \in Nat /\ DOMAIN file = 1 .. n /\ \A k \in 1 .. n : file[k] \in Nat
  BY <1>1, <1>2
<1>4. s = [k \in 1 .. n |-> Tick(inst, file[k])]
  BY <1>3 DEF TicksOf
<1>5. \A k \in 1 .. n : /\ Tick(inst, file[k]) \in Ticks
                        /\ Tick(inst, file[k]).instIndex = inst
                        /\ Tick(inst, file[k]).timeInMS = file[k]
  BY <1>3 DEF Tick, Ticks
<1>6. s \in Seq(Ticks) /\ Len(s) = n
  BY <1>3, <1>4, <1>5, IsASeq
<1>7. \A k \in 1 .. n : s[k].instIndex = inst /\ s[k].timeInMS = file[k]
  BY <1>4, <1>5
<1>8. InOrder(s)
  BY <1>1, <1>2, <1>6, <1>7 DEF InOrder
<1> QED
  BY <1>6, <1>7, <1>8

\* One file more is merged.
LEMMA MergeOneMore ==
  ASSUME LoadTypes, NEW insts \in SUBSET Instruments, NEW inst \in Instruments, inst \notin insts,
         NEW s, MergedOf(s, insts)
  PROVE  MergedOf(Merge(s, TicksOf(inst)), insts \cup {inst})
<1> PICK file, r : file = TicksOf(inst) /\ r = Merge(s, file)
  OBVIOUS
<1>1. s \in Seq(Ticks) /\ InOrder(s) /\ \A k \in 1 .. Len(s) : s[k].instIndex \in insts
  BY DEF MergedOf
<1>2. file \in Seq(Ticks) /\ InOrder(file) /\ \A k \in 1 .. Len(file) : file[k].instIndex = inst
  BY FileInOrder
<1>3. PICK taken : IsTaken(taken, s, file) /\ IsMerge(r, taken, s, file)
  BY <1>1, <1>2, MergeIs
<1>4. \A i \in 0 .. Len(s) + Len(file) : MergeAt(r, taken, s, file, i)
  BY <1>1, <1>2, <1>3, MergeSteps
<1>5. /\ r \in Seq(Ticks) /\ Len(r) = Len(s) + Len(file)
      /\ \A i \in 1 .. Len(r) : r[i] \in Range(s) \cup Range(file)
  BY <1>1, <1>2, <1>3, <1>4, MergeType
<1>6. InOrder(r)
  BY <1>1, <1>2, <1>3, <1>4, MergeInOrder
<1>7. \A k \in 1 .. Len(r) : r[k].instIndex \in insts \cup {inst}
  <2>1. /\ \A x \in Range(s) : x.instIndex \in insts
        /\ \A x \in Range(file) : x.instIndex = inst
    BY <1>1, <1>2 DEF Range
  <2> QED
    BY <1>5, <2>1
<1>8. OfInstrument(r, inst) = TicksOf(inst)
  <2>1. NoneOf(s, inst) /\ AllOf(file, inst)
    BY <1>1, <1>2 DEF NoneOf, AllOf
  <2>2. r \in Seq(Ticks) /\ Steps(r, taken, s, file)
    BY <1>4, <1>5 DEF Steps
  <2> QED
    BY <1>1, <1>2, <2>1, <2>2, MergeOwn
<1>9. ASSUME NEW other \in insts PROVE OfInstrument(r, other) = TicksOf(other)
  <2>1. NoneOf(file, other)
    BY <1>2 DEF NoneOf
  <2>2. r \in Seq(Ticks) /\ Steps(r, taken, s, file)
    BY <1>4, <1>5 DEF Steps
  <2>3. OfInstrument(r, other) = OfInstrument(s, other)
    BY <1>1, <1>2, <2>1, <2>2, MergeOthers
  <2> QED
    BY <2>3 DEF MergedOf
<1>10. MergedOf(r, insts \cup {inst})
  BY <1>5, <1>6, <1>7, <1>8, <1>9 DEF MergedOf
<1> QED
  BY <1>10

\* No tick is of no instrument.
LEMMA NothingMerged ==
  /\ MergedOf(<<>>, {})
  /\ \A s : MergedOf(s, {}) => s = <<>>
<1>1. PICK none : none = <<>>
  OBVIOUS
<1>2. none \in Seq(Ticks) /\ Len(none) = 0 /\ InOrder(none)
  BY <1>1 DEF InOrder
<1>3. MergedOf(none, {})
  BY <1>2 DEF MergedOf
<1>4. ASSUME NEW s, MergedOf(s, {}) PROVE s = <<>>
  <2>1. s \in Seq(Ticks) /\ \A k \in 1 .. Len(s) : FALSE
    BY <1>4 DEF MergedOf
  <2>2. Len(s) \notin Nat \ {0}
    <3>1. \A n \in Nat \ {0} : n \in 1 .. n
      OBVIOUS
    <3> QED
      BY <2>1, <3>1
  <2> QED
    BY <2>1, <2>2, EmptySeq
<1> QED
  BY <1>1, <1>3, <1>4

LEMMA MergeInvInit == ReplayerInit => MergeInv
<1> SUFFICES ASSUME ReplayerInit PROVE MergeInv
  OBVIOUS
<1>1. /\ datastore = NoData /\ allTicks_ = <<>> /\ addmutex = Nobody
      /\ load = [inst \in Instruments |-> "none"]
      /\ result = [inst \in Instruments |-> <<>>]
  BY DEF ReplayerInit
<1>2. LoadTypes
  BY <1>1 DEF LoadTypes, LoadStates
<1>3. \A inst \in Instruments : load[inst] = "none" /\ addmutex # inst
  BY <1>1, NobodyAssumption
<1>4. Loaded = {}
  BY <1>3 DEF Loaded
<1>5. MergedOf(allTicks_, Loaded)
  <2> PICK none : none = <<>>
    OBVIOUS
  <2>1. MergedOf(none, {}) /\ allTicks_ = none
    BY <1>1, NothingMerged
  <2> QED
    BY <1>4, <2>1
<1> QED
  BY <1>2, <1>3, <1>5 DEF MergeInv

\* The files of a day that is over are not those of the next: nothing is merged between.
LEMMA MergeInvNewDay ==
  ASSUME MergeInv, newReplayer \/ StartReplay
  PROVE  MergeInv'
<1>1. /\ datastore' \in DataStores \cup {NoData}
      /\ load' \in {[inst \in Instruments |-> "polling"], [inst \in Instruments |-> "none"]}
      /\ UNCHANGED <<addmutex, result>>
  BY DEF newReplayer, StartReplay
<1>2. \A inst \in Instruments : load[inst] \in {"none", "done"} /\ load'[inst] \in {"none", "polling"}
  BY <1>1 DEF newReplayer, StartReplay, AllLoaded
<1>3. allTicks_' = <<>>
  <2>1. CASE newReplayer
    <3>1. Loaded = {} /\ allTicks_' = allTicks_
      BY <2>1 DEF newReplayer, Loaded
    <3> QED
      BY <3>1, NothingMerged DEF MergeInv
  <2>2. CASE StartReplay
    BY <2>2 DEF StartReplay
  <2> QED
    BY <2>1, <2>2
<1>4. LoadTypes'
  BY <1>1 DEF MergeInv, LoadTypes, LoadStates
<1>5. \A inst \in Instruments : addmutex' # inst /\ load'[inst] \notin {"merge", "swap", "done"}
  BY <1>1, <1>2 DEF MergeInv
<1>6. MergedOf(allTicks_, Loaded)'
  <2> PICK none : none = <<>>
    OBVIOUS
  <2>1. Loaded' = {} /\ allTicks_' = none /\ none \in Seq(Ticks) /\ InOrder(none) /\ Len(none) = 0
    BY <1>3, <1>5, NothingMerged DEF Loaded, MergedOf
  <2> QED
    BY <2>1 DEF MergedOf
<1> QED
  BY <1>4, <1>5, <1>6 DEF MergeInv

LEMMA MergeInvLock ==
  ASSUME MergeInv, NEW inst \in Instruments, lock(inst)
  PROVE  MergeInv'
<1>1. /\ load[inst] = "polling" /\ addmutex = Nobody /\ addmutex' = inst
      /\ load' = [load EXCEPT ![inst] = "merge"]
      /\ UNCHANGED <<datastore, allTicks_, result>>
  BY DEF lock, MutexFree
<1>2. load \in [Instruments -> LoadStates]
  BY DEF MergeInv, LoadTypes
<1>3. load'[inst] = "merge" /\ \A other \in Instruments \ {inst} : load'[other] = load[other]
  BY <1>1, <1>2
<1>4. LoadTypes'
  BY <1>1, <1>2 DEF MergeInv, LoadTypes, LoadStates
<1>5. \A other \in Instruments : load[other] \notin {"merge", "swap"}
  BY <1>1, NobodyAssumption DEF MergeInv
<1>6. Loaded' = Loaded
  BY <1>1, <1>3 DEF Loaded
<1>7. MergedOf(allTicks_, Loaded)'
  BY <1>1, <1>6 DEF MergeInv, MergedOf, TicksOf
<1> QED
  BY <1>1, <1>3, <1>4, <1>5, <1>7 DEF MergeInv

LEMMA MergeInvMerge ==
  ASSUME MergeInv, NEW inst \in Instruments, merge(inst)
  PROVE  MergeInv'
<1> PICK r : r = Merge(allTicks_, TicksOf(inst))
  OBVIOUS
<1>1. /\ load[inst] = "merge"
      /\ result' = [result EXCEPT ![inst] = r]
      /\ load' = [load EXCEPT ![inst] = "swap"]
      /\ UNCHANGED <<datastore, allTicks_, addmutex>>
  BY DEF merge
<1>2. load \in [Instruments -> LoadStates] /\ result \in [Instruments -> Seq(Ticks)]
  BY DEF MergeInv, LoadTypes
<1>3. /\ load'[inst] = "swap" /\ result'[inst] = r
      /\ \A other \in Instruments \ {inst} : load'[other] = load[other]
  BY <1>1, <1>2
<1>4. Loaded' = Loaded /\ Loaded \in SUBSET Instruments /\ inst \notin Loaded
  BY <1>1, <1>3 DEF Loaded
<1>5. MergedOf(r, Loaded \cup {inst})
  BY <1>4, MergeOneMore DEF MergeInv
<1>6. LoadTypes'
  BY <1>1, <1>2, <1>5 DEF MergeInv, LoadTypes, LoadStates, MergedOf
<1>7. MergedOf(allTicks_, Loaded)'
  BY <1>1, <1>4 DEF MergeInv, MergedOf, TicksOf
<1>8. MergedOf(result[inst], Loaded \cup {inst})'
  BY <1>1, <1>3, <1>4, <1>5 DEF MergedOf, TicksOf
<1>9. \A other \in Instruments : other # inst => load'[other] # "swap"
  BY <1>1, <1>3 DEF MergeInv
<1>10. \A other \in Instruments : load'[other] \in {"merge", "swap"} <=> addmutex' = other
  BY <1>1, <1>3 DEF MergeInv
<1> QED
  BY <1>6, <1>7, <1>8, <1>9, <1>10 DEF MergeInv

LEMMA MergeInvSwap ==
  ASSUME MergeInv, NEW inst \in Instruments, swap(inst)
  PROVE  MergeInv'
<1>1. /\ load[inst] = "swap"
      /\ allTicks_' = result[inst]
      /\ result' = [result EXCEPT ![inst] = <<>>]
      /\ addmutex' = Nobody
      /\ load' = [load EXCEPT ![inst] = "done"]
      /\ UNCHANGED datastore
  BY DEF swap
<1>2. load \in [Instruments -> LoadStates] /\ result \in [Instruments -> Seq(Ticks)]
  BY DEF MergeInv, LoadTypes
<1>3. /\ load'[inst] = "done"
      /\ \A other \in Instruments \ {inst} : load'[other] = load[other]
  BY <1>1, <1>2
<1>4. Loaded' = Loaded \cup {inst}
  BY <1>3 DEF Loaded
<1>5. MergedOf(allTicks_, Loaded)'
  BY <1>1, <1>4 DEF MergeInv, MergedOf, TicksOf
<1>6. LoadTypes'
  <2>1. <<>> \in Seq(Ticks)
    OBVIOUS
  <2> QED
    BY <1>1, <1>2, <2>1 DEF MergeInv, LoadTypes, LoadStates
<1>7. \A other \in Instruments : load'[other] \notin {"merge", "swap"} /\ addmutex' # other
  BY <1>1, <1>3, NobodyAssumption DEF MergeInv
<1> QED
  BY <1>5, <1>6, <1>7 DEF MergeInv

LEMMA MergeInvStep == MergeInv /\ [ReplayerNext]_dayVars => MergeInv'
<1> SUFFICES ASSUME MergeInv, [ReplayerNext]_dayVars PROVE MergeInv'
  OBVIOUS
<1>1. CASE newReplayer \/ StartReplay
  BY <1>1, MergeInvNewDay
<1>2. CASE \E inst \in Instruments : addDataStore(inst)
  BY <1>2, MergeInvLock, MergeInvMerge, MergeInvSwap DEF addDataStore
<1>3. CASE UNCHANGED replayerVars
  <2>1. UNCHANGED <<datastore, allTicks_, addmutex, load, result>>
    BY <1>3 DEF replayerVars
  <2> QED
    BY <2>1 DEF MergeInv, LoadTypes, MergedOf, TicksOf, Loaded
<1> QED
  BY <1>1, <1>2, <1>3 DEF ReplayerNext, dayVars

\* The loads of a day merge one at a time, each its whole file.
THEOREM ReplayerInvariant == ReplayerSpec => []MergeInv
  BY MergeInvInit, MergeInvStep, PTL DEF ReplayerSpec

\* However the loads of a day come together, addDataStore leaves every tick of every file
\* once, in the order of time and of its file.
THEOREM DaysInOrder == ReplayerSpec => []DayInOrder
<1>1. MergeInv => DayInOrder
  <2> SUFFICES ASSUME MergeInv, AllLoaded
               PROVE  /\ \A k, l \in DOMAIN allTicks_ :
                           k < l => allTicks_[k].timeInMS <= allTicks_[l].timeInMS
                      /\ \A inst \in Instruments : OfInstrument(allTicks_, inst) = TicksOf(inst)
    BY DEF DayInOrder
  <2>1. Loaded = Instruments
    BY DEF AllLoaded, Loaded
  <2>2. MergedOf(allTicks_, Instruments)
    BY <2>1 DEF MergeInv
  <2>3. DOMAIN allTicks_ = 1 .. Len(allTicks_)
    BY <2>2 DEF MergedOf
  <2> QED
    BY <2>2, <2>3 DEF MergedOf, InOrder
<1> QED
  BY <1>1, ReplayerInvariant, PTL

-----------------------------------------------------------------------------
(* The replayer and the timers.                                            *)

\* The days the provider is ready for are all those in order.
AnyDayInOrder ==
  \A day \in Seq(Nat) :
    (\A k, l \in 1 .. Len(day) : l <= k => day[l] <= day[k]) => day \in Days

LEMMA MergedDayInOrder ==
  ASSUME AnyDayInOrder, allTicks_ \in Seq(Ticks), DayInOrder, AllLoaded
  PROVE  [k \in DOMAIN allTicks_ |-> allTicks_[k].timeInMS] \in Days
<1> PICK n, day : /\ n = Len(allTicks_)
                  /\ day = [k \in DOMAIN allTicks_ |-> allTicks_[k].timeInMS]
  OBVIOUS
<1>1. n \in Nat /\ DOMAIN allTicks_ = 1 .. n /\ \A k \in 1 .. n : allTicks_[k] \in Ticks
  OBVIOUS
<1>2. \A k \in 1 .. n : allTicks_[k].timeInMS \in Nat
  BY <1>1 DEF Ticks
<1>3. day = [k \in 1 .. n |-> allTicks_[k].timeInMS]
  BY <1>1
<1>4. day \in Seq(Nat) /\ Len(day) = n
  BY <1>1, <1>2, <1>3
<1>5. ASSUME NEW k \in 1 .. n, NEW l \in 1 .. n, l <= k
      PROVE  day[l] <= day[k]
  <2>1. l = k \/ l < k
    BY <1>1, <1>5
  <2>2. l < k => allTicks_[l].timeInMS <= allTicks_[k].timeInMS
    BY <1>1 DEF DayInOrder
  <2> QED
    BY <1>2, <1>3, <2>1, <2>2
<1> QED
  BY <1>4, <1>5 DEF AnyDayInOrder

\* StartReplay drives the provider as FakeTimerProvider says it is driven, with days in
\* order: the loads and the merges of the days to come are no steps of it.
THEOREM ReplayerDrivesProvider ==
  ASSUME AnyDayInOrder
  PROVE  ReplayerSpec => Spec
<1>1. ReplayerInit => Init
  BY DEF ReplayerInit
<1>2. MergeInv /\ DayInOrder /\ [ReplayerNext]_dayVars => [Next]_vars
  <2> SUFFICES ASSUME MergeInv, DayInOrder, [ReplayerNext]_dayVars
               PROVE  Next \/ UNCHANGED vars
    OBVIOUS
  <2>1. CASE newReplayer
    BY <2>1 DEF newReplayer
  <2>2. CASE \E inst \in Instruments : addDataStore(inst)
    BY <2>2 DEF addDataStore, lock, merge, swap
  <2>3. CASE StartReplay
    <3>1. AllLoaded /\ startDate([k \in DOMAIN allTicks_ |-> allTicks_[k].timeInMS])
      BY <2>3 DEF StartReplay
    <3>2. allTicks_ \in Seq(Ticks)
      BY DEF MergeInv, MergedOf
    <3>3. \E day \in Days : startDate(day)
      BY <3>1, <3>2, MergedDayInOrder
    <3> QED
      BY <3>3 DEF Next, Provider
  <2>4. CASE DuringDay \/ Consumer
    BY <2>4 DEF Next, Provider
  <2>5. CASE UNCHANGED dayVars
    BY <2>5 DEF dayVars
  <2> QED
    BY <2>1, <2>2, <2>3, <2>4, <2>5 DEF ReplayerNext
<1> QED
  BY <1>1, <1>2, ReplayerInvariant, DaysInOrder, PTL DEF ReplayerSpec, Spec

\* The vectors of the loads, the mutex and the clock keep their types.
THEOREM ReplayerTypes ==
  ASSUME AnyDayInOrder
  PROVE  ReplayerSpec => []ReplayerTypeOK
<1>1. MergeInv /\ TypeOK => ReplayerTypeOK
  BY DEF MergeInv, LoadTypes, LoadStates, MergedOf, ReplayerTypeOK
<1> QED
  BY <1>1, ReplayerInvariant, ReplayerDrivesProvider, ProviderTypeInvariant, PTL

\* However the loads, the merges and the callbacks interleave, StartReplay misses no timer
\* of any consumer ...
THEOREM TimersOnTimeInReplay ==
  ASSUME AnyDayInOrder
  PROVE  ReplayerSpec => []NoTimerOverdue
BY ReplayerDrivesProvider, TimersOnTime, PTL

\* ... lets none outlive its day ...
THEOREM TimersOfTheDayInReplay ==
  ASSUME AnyDayInOrder
  PROVE  ReplayerSpec => []TimersOfTheDay
BY ReplayerDrivesProvider, TimersEndWithDay, PTL

\* ... and runs the clock forward.
THEOREM ClockForwardInReplay ==
  ASSUME AnyDayInOrder
  PROVE  ReplayerSpec => ClockRunsForward
BY ReplayerDrivesProvider, ClockForward, PTL
=============================================================================
