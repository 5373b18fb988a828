---------------------------- MODULE SingleStrategy ----------------------------
(***************************************************************************)
(* The trading strategy (strategy/SingleStrategy.cpp) with the broker and  *)
(* the position manager of its instance, driven through its days by        *)
(* MarketDataReplayerMultiThread::StartReplay.                             *)
(*                                                                         *)
(* The strategy keeps a book of its own, which it changes by what it asked *)
(* for, not by what was filled, and clears at the start of a day; the      *)
(* position manager's goes on.  Both are called with every tick and every  *)
(* day, in the order of their addresses.  Between a request and the change *)
(* of the strategy's book the broker runs: its steps are FakeOrderManager's.*)
(***************************************************************************)
EXTENDS FakeOrderManager

CONSTANTS Configs,    \* what onMessage may have set: globalParas_ and ppl_
          max_pos,    \* Instrument::max_pos_, 1 in the program
          Quotes,     \* the best bid and ask of the ticks
          TickTimes   \* the ticks' timeInMS

\* ppl is int(ppl_ + 0.5).  A threshold is given, and nothing is opened once the
\* positions of the day are being liquidated.
ConfigSpace ==
  [ppl : Quantities, threshold_self : Nat \ {0}, is_over_night : BOOLEAN, is_equity : BOOLEAN,
   opp_start_time : Nat, opening_time : Nat, pee_time1 : Nat, pee_time_end1 : Nat,
   pee_time2 : Nat, pee_time_end2 : Nat, exit_time : Nat, liquidate_time : Nat]

ASSUME ConfigAssumption ==
  /\ Configs \subseteq ConfigSpace
  /\ \A p \in Configs : /\ p.pee_time1 <= p.exit_time /\ p.pee_time2 <= p.exit_time
                        /\ p.exit_time <= p.liquidate_time

\* The configuration lists the instruments, and the strategy sets up no positions
\* before the first day.
ASSUME InstrumentAssumption == IsFiniteSet(Instruments)
ASSUME NothingCarried       == Carried \subseteq {EmptyPosition}

ASSUME MultiplierAssumption == \A i \in Instruments : multiplier[i] \in Nat
ASSUME MaxPosAssumption  == max_pos \in Nat \ {0}
ASSUME TickAssumption    == /\ TickTimes \subseteq Nat
                            /\ \A q \in Quotes : q[1] \in Prices /\ q[2] \in Prices /\ q[1] < q[2]

VARIABLES para,       \* globalParas_
          consumers,  \* strategy and position manager, by their addresses
          pc,         \* where StartReplay is
          turn,       \* the consumer its loop has come to
          now,        \* getCurrentTimeMsInDay
          book,       \* instrument -> the strategy's own book of it
          pre_tick,   \* instrument -> what pre_tick points to
          tick,       \* the tick the consumers are called with
          favours,    \* the sides onMarketData found it in favour of
          step,       \* how far onMarketData is, 0 when it is not running
          sent,       \* a request of this step has been submitted
          logged,     \* instrument -> the day's line of the result
          \* Kept for the properties only:
          orphaned,   \* instrument -> what the broker holds and the book forgot
          clean,      \* instrument -> nothing was held when the day began, nor forgotten since
          entered,    \* this tick opened a position
          liquidated, \* instrument -> it had a usable tick after the time of liquidation
          marked      \* instrument -> the last price of its last tick

replayVars   == <<para, consumers, pc, turn, now, tick, logged, marked>>
propertyVars == <<orphaned, clean, entered, liquidated>>
brokerVars   == vars
strategyVars == <<replayVars, book, pre_tick, favours, step, sent, propertyVars>>

\* In which order the two are called.
ConsumerOrders == {c \in [{1, 2} -> {"strategy", "positions"}] : c[1] # c[2]}

Books == [long : Nat, short : Nat, cum_long : Int, cum_short : Int,
          opp : Int, pnl : Int, trades : Nat]

EmptyBook == [long |-> 0, short |-> 0, cum_long |-> 0, cum_short |-> 0,
              opp |-> 0, pnl |-> 0, trades |-> 0]

Ticks == [inst : Instruments, quote : Quotes, last : {q[1] : q \in Quotes}]

NoTick == [inst |-> "none"]

NoLine == [trade0 |-> 0, pnl0 |-> 0, trade |-> 0, pnl |-> 0]

LastStep == 7

StrategyTypeOK ==
  /\ para \in Configs
  /\ consumers \in ConsumerOrders
  /\ pc \in {"between", "onStartDay", "ticks", "onMarketData", "onEndDay"}
  /\ turn \in {1, 2}
  /\ now \in Nat
  /\ book \in [Instruments -> Books]
  /\ \A i \in Instruments : book[i].opp \in -para.threshold_self .. para.threshold_self
  /\ pre_tick \in [Instruments -> {"null", "tick of the day", "tickFromLastDay"}]
  /\ tick \in Ticks \cup {NoTick}
  /\ favours \subseteq {"short", "long"}
  /\ step \in 0 .. LastStep
  /\ pc = "onMarketData" => tick \in Ticks
  /\ step # 0 => pc = "onMarketData" /\ consumers[turn] = "strategy"
  /\ sent \in BOOLEAN /\ (sent => step \in 1 .. LastStep - 1)
  /\ entered \in BOOLEAN
  /\ liquidated \in [Instruments -> BOOLEAN]

StrategyInit ==
  /\ Init
  /\ para \in Configs
  /\ consumers \in ConsumerOrders
  /\ pc = "between"
  /\ turn = 1
  /\ now = 0
  /\ book = [i \in Instruments |-> EmptyBook]
  /\ pre_tick = [i \in Instruments |-> "null"]
  /\ tick = NoTick
  /\ favours = {}
  /\ step = 0
  /\ sent = FALSE
  /\ logged = [i \in Instruments |-> NoLine]
  /\ orphaned = [i \in Instruments |-> [long |-> 0, short |-> 0]]
  /\ clean = [i \in Instruments |-> FALSE]
  /\ entered = FALSE
  /\ liquidated = [i \in Instruments |-> FALSE]
  /\ marked = [i \in Instruments |-> 0]

-----------------------------------------------------------------------------
(* The loops over the two consumers.                                       *)

\* Mutant: the consumers are called the other way round.
OtherConsumer(k) == consumers[3 - k]

ConsumerAt(k) == consumers[k]

\* The next consumer, or back to StartReplay.
NextConsumer(after) ==
  IF turn = 1 THEN turn' = 2 /\ UNCHANGED pc ELSE turn' = 1 /\ pc' = after

BrokerLong(i)  == SumQty(PositionOf(i).LongToday \o PositionOf(i).LongYst)
BrokerShort(i) == SumQty(PositionOf(i).ShortToday \o PositionOf(i).ShortYst)

startDay ==
  /\ pc = "between"
  /\ days < MaxDays
  /\ pc' = "onStartDay"
  /\ turn' = 1
  /\ now' = 0
  /\ logged' = [i \in Instruments |-> NoLine]
  /\ clean' = [i \in Instruments |-> BrokerLong(i) = 0 /\ BrokerShort(i) = 0]
  /\ liquidated' = [i \in Instruments |-> FALSE]
  /\ UNCHANGED <<brokerVars, para, consumers, book, pre_tick, tick, favours, step, sent,
                 orphaned, entered, marked>>

\* Mutant: the number of trades is only reset with the positions.
TradesKept(b) == IF para.is_over_night THEN [b EXCEPT !.pnl = 0] ELSE EmptyBook

Continued(b) == [b EXCEPT !.pnl = 0, !.trades = 0]

initInstrument(b) == IF para.is_over_night THEN Continued(b) ELSE EmptyBook

\* What a book that is cleared forgets.
Forgotten(i) == [long  |-> orphaned[i].long + book[i].long,
                 short |-> orphaned[i].short + book[i].short]

strategyStartDay ==
  /\ pc = "onStartDay" /\ ConsumerAt(turn) = "strategy"
  /\ book' = [i \in Instruments |-> initInstrument(book[i])]
  /\ orphaned' = [i \in Instruments |-> IF para.is_over_night THEN orphaned[i] ELSE Forgotten(i)]
  /\ NextConsumer("ticks")
  /\ UNCHANGED <<brokerVars, para, consumers, now, pre_tick, tick, favours, step, sent, logged,
                 clean, entered, liquidated, marked>>

positionsStartDay ==
  /\ pc = "onStartDay" /\ ConsumerAt(turn) = "positions"
  /\ onStartDay
  /\ NextConsumer("ticks")
  /\ UNCHANGED <<para, consumers, now, book, pre_tick, tick, favours, step, sent, logged,
                 propertyVars, marked>>

\* A tick, at a time of day that does not go back.
nextTick ==
  /\ pc = "ticks"
  /\ \E t \in Ticks, time \in TickTimes :
       /\ now <= time
       /\ tick' = t
       /\ now' = time
       /\ marked' = [marked EXCEPT ![t.inst] = t.last]
  /\ pc' = "onMarketData"
  /\ turn' = 1
  /\ entered' = FALSE
  /\ UNCHANGED <<brokerVars, para, consumers, book, pre_tick, favours, step, sent, logged,
                 orphaned, clean, liquidated>>

positionsTick ==
  /\ pc = "onMarketData" /\ ConsumerAt(turn) = "positions"
  /\ IF tick.inst \in DOMAIN positions THEN onMarketData(tick.inst, tick.last)
                                       ELSE UNCHANGED brokerVars
  /\ NextConsumer("ticks")
  /\ tick' = IF turn = 1 THEN tick ELSE NoTick
  /\ UNCHANGED <<para, consumers, now, book, pre_tick, favours, step, sent, logged,
                 propertyVars, marked>>

-----------------------------------------------------------------------------
(* SingleStrategy::onMarketData.                                           *)

\* One of the early returns.  Quotes it refuses, and the first ones, which start its
\* averages, onMarketData ignores; one whose volume fell, or whose prices are too far
\* from the average or from each other, only becomes pre_tick.
skipTick ==
  /\ pc = "onMarketData" /\ ConsumerAt(turn) = "strategy"
  /\ step = 0
  /\ \/ UNCHANGED pre_tick
     \/ pre_tick' = [pre_tick EXCEPT ![tick.inst] = "tick of the day"]
  /\ NextConsumer("ticks")
  /\ tick' = IF turn = 1 THEN tick ELSE NoTick
  /\ UNCHANGED <<brokerVars, para, consumers, now, book, favours, step, sent, logged,
                 propertyVars, marked>>

\* The three stretches of the day, the last of them up to a time of its own.
InSession(from, to) ==
  \/ from < now /\ now < para.pee_time1
  \/ para.pee_time_end1 < now /\ now < para.pee_time2
  \/ para.pee_time_end2 < now /\ now < to

isValidOppTime   == InSession(para.opp_start_time, para.liquidate_time)

\* Mutant: positions are opened up to the time they are liquidated, and after it.
EnterAtAnyTime == para.opening_time < now

isValidEnterTime == InSession(para.opening_time, para.exit_time)
isValidExitTime  == InSession(para.opening_time, para.liquidate_time)
isLiquidateTime  == para.liquidate_time < now

\* A jump overnight, as of a dividend, clears the own book's quantities with no trade.
Adjusted(b, jump) ==
  IF jump THEN [b EXCEPT !.long = 0, !.short = 0, !.cum_long = 0, !.cum_short = 0] ELSE b

\* Mutant: the counter has no limits.
OppUnlimited(b, signal) ==
  CASE signal = "down" -> b.opp - 1 [] signal = "up" -> b.opp + 1 [] OTHER -> b.opp

\* updateOpp: the counter moves towards the signal, up to the threshold when that
\* is a side that may be held or held longer, and to 0 when it is the other side.
OppAfter(b, signal) ==
  CASE signal = "down" /\ b.opp > (IF b.long > 0 THEN 0 ELSE -para.threshold_self) -> b.opp - 1
    [] signal = "up" /\ b.opp < (IF b.short > 0 THEN 0 ELSE para.threshold_self)   -> b.opp + 1
    [] OTHER -> b.opp

updateOpp(b, signal) ==
  IF isValidOppTime THEN [b EXCEPT !.opp = OppAfter(b, signal)] ELSE b

\* A usable tick, up to the first order.  What its prices, sizes and volumes come to
\* is any of: the sides favoured by the sign of self_bp_ and by the sizes; the signal,
\* for which self_bp_ has to be below or above 0; and a jump since pre_tick.  Its last
\* price is the bid: the last of the comparisons before refuses any other.
takeTick ==
  LET i == tick.inst
  IN  /\ pc = "onMarketData" /\ ConsumerAt(turn) = "strategy"
      /\ step = 0
      /\ tick.last = tick.quote[1]
      /\ \E signal \in {"down", "up", "none"}, jump \in BOOLEAN :
           /\ favours' \in SUBSET {"short", "long"}
           /\ signal = "down" => "short" \notin favours'
           /\ signal = "up"   => "long" \notin favours'
           /\ jump => para.is_over_night /\ para.is_equity /\ pre_tick[i] # "null"
           /\ book' = [book EXCEPT ![i] = updateOpp(Adjusted(@, jump), signal)]
           /\ orphaned' = IF jump THEN [orphaned EXCEPT ![i] = Forgotten(i)] ELSE orphaned
           /\ clean' = [clean EXCEPT ![i] = @ /\ (jump => book[i].long + book[i].short = 0)]
      /\ pre_tick' = [pre_tick EXCEPT ![i] = "tick of the day"]
      /\ step' = 1
      /\ UNCHANGED <<brokerVars, replayVars, sent, entered, liquidated>>

\* The orders onMarketData may give, in the order of its steps 1 to 6.
Side(k)    == IF k \in {2, 4, 6} THEN "long" ELSE "short"   \* the request's side
Opens(k)   == k \in {1, 2}                                  \* doEnter
Leaves(k)  == k \in {3, 4}                                  \* doExit
Liquidates(k) == k \in {5, 6}                              \* liquidate

\* Mutant: the position of the request's own side.
HeldSameSide(b, k) == IF Side(k) = "short" THEN b.short ELSE b.long

\* What the request would close.
Held(b, k) == IF Side(k) = "short" THEN b.long ELSE b.short

\* Mutant: one order too many.
MayEnterOnceMore(b, k) ==
  /\ Held(b, k) = 0
  /\ (IF Side(k) = "short" THEN b.short ELSE b.long) <= max_pos
  /\ Side(k) \in favours
  /\ IF Side(k) = "short" THEN b.opp <= -para.threshold_self ELSE b.opp >= para.threshold_self

MayEnter(b, k) ==
  /\ Held(b, k) = 0
  /\ (IF Side(k) = "short" THEN b.short ELSE b.long) < max_pos
  /\ Side(k) \in favours
  /\ IF Side(k) = "short" THEN b.opp <= -para.threshold_self ELSE b.opp >= para.threshold_self

\* Mutant: the counter need not come back.
MayExitUncounted(b, k) == Held(b, k) # 0 /\ Side(k) \in favours

MayExit(b, k) ==
  /\ Held(b, k) # 0
  /\ Side(k) \in favours
  /\ IF Side(k) = "short" THEN b.opp <= 0 ELSE b.opp >= 0

Trades(b, k) ==
  \/ Opens(k) /\ isValidEnterTime /\ MayEnter(b, k)
  \/ Leaves(k) /\ isValidExitTime /\ MayExit(b, k)
  \/ Liquidates(k) /\ isLiquidateTime /\ ~para.is_over_night /\ Held(b, k) # 0

OrderQty(b, k) == IF Opens(k) THEN para.ppl ELSE Lesser(para.ppl, Held(b, k))

RequestAt(b, k) ==
  [type |-> "future", inst |-> tick.inst, long |-> Side(k) = "long", open |-> Opens(k),
   price |-> tick.quote[IF Side(k) = "short" THEN 1 ELSE 2], qty |-> OrderQty(b, k)]

\* The first order from here on that onMarketData gives.
IsNextOrder(k) ==
  /\ k \in step .. LastStep - 1
  /\ Trades(book[tick.inst], k)
  /\ \A l \in step .. k - 1 : ~Trades(book[tick.inst], l)

giveOrder ==
  /\ step > 0 /\ ~sent
  /\ \E k \in 1 .. LastStep - 1 :
       /\ IsNextOrder(k)
       /\ submitRequest(RequestAt(book[tick.inst], k))
       /\ step' = k
  /\ sent' = TRUE
  /\ UNCHANGED <<replayVars, book, pre_tick, favours, propertyVars>>

\* doEnter's additions to the own book ...
Entered(b, long, price, qty) ==
  IF long THEN [b EXCEPT !.long = @ + qty, !.cum_long = @ + price * qty, !.trades = @ + qty]
          ELSE [b EXCEPT !.short = @ + qty, !.cum_short = @ + price * qty, !.trades = @ + qty]

\* ... and calculatePnl with doExit's and liquidate's subtractions: what is closed
\* leaves the book at its average price.  (With max_pos = 1 it is one entry's.)
Exited(b, long, price, qty, mult) ==
  IF long THEN LET avgPx == b.cum_short \div b.short
               IN  [b EXCEPT !.short = @ - qty, !.cum_short = @ - avgPx * qty,
                             !.pnl = @ + qty * (avgPx - price) * mult]
          ELSE LET avgPx == b.cum_long \div b.long
               IN  [b EXCEPT !.long = @ - qty, !.cum_long = @ - avgPx * qty,
                             !.pnl = @ + qty * (price - avgPx) * mult]

\* Mutant: an exit is not taken out of the book.
ExitNotBooked(b, q, mult) == IF q.open THEN Entered(b, q.long, q.price, q.qty) ELSE b

Booked(b, q, mult) == IF q.open THEN Entered(b, q.long, q.price, q.qty)
                                ELSE Exited(b, q.long, q.price, q.qty, mult)

\* submitRequest returns, and the own book takes the request for filled.
bookOrder ==
  LET i == tick.inst
      q == RequestAt(book[i], step)
  IN  /\ sent /\ calls = <<>>
      /\ book' = [book EXCEPT ![i] = Booked(@, q, multiplier[i])]
      /\ sent' = FALSE
      /\ step' = step + 1
      /\ entered' = (entered \/ q.open)
      /\ UNCHANGED <<brokerVars, replayVars, pre_tick, favours, orphaned, clean, liquidated>>

endOfTick ==
  /\ step > 0 /\ ~sent
  /\ \A k \in step .. LastStep - 1 : ~Trades(book[tick.inst], k)
  /\ step' = 0
  /\ favours' = {}
  /\ NextConsumer("ticks")
  /\ tick' = IF turn = 1 THEN tick ELSE NoTick
  /\ liquidated' = [liquidated EXCEPT ![tick.inst] =
                      @ \/ (isLiquidateTime /\ ~para.is_over_night)]
  /\ UNCHANGED <<brokerVars, para, consumers, now, logged, book, pre_tick, sent,
                 orphaned, clean, entered, marked>>

-----------------------------------------------------------------------------
(* The end of the day.                                                     *)

endDay ==
  /\ pc = "ticks"
  /\ pc' = "onEndDay"
  /\ turn' = 1
  /\ UNCHANGED <<brokerVars, para, consumers, now, tick, logged, marked, book, pre_tick,
                 favours, step, sent, propertyVars>>

\* Mutant: pre_tick is left pointing into the ticks of the day.
PreTickLeft(p) == p

PreTickKept(p) == IF p = "null" THEN p ELSE "tickFromLastDay"

ResultLine(i) ==
  [trade0 |-> book[i].trades, pnl0 |-> book[i].pnl,
   trade  |-> PositionOf(i).tradeCount, pnl |-> getPositionPnl(PositionOf(i), multiplier[i])]

\* Looking the positions up creates them.
strategyEndDay ==
  /\ pc = "onEndDay" /\ ConsumerAt(turn) = "strategy"
  /\ pre_tick' = [i \in Instruments |-> PreTickKept(pre_tick[i])]
  /\ logged' = [i \in Instruments |-> ResultLine(i)]
  /\ positions' = [i \in Instruments |-> PositionOf(i)]
  /\ NextConsumer("between")
  /\ UNCHANGED <<requestID_, requests_, orders_, cash, calls, days, ghostVars,
                 para, consumers, now, tick, marked, book, favours, step, sent,
                 propertyVars>>

positionsEndDay ==
  /\ pc = "onEndDay" /\ ConsumerAt(turn) = "positions"
  /\ NextConsumer("between")
  /\ UNCHANGED <<brokerVars, para, consumers, now, tick, logged, marked, book, pre_tick,
                 favours, step, sent, propertyVars>>

-----------------------------------------------------------------------------
Broker == (FillOrder \/ NextOrder \/ Return) /\ UNCHANGED strategyVars

Positions == positionsStartDay \/ positionsTick \/ positionsEndDay

Replay == startDay \/ nextTick \/ endDay

Strategy == \/ strategyStartDay \/ skipTick \/ takeTick \/ giveOrder \/ bookOrder
            \/ endOfTick \/ strategyEndDay

StrategyNext == Broker \/ Positions \/ Replay \/ Strategy

allVars == <<brokerVars, strategyVars>>

StrategySpec == StrategyInit /\ [][StrategyNext]_allVars

-----------------------------------------------------------------------------
(* Properties.                                                             *)

\* What the strategy holds by its own book, the broker holds for it, and the rest of
\* what the broker holds is what the book forgot when it was cleared: at the start of
\* a day, when the positions of the day before were not all liquidated, or on a jump.
BookBacked ==
  \A i \in Instruments : ~sent =>
    /\ BrokerLong(i)  = book[i].long + orphaned[i].long
    /\ BrokerShort(i) = book[i].short + orphaned[i].short

\* The strategy never looks whether an order was rejected, and need not: none is.
NoOrderRejected == \A o \in DOMAIN orders_ : orders_[o].status # "Rejected"

\* Whatever the steps of one tick do after each other, the strategy is never long and
\* short at once, and holds no more than one order above its limit.
OneSided ==
  \A i \in Instruments : /\ book[i].long = 0 \/ book[i].short = 0
                         /\ book[i].long + book[i].short < max_pos + para.ppl

\* A tick that opens a position does not close it again: the counter has to come back.
NoRoundTripInTick == sent /\ ~RequestAt(book[tick.inst], step).open => ~entered

\* Once the strategy has seen a usable tick after the time of liquidation, its book is
\* flat for the rest of the day.
LiquidatedStaysFlat ==
  \A i \in Instruments : liquidated[i] => book[i].long + book[i].short = 0

\* The two columns of trades in the day's line, the strategy's and the position
\* manager's, agree, although each is reset by another consumer; so do the two of
\* P&L, average prices against first-in-first-out, of a day that begins and ends flat.
ResultLinesAgree ==
  pc = "between" => \A i \in Instruments :
    /\ logged[i].trade0 = logged[i].trade
    /\ clean[i] /\ book[i].long + book[i].short = 0 => logged[i].pnl0 = logged[i].pnl

\* When the strategy is the first of the two consumers, the day's P&L values what is
\* still open at the last tick's price.  (Were it the last, a position opened on the
\* first day's last tick would be valued at 0.)
MarkedAtLastTick ==
  consumers[1] = "strategy" /\ pc = "between" =>
    \A i \in DOMAIN positions :
      BrokerLong(i) + BrokerShort(i) > 0 => positions[i].lastPrice = marked[i]

\* Between the days, when their ticks may be freed, pre_tick points into none of them.
PreTickOutlivesDay ==
  pc \in {"between", "onStartDay"} => \A i \in Instruments : pre_tick[i] # "tick of the day"

-----------------------------------------------------------------------------
(* Why the strategy is correct: what its steps preserve, from which the     *)
(* properties of its own book above follow, whatever the broker does.       *)

\* The request under way is one the book, unchanged since, gave rise to.
SentTraded == sent => Trades(book[tick.inst], step)

\* The position a tick opened, and the counter that allowed it, rule out every
\* order left in the same tick.
EnteredHeld ==
  LET b == book[tick.inst]
  IN  entered /\ step > 0 =>
        /\ ~sent /\ isValidEnterTime /\ 2 <= step
        /\ \/ b.long = 0 /\ b.short > 0 /\ b.opp <= -para.threshold_self
           \/ b.short = 0 /\ b.long > 0 /\ b.opp >= para.threshold_self /\ 3 <= step

\* Nothing is entered before the strategy has its turn.
EnteredInTurn ==
  pc = "onMarketData" /\ step = 0 /\ (turn = 1 \/ consumers[turn] = "strategy") => ~entered

\* The steps that liquidate have closed what they are there for.
LiquidatedSoFar ==
  step > 0 /\ isLiquidateTime /\ ~para.is_over_night =>
    /\ 6 <= step => book[tick.inst].long = 0
    /\ 7 <= step => book[tick.inst].short = 0

\* A book found liquidated is flat, and it is still too late to open a position.
LiquidatedForGood ==
  \A i \in Instruments :
    liquidated[i] => /\ isLiquidateTime /\ ~para.is_over_night
                     /\ book[i].long = 0 /\ book[i].short = 0

\* The end of the day takes pre_tick out of the ticks when it comes to the strategy.
PreTickKeptInTurn ==
  (pc = "onEndDay" /\ turn = 2 /\ consumers[1] = "strategy")
     => \A i \in Instruments : pre_tick[i] # "tick of the day"
=============================================================================
