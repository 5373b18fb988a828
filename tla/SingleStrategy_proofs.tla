------------------------- MODULE SingleStrategy_proofs -------------------------
(***************************************************************************)
(* Proofs about the strategy, for any instruments, prices, configurations, *)
(* days and times of day: first what depends on its own book and its tick  *)
(* only, for which the broker's steps are taken together; then the strategy*)
(* with its broker, whose invariant and lemmas FakeOrderManager_proofs has.*)
(***************************************************************************)
EXTENDS SingleStrategy, FakeOrderManager_proofs

-----------------------------------------------------------------------------
(* What the steps of onMarketData do to a book.                            *)

\* updateOpp keeps the quantities and the threshold's bounds; only an adjustment
\* clears them.
LEMMA UpdatedBook ==
  ASSUME para \in ConfigSpace, NEW b \in Books,
         b.opp \in -para.threshold_self .. para.threshold_self,
         NEW jump \in BOOLEAN, NEW signal,
         NEW c, c = updateOpp(Adjusted(b, jump), signal)
  PROVE  /\ c \in Books
         /\ c.opp \in -para.threshold_self .. para.threshold_self
         /\ \/ c.long = b.long /\ c.short = b.short
            \/ c.long = 0 /\ c.short = 0
<1> DEFINE a == Adjusted(b, jump)
<1>0. para.threshold_self \in Nat \ {0}
  BY DEF ConfigSpace
<1>1. /\ a \in Books /\ a.opp = b.opp
      /\ \/ a.long = b.long /\ a.short = b.short
         \/ a.long = 0 /\ a.short = 0
  <2>1. CASE jump
    <3>1. a = [b EXCEPT !.long = 0, !.short = 0, !.cum_long = 0, !.cum_short = 0]
      BY <2>1 DEF Adjusted
    <3> HIDE DEF a
    <3>2. a = [long |-> 0, short |-> 0, cum_long |-> 0, cum_short |-> 0,
               opp |-> b.opp, pnl |-> b.pnl, trades |-> b.trades]
      BY <3>1 DEF Books
    <3>3. b.opp \in Int /\ b.pnl \in Int /\ b.trades \in Nat
      BY DEF Books
    <3>4. a \in Books
      BY <3>2, <3>3 DEF Books
    <3> QED
      BY <3>2, <3>4
  <2>2. CASE ~jump
    BY <2>2 DEF Adjusted
  <2> QED
    BY <2>1, <2>2
<1>2. OppAfter(a, signal) \in -para.threshold_self .. para.threshold_self
  <2> HIDE DEF a
  <2>1. a.opp \in Int /\ a.long \in Nat /\ a.short \in Nat
    BY <1>1 DEF Books
  <2> QED
    BY <1>0, <1>1, <2>1 DEF OppAfter
<1>3. c = IF isValidOppTime THEN [a EXCEPT !.opp = OppAfter(a, signal)] ELSE a
  BY DEF updateOpp
<1> QED
  <2> HIDE DEF a
  <2> QED
    BY <1>0, <1>1, <1>2, <1>3 DEF Books

\* What a request takes out of the book is there, and its price is a price.
LEMMA RequestFits ==
  ASSUME para \in ConfigSpace, tick \in Ticks,
         NEW b \in Books, NEW k \in 1 .. LastStep - 1, Trades(b, k),
         NEW q, q = RequestAt(b, k)
  PROVE  /\ q.qty \in Nat \ {0} /\ q.price \in Nat /\ q.inst = tick.inst
         /\ q.long \in BOOLEAN /\ q.long = (Side(k) = "long")
         /\ q.open \in BOOLEAN /\ q.open = Opens(k)
         /\ q.open  => isValidEnterTime /\ MayEnter(b, k) /\ q.qty = para.ppl
         /\ ~q.open => Held(b, k) > 0 /\ q.qty = Lesser(para.ppl, Held(b, k))
<1>1. para.ppl \in Nat \ {0}
  BY QuantityAssumption DEF ConfigSpace
<1>2. tick.quote[1] \in Nat /\ tick.quote[2] \in Nat
  BY TickAssumption, QuantityAssumption DEF Ticks
<1>3. Held(b, k) \in Nat
  BY DEF Held, Books
<1>4. ~Opens(k) => Held(b, k) # 0
  BY DEF Trades, MayExit, Opens, Leaves
<1>5. Opens(k) => isValidEnterTime /\ MayEnter(b, k)
  BY DEF Trades, Opens, Leaves, Liquidates
<1>6. q.qty = IF Opens(k) THEN para.ppl ELSE Lesser(para.ppl, Held(b, k))
  BY DEF RequestAt, OrderQty
<1>7. q.qty \in Nat \ {0}
  BY <1>1, <1>3, <1>4, <1>6 DEF Lesser
<1>8. /\ q.price \in Nat /\ q.inst = tick.inst
      /\ q.long \in BOOLEAN /\ q.long = (Side(k) = "long")
      /\ q.open \in BOOLEAN /\ q.open = Opens(k)
  BY <1>2 DEF RequestAt, Opens
<1> QED
  BY <1>3, <1>4, <1>5, <1>6, <1>7, <1>8

\* Booking a request takes its quantity into, or out of, the side it is for.
LEMMA BookedBook ==
  ASSUME NEW b \in Books, NEW q, NEW mult \in Nat,
         q.qty \in Nat \ {0}, q.price \in Nat, q.long \in BOOLEAN, q.open \in BOOLEAN,
         ~q.open /\ q.long  => q.qty <= b.short,
         ~q.open /\ ~q.long => q.qty <= b.long,
         NEW c, c = Booked(b, q, mult)
  PROVE  /\ c \in Books /\ c.opp = b.opp
         /\ q.open /\ q.long   => c.long = b.long + q.qty /\ c.short = b.short
         /\ q.open /\ ~q.long  => c.short = b.short + q.qty /\ c.long = b.long
         /\ ~q.open /\ q.long  => c.short = b.short - q.qty /\ c.long = b.long
         /\ ~q.open /\ ~q.long => c.long = b.long - q.qty /\ c.short = b.short
<1>0. /\ b.long \in Nat /\ b.short \in Nat /\ b.cum_long \in Int /\ b.cum_short \in Int
      /\ b.opp \in Int /\ b.pnl \in Int /\ b.trades \in Nat
  BY DEF Books
<1>1. CASE q.open
  <2>1. q.price * q.qty \in Int
    OBVIOUS
  <2>2. c = IF q.long
              THEN [b EXCEPT !.long = @ + q.qty, !.cum_long = @ + q.price * q.qty,
                             !.trades = @ + q.qty]
              ELSE [b EXCEPT !.short = @ + q.qty, !.cum_short = @ + q.price * q.qty,
                             !.trades = @ + q.qty]
    BY <1>1 DEF Booked, Entered
  <2> DEFINE cost == q.price * q.qty
  <2> HIDE DEF cost
  <2>3. cost \in Int /\ b.cum_long + cost \in Int /\ b.cum_short + cost \in Int
    BY <1>0, <2>1 DEF cost
  <2>4. b.long + q.qty \in Nat /\ b.short + q.qty \in Nat /\ b.trades + q.qty \in Nat
    BY <1>0
  <2>5. CASE q.long
    BY <1>0, <1>1, <2>2, <2>3, <2>4, <2>5 DEF Books, cost
  <2>6. CASE ~q.long
    BY <1>0, <1>1, <2>2, <2>3, <2>4, <2>6 DEF Books, cost
  <2> QED
    BY <2>5, <2>6
<1>2. CASE ~q.open /\ q.long
  <2> DEFINE avg == b.cum_short \div b.short
             won == q.qty * (avg - q.price) * mult
  <2>1. avg \in Int
    BY <1>0, <1>2
  <2>2. avg * q.qty \in Int /\ won \in Int
    <3> HIDE DEF avg
    <3>1. avg - q.price \in Int
      BY <2>1
    <3>2. q.qty * (avg - q.price) \in Int
      BY <3>1
    <3> QED
      BY <2>1, <3>2
  <2>3. c = [b EXCEPT !.short = @ - q.qty, !.cum_short = @ - avg * q.qty, !.pnl = @ + won]
    BY <1>2 DEF Booked, Exited
  <2> HIDE DEF avg, won
  <2>4. b.short - q.qty \in Nat
    BY <1>0, <1>2
  <2>5. b.cum_short - avg * q.qty \in Int /\ b.pnl + won \in Int
    BY <1>0, <2>2
  <2> QED
    BY <1>0, <1>2, <2>3, <2>4, <2>5 DEF Books
<1>3. CASE ~q.open /\ ~q.long
  <2> DEFINE avg == b.cum_long \div b.long
             won == q.qty * (q.price - avg) * mult
  <2>1. avg \in Int
    BY <1>0, <1>3
  <2>2. avg * q.qty \in Int /\ won \in Int
    <3> HIDE DEF avg
    <3>1. q.price - avg \in Int
      BY <2>1
    <3>2. q.qty * (q.price - avg) \in Int
      BY <3>1
    <3> QED
      BY <2>1, <3>2
  <2>3. c = [b EXCEPT !.long = @ - q.qty, !.cum_long = @ - avg * q.qty, !.pnl = @ + won]
    BY <1>3 DEF Booked, Exited
  <2> HIDE DEF avg, won
  <2>4. b.long - q.qty \in Nat
    BY <1>0, <1>3
  <2>5. b.cum_long - avg * q.qty \in Int /\ b.pnl + won \in Int
    BY <1>0, <2>2
  <2> QED
    BY <1>0, <1>3, <2>3, <2>4, <2>5 DEF Books
<1> QED
  BY <1>1, <1>2, <1>3
-----------------------------------------------------------------------------
(* Type correctness, and the request under way.                            *)

\* The strategy starts with empty books, before a day.
LEMMA TypeInit == StrategyInit => StrategyTypeOK /\ SentTraded
<1> SUFFICES ASSUME StrategyInit PROVE StrategyTypeOK /\ SentTraded
  OBVIOUS
<1>1. para \in ConfigSpace
  BY ConfigAssumption DEF StrategyInit
<1>2. para.threshold_self \in Nat \ {0}
  BY <1>1 DEF ConfigSpace
<1>3. EmptyBook \in Books /\ EmptyBook.opp \in -para.threshold_self .. para.threshold_self
  BY <1>2 DEF EmptyBook, Books
<1>4. /\ book \in [Instruments -> Books]
      /\ \A i \in Instruments : book[i].opp \in -para.threshold_self .. para.threshold_self
  BY <1>3 DEF StrategyInit
<1>5. step \in 0 .. LastStep /\ step = 0 /\ ~sent
  BY DEF StrategyInit, LastStep
<1>6. /\ pre_tick \in [Instruments -> {"null", "tick of the day", "tickFromLastDay"}]
      /\ liquidated \in [Instruments -> BOOLEAN]
  BY DEF StrategyInit
<1>7. pc = "between" /\ turn = 1 /\ tick = NoTick /\ now = 0 /\ favours = {}
  BY DEF StrategyInit
<1>8. para \in Configs /\ consumers \in ConsumerOrders /\ sent = FALSE /\ entered = FALSE
  BY DEF StrategyInit
<1> QED
  BY <1>4, <1>5, <1>6, <1>7, <1>8 DEF StrategyTypeOK, SentTraded

\* The order found next is the one the book, and nothing before it, gives rise to.
LEMMA NextOrderTrades ==
  ASSUME StrategyTypeOK, step > 0, NEW k \in 1 .. LastStep - 1, IsNextOrder(k)
  PROVE  /\ step <= k
         /\ Trades(book[tick.inst], k)
         /\ \A l \in step .. k - 1 : ~Trades(book[tick.inst], l)
BY DEF IsNextOrder

\* What bookOrder books: a request that fits the book it is taken out of.
LEMMA BookedRequest ==
  ASSUME StrategyTypeOK, SentTraded, sent,
         NEW i, i = tick.inst, NEW b, b = book[i],
         NEW q, q = RequestAt(b, step),
         NEW c, c = Booked(b, q, multiplier[i])
  PROVE  /\ i \in Instruments /\ b \in Books /\ c \in Books /\ c.opp = b.opp
         /\ q.qty \in Nat \ {0} /\ q.long \in BOOLEAN /\ q.open \in BOOLEAN
         /\ q.long = (Side(step) = "long") /\ q.open = Opens(step)
         /\ q.open  => isValidEnterTime /\ MayEnter(b, step) /\ q.qty = para.ppl
         /\ ~q.open => Held(b, step) > 0 /\ q.qty = Lesser(para.ppl, Held(b, step))
         /\ q.open /\ q.long   => c.long = b.long + q.qty /\ c.short = b.short
         /\ q.open /\ ~q.long  => c.short = b.short + q.qty /\ c.long = b.long
         /\ ~q.open /\ q.long  => c.short = b.short - q.qty /\ c.long = b.long
         /\ ~q.open /\ ~q.long => c.long = b.long - q.qty /\ c.short = b.short
<1>1. para \in ConfigSpace /\ para.ppl \in Nat \ {0}
  BY ConfigAssumption, QuantityAssumption DEF StrategyTypeOK, ConfigSpace
<1>2. step \in 1 .. LastStep - 1 /\ tick \in Ticks
  <2>1. step \in 1 .. LastStep - 1
    BY DEF StrategyTypeOK
  <2>2. step # 0
    BY <2>1
  <2> QED
    BY <2>1, <2>2 DEF StrategyTypeOK
<1>3. i \in Instruments /\ b \in Books /\ multiplier[i] \in Nat
  BY <1>2, MultiplierAssumption DEF StrategyTypeOK, Ticks
<1>4. Trades(b, step)
  BY DEF SentTraded
<1>5. /\ q.qty \in Nat \ {0} /\ q.price \in Nat
      /\ q.long \in BOOLEAN /\ q.long = (Side(step) = "long")
      /\ q.open \in BOOLEAN /\ q.open = Opens(step)
      /\ q.open  => isValidEnterTime /\ MayEnter(b, step) /\ q.qty = para.ppl
      /\ ~q.open => Held(b, step) > 0 /\ q.qty = Lesser(para.ppl, Held(b, step))
  BY <1>1, <1>2, <1>3, <1>4, RequestFits
<1>6. ~q.open /\ q.long => q.qty <= b.short
  BY <1>1, <1>3, <1>5 DEF Held, Lesser, Books
<1>7. ~q.open /\ ~q.long => q.qty <= b.long
  <2>1. ASSUME ~q.long PROVE Side(step) = "short"
    BY <1>5, <2>1 DEF Side
  <2> QED
    BY <1>1, <1>3, <1>5, <2>1 DEF Held, Lesser, Books
<1>8. /\ c \in Books /\ c.opp = b.opp
      /\ q.open /\ q.long   => c.long = b.long + q.qty /\ c.short = b.short
      /\ q.open /\ ~q.long  => c.short = b.short + q.qty /\ c.long = b.long
      /\ ~q.open /\ q.long  => c.short = b.short - q.qty /\ c.long = b.long
      /\ ~q.open /\ ~q.long => c.long = b.long - q.qty /\ c.short = b.short
  <2>1. q.qty \in Nat \ {0} /\ q.price \in Nat /\ q.long \in BOOLEAN /\ q.open \in BOOLEAN
    BY <1>5
  <2> QED
    BY <1>3, <1>6, <1>7, <2>1, BookedBook
<1> QED
  BY <1>3, <1>5, <1>8

\* No step takes a variable of the strategy out of its type.
LEMMA TypeStep == StrategyTypeOK /\ SentTraded /\ [StrategyNext]_allVars => StrategyTypeOK'
<1> SUFFICES ASSUME StrategyTypeOK, SentTraded, [StrategyNext]_allVars PROVE StrategyTypeOK'
  OBVIOUS
<1> USE DEF LastStep
<1>0. para \in ConfigSpace /\ para.threshold_self \in Nat \ {0}
  BY ConfigAssumption DEF StrategyTypeOK, ConfigSpace
<1>1. CASE Broker \/ UNCHANGED allVars
  <2>1. UNCHANGED strategyVars
    BY <1>1 DEF Broker, allVars
  <2>2. UNCHANGED <<para, consumers, pc, turn, now, book, pre_tick, tick, favours, step, sent,
                    entered, liquidated>>
    BY <2>1 DEF strategyVars, replayVars, propertyVars
  <2> QED
    BY <2>2 DEF StrategyTypeOK
<1>2. CASE startDay
  BY <1>2 DEF startDay, StrategyTypeOK, brokerVars
<1>3. CASE nextTick
  BY <1>3, TickAssumption DEF nextTick, StrategyTypeOK
<1>4. CASE endDay
  BY <1>4 DEF endDay, StrategyTypeOK, propertyVars
<1>5. CASE positionsStartDay
  BY <1>5 DEF positionsStartDay, ConsumerAt, NextConsumer, StrategyTypeOK, propertyVars
<1>6. CASE positionsTick
  BY <1>6 DEF positionsTick, ConsumerAt, NextConsumer, StrategyTypeOK, propertyVars
<1>7. CASE positionsEndDay
  BY <1>7 DEF positionsEndDay, ConsumerAt, NextConsumer, StrategyTypeOK, propertyVars
<1>8. CASE strategyStartDay
  <2>1. \A b \in Books : /\ initInstrument(b) \in Books
                         /\ initInstrument(b).opp \in {0, b.opp}
    <3>1. EmptyBook \in Books /\ EmptyBook.opp = 0
      BY DEF Books, EmptyBook
    <3>2. ASSUME NEW b \in Books PROVE Continued(b) \in Books /\ Continued(b).opp = b.opp
      <4> DEFINE c == Continued(b)
      <4>1. c = [b EXCEPT !.pnl = 0, !.trades = 0]
        BY DEF Continued
      <4> HIDE DEF c
      <4>2. c = [long |-> b.long, short |-> b.short, cum_long |-> b.cum_long,
                 cum_short |-> b.cum_short, opp |-> b.opp, pnl |-> 0, trades |-> 0]
        BY <4>1 DEF Books
      <4>3. /\ b.long \in Nat /\ b.short \in Nat /\ b.cum_long \in Int /\ b.cum_short \in Int
            /\ b.opp \in Int
        BY DEF Books
      <4>4. c \in Books /\ c.opp = b.opp
        BY <4>2, <4>3 DEF Books
      <4> QED
        BY <4>4 DEF c
    <3> QED
      BY <3>1, <3>2 DEF initInstrument
  <2>2. book' \in [Instruments -> Books]
    BY <1>8, <2>1 DEF strategyStartDay, StrategyTypeOK
  <2>3. \A i \in Instruments : book'[i].opp \in -para.threshold_self .. para.threshold_self
    <3> SUFFICES ASSUME NEW i \in Instruments
                 PROVE  book'[i].opp \in -para.threshold_self .. para.threshold_self
      OBVIOUS
    <3>1. /\ book[i] \in Books
          /\ book[i].opp \in -para.threshold_self .. para.threshold_self
      BY DEF StrategyTypeOK
    <3>2. book'[i].opp \in {0, book[i].opp}
      BY <1>8, <2>1, <3>1 DEF strategyStartDay
    <3> QED
      BY <1>0, <3>1, <3>2
  <2> QED
    BY <1>8, <2>2, <2>3 DEF strategyStartDay, ConsumerAt, NextConsumer, StrategyTypeOK
<1>9. CASE skipTick
  BY <1>9 DEF skipTick, ConsumerAt, NextConsumer, StrategyTypeOK, propertyVars
<1>10. CASE takeTick
  <2>1. tick \in Ticks /\ tick.inst \in Instruments
    BY <1>10 DEF takeTick, StrategyTypeOK, Ticks
  <2>2. PICK signal \in {"down", "up", "none"}, jump \in BOOLEAN :
          book' = [book EXCEPT ![tick.inst] = updateOpp(Adjusted(@, jump), signal)]
    BY <1>10 DEF takeTick
  <2> DEFINE b == book[tick.inst]
             c == updateOpp(Adjusted(b, jump), signal)
  <2>3. b \in Books /\ b.opp \in -para.threshold_self .. para.threshold_self
    BY <2>1 DEF StrategyTypeOK
  <2>4. c \in Books /\ c.opp \in -para.threshold_self .. para.threshold_self
    <3> HIDE DEF b
    <3> QED
      BY <1>0, <2>3, UpdatedBook
  <2>5. book' = [book EXCEPT ![tick.inst] = c]
    BY <2>2
  <2> HIDE DEF b, c
  <2>6. /\ book' \in [Instruments -> Books]
        /\ \A i \in Instruments : book'[i].opp \in -para.threshold_self .. para.threshold_self
    BY <2>1, <2>4, <2>5 DEF StrategyTypeOK
  <2> QED
    <3>1. pre_tick' \in [Instruments -> {"null", "tick of the day", "tickFromLastDay"}]
      BY <1>10 DEF takeTick, StrategyTypeOK
    <3>2. favours' \subseteq {"short", "long"}
      BY <1>10 DEF takeTick
    <3>3. /\ step' = 1 /\ pc = "onMarketData" /\ consumers[turn] = "strategy"
          /\ UNCHANGED <<para, consumers, pc, turn, now, tick, sent, entered, liquidated>>
          /\ step = 0
      BY <1>10 DEF takeTick, ConsumerAt, replayVars
    <3>4. ~sent
      <4>1. sent => step \in 1 .. LastStep - 1
        BY DEF StrategyTypeOK
      <4> QED
        BY <3>3, <4>1
    <3> QED
      <4>0. sent \in BOOLEAN
        BY DEF StrategyTypeOK
      <4>1. step' \in 0 .. LastStep /\ sent' \in BOOLEAN /\ ~sent'
        BY <3>3, <3>4, <4>0
      <4> QED
        BY <2>1, <2>6, <3>1, <3>2, <3>3, <4>1 DEF StrategyTypeOK
<1>11. CASE giveOrder
  <2>1. PICK k \in 1 .. LastStep - 1 : step' = k
    BY <1>11 DEF giveOrder
  <2>2. k \in 0 .. LastStep /\ step # 0
    BY <1>11 DEF giveOrder
  <2>3. /\ sent' = TRUE
        /\ UNCHANGED <<para, consumers, pc, turn, now, book, pre_tick, tick, favours, entered,
                       liquidated>>
    BY <1>11 DEF giveOrder, replayVars, propertyVars
  <2> QED
    BY <2>1, <2>2, <2>3 DEF StrategyTypeOK
<1>12. CASE bookOrder
  <2> DEFINE b == book[tick.inst]
             q == RequestAt(b, step)
             c == Booked(b, q, multiplier[tick.inst])
  <2>1. book' = [book EXCEPT ![tick.inst] = c] /\ entered' = (entered \/ q.open)
    BY <1>12 DEF bookOrder
  <2>2. /\ tick.inst \in Instruments /\ b \in Books /\ c \in Books /\ c.opp = b.opp
        /\ q.open \in BOOLEAN
    BY <1>12, BookedRequest DEF bookOrder
  <2>3. b.opp \in -para.threshold_self .. para.threshold_self
    BY <2>2 DEF StrategyTypeOK
  <2> HIDE DEF b, q, c
  <2>4. /\ book' \in [Instruments -> Books]
        /\ \A i \in Instruments : book'[i].opp \in -para.threshold_self .. para.threshold_self
    BY <2>1, <2>2, <2>3 DEF StrategyTypeOK
  <2>5. entered' \in BOOLEAN
    BY <2>1, <2>2 DEF StrategyTypeOK
  <2>6. step \in 1 .. LastStep - 1 /\ step' = step + 1 /\ sent' = FALSE
    BY <1>12 DEF bookOrder, StrategyTypeOK
  <2>7. step' \in 0 .. LastStep /\ step # 0
    BY <2>6
  <2>8. UNCHANGED <<para, consumers, pc, turn, now, tick, pre_tick, favours, liquidated>>
    BY <1>12 DEF bookOrder, replayVars
  <2> QED
    BY <2>4, <2>5, <2>6, <2>7, <2>8 DEF StrategyTypeOK
<1>13. CASE endOfTick
  <2>1. liquidated' \in [Instruments -> BOOLEAN]
    BY <1>13 DEF endOfTick, StrategyTypeOK, isLiquidateTime
  <2>2. step' = 0 /\ sent' = FALSE /\ favours' = {} /\ pc = "onMarketData" /\ tick \in Ticks
    <3>1. step # 0 /\ step' = 0 /\ favours' = {} /\ sent' = sent /\ ~sent
      BY <1>13 DEF endOfTick
    <3> QED
      BY <3>1 DEF StrategyTypeOK
  <2>3. \/ turn' = 2 /\ pc' = pc /\ tick' = tick
        \/ turn' = 1 /\ pc' = "ticks" /\ tick' = NoTick
    BY <1>13 DEF endOfTick, NextConsumer
  <2>4. UNCHANGED <<para, consumers, now, book, pre_tick, entered>>
    BY <1>13 DEF endOfTick
  <2>5. step' \in 0 .. LastStep
    BY <2>2
  <2> QED
    BY <2>1, <2>2, <2>3, <2>4, <2>5 DEF StrategyTypeOK
<1>14. CASE strategyEndDay
  <2>1. pre_tick' \in [Instruments -> {"null", "tick of the day", "tickFromLastDay"}]
    BY <1>14 DEF strategyEndDay, PreTickKept, StrategyTypeOK
  <2> QED
    BY <1>14, <2>1 DEF strategyEndDay, ConsumerAt, NextConsumer, StrategyTypeOK, propertyVars
<1> QED
  BY <1>1, <1>2, <1>3, <1>4, <1>5, <1>6, <1>7, <1>8, <1>9, <1>10, <1>11, <1>12, <1>13, <1>14
  DEF StrategyNext, Positions, Replay, Strategy

\* Outside of its own turn of a tick the strategy is at no step and has sent nothing.
LEMMA NoOrderOutsideTick ==
  ASSUME StrategyTypeOK,
         step = 0 \/ pc # "onMarketData" \/ consumers[turn] # "strategy"
  PROVE  step = 0 /\ ~sent
<1>1. step = 0
  BY DEF StrategyTypeOK
<1>2. sent => step \in 1 .. LastStep - 1
  BY DEF StrategyTypeOK
<1> QED
  BY <1>1, <1>2

\* What gives or books an order is the strategy in its turn of a tick.
LEMMA OrderInTick ==
  ASSUME StrategyTypeOK, sent \/ step > 0
  PROVE  step # 0 /\ pc = "onMarketData" /\ consumers[turn] = "strategy"
<1>1. step # 0
  <2>1. CASE sent
    <3>1. step \in 1 .. LastStep - 1
      BY <2>1 DEF StrategyTypeOK
    <3> QED
      BY <3>1
  <2>2. CASE step > 0
    BY <2>2
  <2> QED
    BY <2>1, <2>2
<1> QED
  BY <1>1 DEF StrategyTypeOK

\* Only takeTick, giveOrder and bookOrder are followed by a step of the tick, and
\* only the broker's steps come between.
TickSteps == takeTick \/ giveOrder \/ bookOrder

OutsideSteps == \/ Positions \/ Replay \/ strategyStartDay \/ skipTick \/ endOfTick
                \/ strategyEndDay

LEMMA StepsOfTick ==
  ASSUME StrategyTypeOK, OutsideSteps
  PROVE  step' = 0 /\ ~sent'
<1>1. CASE endOfTick
  BY <1>1 DEF endOfTick
<1>2. CASE skipTick
  BY <1>2, NoOrderOutsideTick DEF skipTick
<1>3. CASE startDay
  BY <1>3, NoOrderOutsideTick DEF startDay
<1>4. CASE nextTick
  BY <1>4, NoOrderOutsideTick DEF nextTick
<1>5. CASE endDay
  BY <1>5, NoOrderOutsideTick DEF endDay
<1>6. CASE positionsStartDay
  BY <1>6, NoOrderOutsideTick DEF positionsStartDay
<1>7. CASE positionsTick
  <2>1. consumers[turn] # "strategy" /\ step' = step /\ sent' = sent
    BY <1>7 DEF positionsTick, ConsumerAt
  <2> QED
    BY <2>1, NoOrderOutsideTick
<1>8. CASE positionsEndDay
  BY <1>8, NoOrderOutsideTick DEF positionsEndDay
<1>9. CASE strategyStartDay
  BY <1>9, NoOrderOutsideTick DEF strategyStartDay
<1>10. CASE strategyEndDay
  BY <1>10, NoOrderOutsideTick DEF strategyEndDay
<1> QED
  BY <1>1, <1>2, <1>3, <1>4, <1>5, <1>6, <1>7, <1>8, <1>9, <1>10
  DEF OutsideSteps, Positions, Replay

\* A step is the broker's or none, one of the tick's, or outside of it.
LEMMA StepKinds ==
  ASSUME [StrategyNext]_allVars
  PROVE  UNCHANGED strategyVars \/ TickSteps \/ OutsideSteps
BY DEF StrategyNext, Broker, Strategy, TickSteps, OutsideSteps, allVars

\* What decides whether an order is given stays as it is while it is given.
LEMMA SameTrades ==
  ASSUME UNCHANGED <<now, para, favours>>
  PROVE  \A b, k : Trades(b, k) <=> Trades(b, k)'
BY DEF Trades, MayEnter, MayExit, Held, Side, isValidEnterTime, isValidExitTime, isLiquidateTime,
       InSession, Opens, Leaves, Liquidates

\* The request under way stays the one its book gave rise to.
LEMMA SentTradedStep == StrategyTypeOK /\ SentTraded /\ [StrategyNext]_allVars => SentTraded'
<1> SUFFICES ASSUME StrategyTypeOK, SentTraded, [StrategyNext]_allVars, sent'
             PROVE  Trades(book[tick.inst], step)'
  BY DEF SentTraded
<1>1. CASE UNCHANGED strategyVars
  <2>1. UNCHANGED <<now, para, favours, book, tick, step, sent>>
    BY <1>1 DEF strategyVars, replayVars
  <2>2. Trades(book[tick.inst], step)
    BY <2>1 DEF SentTraded
  <2> QED
    BY <2>1, <2>2, SameTrades
<1>2. CASE takeTick
  <2>1. step = 0 /\ sent' = sent
    BY <1>2 DEF takeTick
  <2> QED
    BY <2>1, NoOrderOutsideTick
<1>3. CASE giveOrder
  <2>1. PICK k \in 1 .. LastStep - 1 : IsNextOrder(k) /\ step' = k
    BY <1>3 DEF giveOrder
  <2>2. Trades(book[tick.inst], k)
    BY <2>1 DEF IsNextOrder
  <2>3. UNCHANGED <<now, para, favours, book, tick>>
    BY <1>3 DEF giveOrder, replayVars
  <2> QED
    BY <2>1, <2>2, <2>3, SameTrades
<1>4. CASE bookOrder
  BY <1>4 DEF bookOrder
<1>5. CASE OutsideSteps
  BY <1>5, StepsOfTick
<1> QED
  BY <1>1, <1>2, <1>3, <1>4, <1>5, StepKinds DEF TickSteps

\* The strategy's state stays within its types, and its requests within its book.
THEOREM StrategyTypeInvariant == StrategySpec => []StrategyTypeOK
<1>1. StrategyInit => StrategyTypeOK /\ SentTraded
  BY TypeInit
<1>2. (StrategyTypeOK /\ SentTraded) /\ [StrategyNext]_allVars => (StrategyTypeOK /\ SentTraded)'
  BY TypeStep, SentTradedStep
<1> QED
  BY <1>1, <1>2, PTL DEF StrategySpec

-----------------------------------------------------------------------------
(* Never long and short at once.                                           *)

\* The part of OneSided about one book.
BookOneSided(b) == /\ b.long = 0 \/ b.short = 0
                   /\ b.long + b.short < max_pos + para.ppl

\* A book the request is booked in stays one-sided.
LEMMA BookedOneSided ==
  ASSUME StrategyTypeOK, SentTraded, sent,
         NEW i, i = tick.inst, NEW b, b = book[i], BookOneSided(b),
         NEW c, c = Booked(b, RequestAt(b, step), multiplier[i])
  PROVE  BookOneSided(c)
<1> DEFINE q == RequestAt(b, step)
<1>1. /\ b \in Books /\ c \in Books
      /\ q.qty \in Nat \ {0} /\ q.long \in BOOLEAN /\ q.open \in BOOLEAN
      /\ q.long = (Side(step) = "long")
      /\ q.open => MayEnter(b, step) /\ q.qty = para.ppl
      /\ q.open /\ q.long   => c.long = b.long + q.qty /\ c.short = b.short
      /\ q.open /\ ~q.long  => c.short = b.short + q.qty /\ c.long = b.long
      /\ ~q.open /\ q.long  => c.short = b.short - q.qty /\ c.long = b.long
      /\ ~q.open /\ ~q.long => c.long = b.long - q.qty /\ c.short = b.short
  BY BookedRequest
<1>2. /\ b.long \in Nat /\ b.short \in Nat /\ c.long \in Nat /\ c.short \in Nat
      /\ max_pos \in Nat /\ para.ppl \in Nat
  BY <1>1, ConfigAssumption, QuantityAssumption, MaxPosAssumption
  DEF Books, StrategyTypeOK, ConfigSpace
<1>3. Side(step) \in {"short", "long"}
  BY DEF Side
<1>4. CASE q.open /\ q.long
  <2>1. b.short = 0 /\ b.long < max_pos
    BY <1>1, <1>4 DEF MayEnter, Held
  <2> HIDE DEF q
  <2> QED
    BY <1>1, <1>2, <1>4, <2>1 DEF BookOneSided
<1>5. CASE q.open /\ ~q.long
  <2>1. Side(step) = "short"
    BY <1>1, <1>3, <1>5
  <2>2. b.long = 0 /\ b.short < max_pos
    BY <1>1, <1>5, <2>1 DEF MayEnter, Held
  <2> HIDE DEF q
  <2> QED
    BY <1>1, <1>2, <1>5, <2>2 DEF BookOneSided
<1>6. CASE ~q.open /\ q.long
  <2> HIDE DEF q
  <2> QED
    BY <1>1, <1>2, <1>6 DEF BookOneSided
<1>7. CASE ~q.open /\ ~q.long
  <2> HIDE DEF q
  <2> QED
    BY <1>1, <1>2, <1>7 DEF BookOneSided
<1> QED
  BY <1>1, <1>4, <1>5, <1>6, <1>7

\* Every step leaves the books one-sided.
LEMMA OneSidedStep ==
  StrategyTypeOK /\ SentTraded /\ OneSided /\ [StrategyNext]_allVars => OneSided'
<1> SUFFICES ASSUME StrategyTypeOK, SentTraded, OneSided, [StrategyNext]_allVars,
                    NEW i \in Instruments
             PROVE  BookOneSided(book[i])'
  BY DEF OneSided, BookOneSided
<1>0. BookOneSided(book[i]) /\ book[i] \in Books /\ para \in ConfigSpace
  BY ConfigAssumption DEF OneSided, BookOneSided, StrategyTypeOK
<1>1. /\ para.ppl \in Nat \ {0} /\ max_pos \in Nat \ {0}
      /\ para.threshold_self \in Nat
  BY <1>0, QuantityAssumption, MaxPosAssumption DEF ConfigSpace
<1>2. ASSUME UNCHANGED para, book'[i].long = 0, book'[i].short = 0 PROVE BookOneSided(book[i])'
  BY <1>1, <1>2 DEF BookOneSided
<1>3. ASSUME UNCHANGED para, book'[i].long = book[i].long, book'[i].short = book[i].short
      PROVE  BookOneSided(book[i])'
  BY <1>0, <1>3 DEF BookOneSided
<1>4. ASSUME UNCHANGED <<para, book>> PROVE BookOneSided(book[i])'
  BY <1>3, <1>4
<1>5. CASE UNCHANGED strategyVars
  BY <1>4, <1>5 DEF strategyVars, replayVars
<1>6. CASE takeTick
  <2>1. tick.inst \in Instruments /\ UNCHANGED para
    BY <1>6 DEF takeTick, StrategyTypeOK, Ticks, ConsumerAt, replayVars
  <2>2. PICK signal \in {"down", "up", "none"}, jump \in BOOLEAN :
          book' = [book EXCEPT ![tick.inst] = updateOpp(Adjusted(@, jump), signal)]
    BY <1>6 DEF takeTick
  <2>3. CASE i = tick.inst
    <3> DEFINE c == updateOpp(Adjusted(book[i], jump), signal)
    <3>1. book'[i] = c
      BY <2>2, <2>3 DEF StrategyTypeOK
    <3>2. book[i].opp \in -para.threshold_self .. para.threshold_self
      BY DEF StrategyTypeOK
    <3>3. \/ c.long = book[i].long /\ c.short = book[i].short
          \/ c.long = 0 /\ c.short = 0
      BY <1>0, <3>2, UpdatedBook
    <3> QED
      BY <1>2, <1>3, <2>1, <3>1, <3>3
  <2>4. CASE i # tick.inst
    <3>1. book'[i] = book[i]
      BY <2>2, <2>4 DEF StrategyTypeOK
    <3> QED
      BY <1>3, <2>1, <3>1
  <2> QED
    BY <2>3, <2>4
<1>7. CASE giveOrder
  BY <1>4, <1>7 DEF giveOrder, replayVars
<1>8. CASE bookOrder
  <2> DEFINE c == Booked(book[tick.inst], RequestAt(book[tick.inst], step), multiplier[tick.inst])
  <2>1. sent /\ UNCHANGED para /\ book' = [book EXCEPT ![tick.inst] = c]
    BY <1>8 DEF bookOrder, replayVars
  <2>2. tick.inst \in Instruments /\ BookOneSided(book[tick.inst])
    BY <2>1, BookedRequest DEF OneSided, BookOneSided
  <2>3. BookOneSided(c)
    BY <2>1, <2>2, BookedOneSided
  <2> HIDE DEF c
  <2>4. CASE i = tick.inst
    <3>1. book'[i] = c
      BY <2>1, <2>4 DEF StrategyTypeOK
    <3> QED
      BY <2>1, <2>3, <3>1 DEF BookOneSided
  <2>5. CASE i # tick.inst
    <3>1. book'[i] = book[i]
      BY <2>1, <2>5 DEF StrategyTypeOK
    <3> QED
      BY <1>3, <2>1, <3>1
  <2> QED
    BY <2>4, <2>5
<1>9. CASE strategyStartDay
  <2>1. book'[i] = initInstrument(book[i]) /\ UNCHANGED para
    BY <1>9 DEF strategyStartDay
  <2>2. CASE para.is_over_night
    <3>1. book'[i] = [book[i] EXCEPT !.pnl = 0, !.trades = 0]
      BY <2>1, <2>2 DEF initInstrument, Continued
    <3>2. book'[i].long = book[i].long /\ book'[i].short = book[i].short
      BY <1>0, <3>1 DEF Books
    <3> QED
      BY <1>3, <2>1, <3>2
  <2>3. CASE ~para.is_over_night
    BY <1>2, <2>1, <2>3 DEF initInstrument, EmptyBook
  <2> QED
    BY <2>2, <2>3
<1>10. CASE OutsideSteps /\ ~strategyStartDay
  BY <1>4, <1>10
  DEF OutsideSteps, Positions, Replay, positionsStartDay, positionsTick, positionsEndDay, startDay,
      nextTick, endDay, skipTick, endOfTick, strategyEndDay
<1> QED
  BY <1>5, <1>6, <1>7, <1>8, <1>9, <1>10, StepKinds DEF TickSteps

\* Whatever the six steps of a tick do after each other, the strategy's book of an
\* instrument has one side, of less than its limit and one order together.
THEOREM BooksOneSided == StrategySpec => []OneSided
<1>1. StrategyInit => OneSided
  <2> SUFFICES ASSUME StrategyInit PROVE OneSided
    OBVIOUS
  <2>1. para.ppl \in Nat \ {0} /\ max_pos \in Nat \ {0}
    BY ConfigAssumption, QuantityAssumption, MaxPosAssumption DEF StrategyInit, ConfigSpace
  <2> QED
    BY <2>1 DEF StrategyInit, OneSided, EmptyBook
<1>2. (StrategyTypeOK /\ SentTraded /\ OneSided) /\ [StrategyNext]_allVars
        => (StrategyTypeOK /\ SentTraded /\ OneSided)'
  BY TypeStep, SentTradedStep, OneSidedStep
<1> QED
  BY <1>1, <1>2, TypeInit, PTL DEF StrategySpec

-----------------------------------------------------------------------------
(* A position is not opened and closed in one tick.                        *)

\* Positions are opened before they are liquidated.
LEMMA EnterBeforeLiquidation ==
  ASSUME StrategyTypeOK PROVE isValidEnterTime => ~isLiquidateTime
<1>1. /\ para.pee_time1 \in Nat /\ para.pee_time2 \in Nat /\ para.exit_time \in Nat
      /\ para.liquidate_time \in Nat /\ now \in Nat
      /\ para.pee_time1 <= para.exit_time /\ para.pee_time2 <= para.exit_time
      /\ para.exit_time <= para.liquidate_time
  BY ConfigAssumption DEF StrategyTypeOK, ConfigSpace
<1> QED
  BY <1>1 DEF isValidEnterTime, isLiquidateTime, InSession

\* After an entry none of the steps left gives an order: the other side's entry and
\* the exits need the other side or a counter that came back, liquidation its time.
LEMMA NothingAfterEntry ==
  ASSUME StrategyTypeOK, EnteredHeld, entered, step > 0, NEW k \in step .. LastStep - 1
  PROVE  ~Trades(book[tick.inst], k)
<1> DEFINE b == book[tick.inst]
<1>1. /\ isValidEnterTime /\ 2 <= step
      /\ \/ b.long = 0 /\ b.short > 0 /\ b.opp <= -para.threshold_self
         \/ b.short = 0 /\ b.long > 0 /\ b.opp >= para.threshold_self /\ 3 <= step
  BY DEF EnteredHeld
<1>2. /\ para.threshold_self \in Nat \ {0} /\ b.long \in Nat /\ b.short \in Nat /\ b.opp \in Int
      /\ step \in Nat /\ step # 0
  <2>0. step \in 0 .. 7
    BY DEF StrategyTypeOK, LastStep
  <2>1. step # 0 /\ step \in Nat
    BY <2>0
  <2>2. tick \in Ticks /\ tick.inst \in Instruments
    BY <2>1 DEF StrategyTypeOK, Ticks
  <2> QED
    BY <2>1, <2>2, ConfigAssumption DEF StrategyTypeOK, ConfigSpace, Books
<1>3. ~isLiquidateTime
  BY <1>1, EnterBeforeLiquidation
<1>4. k \in 2 .. 6 /\ step <= k
  BY <1>1, <1>2 DEF LastStep
<1> HIDE DEF b
<1>5. CASE b.long = 0 /\ b.short > 0 /\ b.opp <= -para.threshold_self
  <2>1. k = 2 => ~MayEnter(b, k)
    BY <1>2, <1>5 DEF MayEnter, Held, Side
  <2>2. k = 3 => ~MayExit(b, k)
    BY <1>2, <1>5 DEF MayExit, Held, Side
  <2>3. k = 4 => ~MayExit(b, k)
    BY <1>2, <1>5 DEF MayExit, Held, Side
  <2> QED
    BY <1>3, <1>4, <2>1, <2>2, <2>3 DEF Trades, Opens, Leaves, b
<1>6. CASE b.short = 0 /\ b.long > 0 /\ b.opp >= para.threshold_self /\ 3 <= step
  <2>1. k # 2
    BY <1>2, <1>4, <1>6
  <2>2. k = 3 => ~MayExit(b, k)
    BY <1>2, <1>6 DEF MayExit, Held, Side
  <2>3. k = 4 => ~MayExit(b, k)
    BY <1>2, <1>6 DEF MayExit, Held, Side
  <2> QED
    BY <1>3, <1>4, <2>1, <2>2, <2>3 DEF Trades, Opens, Leaves, b
<1> QED
  BY <1>1, <1>5, <1>6 DEF b

\* A tick that has entered holds on to its position and gives no other order.
LEMMA EnteredHeldStep ==
  StrategyTypeOK /\ SentTraded /\ EnteredHeld /\ EnteredInTurn /\ [StrategyNext]_allVars
    => EnteredHeld'
<1> SUFFICES ASSUME StrategyTypeOK, SentTraded, EnteredHeld, EnteredInTurn,
                    [StrategyNext]_allVars
             PROVE  EnteredHeld'
  OBVIOUS
<1>1. CASE UNCHANGED strategyVars
  <2>1. UNCHANGED <<now, para, book, tick, step, sent, entered>>
    BY <1>1 DEF strategyVars, replayVars, propertyVars
  <2> QED
    BY <2>1 DEF EnteredHeld, isValidEnterTime, InSession
<1>2. CASE takeTick
  <2>1. ~entered /\ entered' = entered
    BY <1>2 DEF takeTick, ConsumerAt, EnteredInTurn
  <2> QED
    BY <2>1 DEF EnteredHeld
<1>3. CASE giveOrder
  <2>1. PICK k \in 1 .. LastStep - 1 : IsNextOrder(k)
    BY <1>3 DEF giveOrder
  <2>2. k \in step .. LastStep - 1 /\ Trades(book[tick.inst], k) /\ step > 0
    BY <1>3, <2>1 DEF IsNextOrder, giveOrder
  <2>3. ~entered /\ entered' = entered
    BY <1>3, <2>2, NothingAfterEntry DEF giveOrder, propertyVars, StrategyTypeOK
  <2> QED
    BY <2>3 DEF EnteredHeld
<1>4. CASE bookOrder
  <2> SUFFICES ASSUME entered' PROVE EnteredHeld'
    BY DEF EnteredHeld
  <2> DEFINE i == tick.inst
             b == book[i]
             q == RequestAt(b, step)
             c == Booked(b, q, multiplier[i])
  <2>1. /\ sent /\ ~sent' /\ step' = step + 1 /\ entered' = (entered \/ q.open)
        /\ book' = [book EXCEPT ![i] = c]
        /\ UNCHANGED <<now, para, tick>>
    BY <1>4 DEF bookOrder, replayVars
  <2>2. /\ i \in Instruments /\ b \in Books /\ c \in Books /\ c.opp = b.opp
        /\ q.qty \in Nat \ {0} /\ q.long \in BOOLEAN /\ q.open \in BOOLEAN
        /\ q.long = (Side(step) = "long") /\ q.open = Opens(step)
        /\ q.open  => isValidEnterTime /\ MayEnter(b, step)
        /\ q.open /\ q.long   => c.long = b.long + q.qty /\ c.short = b.short
        /\ q.open /\ ~q.long  => c.short = b.short + q.qty /\ c.long = b.long
    BY <2>1, BookedRequest
  <2>3. step \in 1 .. LastStep - 1
    BY <2>1 DEF StrategyTypeOK
  <2>4. ~entered
    BY <2>1, <2>3 DEF EnteredHeld, LastStep
  <2>5. q.open
    BY <2>1, <2>4
  <2>6. step \in {1, 2}
    BY <2>2, <2>5 DEF Opens
  <2>7. book'[tick'.inst] = c
    BY <2>1, <2>2 DEF StrategyTypeOK
  <2>8. isValidEnterTime'
    BY <2>1, <2>2, <2>5 DEF isValidEnterTime, InSession
  <2>9. b.long \in Nat /\ b.short \in Nat
    BY <2>2 DEF Books
  <2>10. CASE step = 1
    <3>1. Side(step) = "short" /\ ~q.long
      <4>1. Side(step) = "short"
        BY <2>10 DEF Side
      <4> HIDE DEF q
      <4> QED
        BY <2>2, <4>1
    <3>2. b.long = 0 /\ b.opp <= -para.threshold_self
      BY <2>2, <2>5, <3>1 DEF MayEnter, Held
    <3> HIDE DEF q, c
    <3>3. c.long = 0 /\ c.short > 0 /\ c.opp <= -para.threshold_self /\ 2 <= step'
      BY <2>1, <2>2, <2>5, <2>9, <2>10, <3>1, <3>2
    <3> QED
      BY <2>1, <2>7, <2>8, <3>3 DEF EnteredHeld
  <2>11. CASE step = 2
    <3>1. Side(step) # "short" /\ q.long
      BY <2>2, <2>11 DEF Side
    <3>2. b.short = 0 /\ b.opp >= para.threshold_self
      BY <2>2, <2>5, <3>1 DEF MayEnter, Held
    <3> HIDE DEF q, c
    <3>3. c.short = 0 /\ c.long > 0 /\ c.opp >= para.threshold_self /\ 3 <= step' /\ 2 <= step'
      BY <2>1, <2>2, <2>5, <2>9, <2>11, <3>1, <3>2
    <3> QED
      BY <2>1, <2>7, <2>8, <3>3 DEF EnteredHeld
  <2> QED
    BY <2>6, <2>10, <2>11
<1>5. CASE OutsideSteps
  <2>1. step' = 0
    BY <1>5, StepsOfTick
  <2> QED
    BY <2>1 DEF EnteredHeld
<1> QED
  BY <1>1, <1>2, <1>3, <1>4, <1>5, StepKinds DEF TickSteps

\* Nothing has been entered when it comes to the strategy.
LEMMA EnteredInTurnStep ==
  StrategyTypeOK /\ EnteredInTurn /\ [StrategyNext]_allVars => EnteredInTurn'
<1> SUFFICES ASSUME StrategyTypeOK, EnteredInTurn, [StrategyNext]_allVars,
                    pc' = "onMarketData", step' = 0,
                    turn' = 1 \/ consumers'[turn'] = "strategy"
             PROVE  ~entered'
  BY DEF EnteredInTurn
<1>0. turn \in {1, 2} /\ consumers \in ConsumerOrders
  BY DEF StrategyTypeOK
<1>1. CASE UNCHANGED strategyVars
  <2>1. UNCHANGED <<pc, step, turn, consumers, entered>>
    BY <1>1 DEF strategyVars, replayVars, propertyVars
  <2> QED
    BY <2>1 DEF EnteredInTurn
<1>2. CASE takeTick
  <2>1. step' = 1
    BY <1>2 DEF takeTick
  <2> QED
    BY <2>1
<1>3. CASE giveOrder
  BY <1>3 DEF giveOrder, LastStep
<1>4. CASE bookOrder
  <2>1. step \in 1 .. LastStep - 1 /\ step' = step + 1
    BY <1>4 DEF bookOrder, StrategyTypeOK
  <2> QED
    BY <2>1 DEF LastStep
<1>5. CASE nextTick
  BY <1>5 DEF nextTick
<1>6. CASE positionsTick
  <2>1. /\ pc = "onMarketData" /\ consumers[turn] = "positions" /\ entered' = entered
        /\ turn = 1 /\ UNCHANGED step
    BY <1>0, <1>6 DEF positionsTick, ConsumerAt, NextConsumer, propertyVars
  <2> QED
    BY <2>1 DEF EnteredInTurn
<1>7. CASE skipTick
  BY <1>7 DEF skipTick, ConsumerAt, propertyVars, EnteredInTurn
<1>8. CASE endOfTick
  <2>1. step # 0
    BY <1>8 DEF endOfTick
  <2>2. consumers[turn] = "strategy" /\ UNCHANGED consumers
    BY <1>8, <2>1 DEF endOfTick, StrategyTypeOK
  <2>3. turn = 1 /\ turn' = 2
    BY <1>0, <1>8 DEF endOfTick, NextConsumer
  <2> QED
    BY <1>0, <2>2, <2>3 DEF ConsumerOrders
<1>9. CASE startDay \/ endDay \/ positionsEndDay \/ positionsStartDay \/ strategyStartDay
             \/ strategyEndDay
  BY <1>0, <1>9
  DEF startDay, endDay, positionsEndDay, positionsStartDay, strategyStartDay, strategyEndDay,
      NextConsumer
<1> QED
  BY <1>1, <1>2, <1>3, <1>4, <1>5, <1>6, <1>7, <1>8, <1>9, StepKinds
  DEF TickSteps, OutsideSteps, Positions, Replay

\* The strategy does not close in a tick what it opened in it, although the exits
\* follow the entries and read the book these changed.
THEOREM NoRoundTrip == StrategySpec => []NoRoundTripInTick
<1> DEFINE Inv == StrategyTypeOK /\ SentTraded /\ EnteredHeld /\ EnteredInTurn
<1>1. StrategyInit => Inv
  BY TypeInit DEF StrategyInit, EnteredHeld, EnteredInTurn
<1>2. Inv /\ [StrategyNext]_allVars => Inv'
  BY TypeStep, SentTradedStep, EnteredHeldStep, EnteredInTurnStep
<1>3. Inv => NoRoundTripInTick
  <2> SUFFICES ASSUME Inv, sent, entered PROVE FALSE
    BY DEF NoRoundTripInTick
  <2>1. step \in 1 .. LastStep - 1
    BY DEF StrategyTypeOK
  <2> QED
    BY <2>1 DEF EnteredHeld, LastStep
<1> QED
  BY <1>1, <1>2, <1>3, PTL DEF StrategySpec

-----------------------------------------------------------------------------
(* Liquidation.                                                            *)

\* The steps that liquidate close all of a book that holds one order's quantity.
LEMMA LiquidatedSoFarStep ==
  ASSUME max_pos = 1
  PROVE  StrategyTypeOK /\ SentTraded /\ OneSided /\ LiquidatedSoFar /\ [StrategyNext]_allVars
           => LiquidatedSoFar'
<1> SUFFICES ASSUME StrategyTypeOK, SentTraded, OneSided, LiquidatedSoFar,
                    [StrategyNext]_allVars, isLiquidateTime', ~para'.is_over_night, step' > 0
             PROVE  /\ 6 <= step' => book'[tick'.inst].long = 0
                    /\ 7 <= step' => book'[tick'.inst].short = 0
  BY DEF LiquidatedSoFar
<1>1. CASE UNCHANGED strategyVars
  <2>1. UNCHANGED <<now, para, book, tick, step>>
    BY <1>1 DEF strategyVars, replayVars
  <2> QED
    BY <2>1 DEF LiquidatedSoFar, isLiquidateTime
<1>2. CASE takeTick
  <2>1. step' = 1
    BY <1>2 DEF takeTick
  <2> QED
    BY <2>1
<1>3. CASE giveOrder
  <2>1. PICK k \in 1 .. LastStep - 1 : IsNextOrder(k) /\ step' = k
    BY <1>3 DEF giveOrder
  <2>2. UNCHANGED <<now, para, book, tick>> /\ step > 0
    BY <1>3 DEF giveOrder, replayVars
  <2>3. isLiquidateTime /\ ~para.is_over_night
    BY <2>2 DEF isLiquidateTime
  <2>4. step \in 0 .. 7 /\ step <= k /\ k <= 6
    <3>1. step \in 0 .. LastStep /\ k \in step .. LastStep - 1
      BY <2>1 DEF IsNextOrder, StrategyTypeOK
    <3> QED
      BY <3>1 DEF LastStep
  <2>5. CASE step <= 5 /\ k = 6
    <3>1. ~Trades(book[tick.inst], 5)
      BY <2>1, <2>4, <2>5 DEF IsNextOrder
    <3>2. Held(book[tick.inst], 5) = 0
      BY <2>3, <3>1 DEF Trades, Liquidates
    <3>3. book[tick.inst].long = 0
      BY <3>2 DEF Held, Side
    <3> QED
      BY <2>1, <2>2, <2>5, <3>3
  <2>6. CASE step = 6
    BY <2>1, <2>2, <2>3, <2>4, <2>6 DEF LiquidatedSoFar
  <2>7. CASE k # 6
    BY <2>1, <2>4, <2>7
  <2> QED
    BY <2>4, <2>5, <2>6, <2>7
<1>4. CASE bookOrder
  <2> DEFINE i == tick.inst
             b == book[i]
             q == RequestAt(b, step)
             c == Booked(b, q, multiplier[i])
  <2>1. /\ sent /\ step' = step + 1 /\ book' = [book EXCEPT ![i] = c]
        /\ UNCHANGED <<now, para, tick>>
    BY <1>4 DEF bookOrder, replayVars
  <2>2. /\ i \in Instruments /\ b \in Books /\ c \in Books
        /\ q.qty \in Nat \ {0} /\ q.long \in BOOLEAN /\ q.open \in BOOLEAN
        /\ q.long = (Side(step) = "long") /\ q.open = Opens(step)
        /\ ~q.open => Held(b, step) > 0 /\ q.qty = Lesser(para.ppl, Held(b, step))
        /\ ~q.open /\ q.long  => c.short = b.short - q.qty /\ c.long = b.long
        /\ ~q.open /\ ~q.long => c.long = b.long - q.qty /\ c.short = b.short
    BY <2>1, BookedRequest
  <2>3. step \in 1 .. 6
    <3>1. step \in 1 .. LastStep - 1
      BY <2>1 DEF StrategyTypeOK
    <3> QED
      BY <3>1 DEF LastStep
  <2>4. book'[tick'.inst] = c
    BY <2>1, <2>2 DEF StrategyTypeOK
  <2>5. /\ b.long \in Nat /\ b.short \in Nat /\ c.long \in Nat /\ c.short \in Nat
        /\ para.ppl \in Nat
    BY <2>2, ConfigAssumption, QuantityAssumption DEF Books, StrategyTypeOK, ConfigSpace
  <2>6. b.long <= para.ppl /\ b.short <= para.ppl
    <3>1. b.long + b.short < 1 + para.ppl
      BY <2>2 DEF OneSided
    <3> HIDE DEF b
    <3> QED
      BY <2>5, <3>1
  <2>7. CASE step = 5
    <3>1. Side(step) = "short" /\ ~Opens(step)
      BY <2>7 DEF Side, Opens
    <3>2. Held(b, step) = b.long
      BY <3>1 DEF Held
    <3> HIDE DEF b, q, c
    <3>3. c.long = b.long - q.qty /\ q.qty = Lesser(para.ppl, b.long)
      BY <2>2, <3>1, <3>2
    <3>4. c.long = 0
      BY <2>5, <2>6, <3>3 DEF Lesser
    <3> QED
      BY <2>1, <2>4, <2>7, <3>4
  <2>8. CASE step = 6
    <3>1. Side(step) = "long" /\ ~Opens(step)
      BY <2>8 DEF Side, Opens
    <3>2. Held(b, step) = b.short
      BY <3>1 DEF Held
    <3>3. b.long = 0
      BY <2>1, <2>8 DEF LiquidatedSoFar, isLiquidateTime
    <3> HIDE DEF b, q, c
    <3>4. c.short = b.short - q.qty /\ c.long = b.long /\ q.qty = Lesser(para.ppl, b.short)
      BY <2>2, <3>1, <3>2
    <3>5. c.short = 0
      BY <2>5, <2>6, <3>4 DEF Lesser
    <3> QED
      BY <2>4, <3>3, <3>4, <3>5
  <2>9. CASE step < 5
    BY <2>1, <2>3, <2>9
  <2> QED
    BY <2>3, <2>7, <2>8, <2>9
<1>5. CASE OutsideSteps
  BY <1>5, StepsOfTick
<1> QED
  BY <1>1, <1>2, <1>3, <1>4, <1>5, StepKinds DEF TickSteps

\* A book found liquidated is flat for the rest of the day.
LEMMA LiquidatedForGoodStep ==
  ASSUME max_pos = 1
  PROVE  (StrategyTypeOK /\ SentTraded /\ LiquidatedSoFar /\ LiquidatedForGood)
           /\ [StrategyNext]_allVars => LiquidatedForGood'
<1> SUFFICES ASSUME StrategyTypeOK, SentTraded, LiquidatedSoFar, LiquidatedForGood,
                    [StrategyNext]_allVars, NEW i \in Instruments, liquidated'[i]
             PROVE  /\ isLiquidateTime' /\ ~para'.is_over_night
                    /\ book'[i].long = 0 /\ book'[i].short = 0
  BY DEF LiquidatedForGood
<1>0. liquidated[i] => /\ isLiquidateTime /\ ~para.is_over_night
                       /\ book[i].long = 0 /\ book[i].short = 0
  BY DEF LiquidatedForGood
<1>1. ASSUME UNCHANGED <<now, para, book, liquidated>>
      PROVE  /\ isLiquidateTime' /\ ~para'.is_over_night
             /\ book'[i].long = 0 /\ book'[i].short = 0
  BY <1>0, <1>1 DEF isLiquidateTime
<1>2. CASE UNCHANGED strategyVars
  BY <1>1, <1>2 DEF strategyVars, replayVars, propertyVars
<1>3. CASE takeTick
  <2>1. UNCHANGED <<now, para, liquidated>> /\ tick.inst \in Instruments
    BY <1>3 DEF takeTick, replayVars, StrategyTypeOK, ConsumerAt, Ticks
  <2>2. PICK signal \in {"down", "up", "none"}, jump \in BOOLEAN :
          book' = [book EXCEPT ![tick.inst] = updateOpp(Adjusted(@, jump), signal)]
    BY <1>3 DEF takeTick
  <2>3. book'[i].long = 0 /\ book'[i].short = 0
    <3> DEFINE c == updateOpp(Adjusted(book[i], jump), signal)
    <3>1. book[i].long = 0 /\ book[i].short = 0
      BY <1>0, <2>1
    <3>2. para \in ConfigSpace /\ book[i] \in Books
          /\ book[i].opp \in -para.threshold_self .. para.threshold_self
      BY ConfigAssumption DEF StrategyTypeOK
    <3>3. c.long = 0 /\ c.short = 0
      <4>1. \/ c.long = book[i].long /\ c.short = book[i].short
            \/ c.long = 0 /\ c.short = 0
        BY <3>2, UpdatedBook
      <4> QED
        BY <3>1, <4>1
    <3>4. book'[i] = IF i = tick.inst THEN c ELSE book[i]
      BY <2>2 DEF StrategyTypeOK
    <3> HIDE DEF c
    <3> QED
      BY <3>1, <3>3, <3>4
  <2> QED
    BY <1>0, <2>1, <2>3 DEF isLiquidateTime
<1>4. CASE giveOrder
  BY <1>1, <1>4 DEF giveOrder, replayVars, propertyVars
<1>5. CASE bookOrder
  <2> DEFINE b == book[tick.inst]
             q == RequestAt(b, step)
             c == Booked(b, q, multiplier[tick.inst])
  <2>1. /\ sent /\ book' = [book EXCEPT ![tick.inst] = c]
        /\ UNCHANGED <<now, para, liquidated>>
    BY <1>5 DEF bookOrder, replayVars
  <2>2. i # tick.inst
    <3> SUFFICES ASSUME i = tick.inst PROVE FALSE
      OBVIOUS
    <3>1. isLiquidateTime /\ b.long = 0 /\ b.short = 0
      BY <1>0, <2>1
    <3>2. /\ q.open => isValidEnterTime
          /\ ~q.open => Held(b, step) > 0
      BY <2>1, BookedRequest
    <3>3. Held(b, step) = 0
      BY <3>1 DEF Held
    <3> QED
      BY <3>1, <3>2, <3>3, EnterBeforeLiquidation
  <2> HIDE DEF c
  <2>3. book'[i] = book[i]
    BY <2>1, <2>2 DEF StrategyTypeOK
  <2> QED
    BY <1>0, <2>1, <2>3 DEF isLiquidateTime
<1>6. CASE endOfTick
  <2>1. UNCHANGED <<now, para, book>>
    BY <1>6 DEF endOfTick
  <2>2. CASE liquidated[i]
    BY <1>0, <2>1, <2>2 DEF isLiquidateTime
  <2>3. CASE ~liquidated[i]
    <3>1. i = tick.inst /\ isLiquidateTime /\ ~para.is_over_night
      BY <1>6, <2>3 DEF endOfTick, StrategyTypeOK
    <3>2. step \in 0 .. 7 /\ step > 0
      BY <1>6 DEF endOfTick, StrategyTypeOK, LastStep
    <3>3. \A k \in step .. 6 : ~Trades(book[i], k)
      BY <1>6, <3>1 DEF endOfTick, LastStep
    <3>4. book[i].long = 0
      <4>1. CASE step <= 5
        <5>1. ~Trades(book[i], 5)
          BY <3>2, <3>3, <4>1
        <5> QED
          BY <3>1, <5>1 DEF Trades, Liquidates, Held, Side
      <4>2. CASE 6 <= step
        BY <3>1, <3>2, <4>2 DEF LiquidatedSoFar
      <4> QED
        BY <3>2, <4>1, <4>2
    <3>5. book[i].short = 0
      <4>1. CASE step <= 6
        <5>1. ~Trades(book[i], 6)
          BY <3>2, <3>3, <4>1
        <5> QED
          BY <3>1, <5>1 DEF Trades, Liquidates, Held, Side
      <4>2. CASE 7 <= step
        BY <3>1, <3>2, <4>2 DEF LiquidatedSoFar
      <4> QED
        BY <3>2, <4>1, <4>2
    <3> QED
      BY <2>1, <3>1, <3>4, <3>5 DEF isLiquidateTime
  <2> QED
    BY <2>2, <2>3
<1>7. CASE startDay
  BY <1>7 DEF startDay
<1>8. CASE nextTick
  <2>1. UNCHANGED <<para, book, liquidated>> /\ now' \in Nat /\ now <= now'
    BY <1>8, TickAssumption DEF nextTick
  <2>2. para.liquidate_time \in Nat /\ now \in Nat
    BY ConfigAssumption DEF StrategyTypeOK, ConfigSpace
  <2> QED
    BY <1>0, <2>1, <2>2 DEF isLiquidateTime
<1>9. CASE strategyStartDay
  <2>1. UNCHANGED <<now, para, liquidated>> /\ book'[i] = initInstrument(book[i])
    BY <1>9 DEF strategyStartDay
  <2>2. book'[i].long = 0 /\ book'[i].short = 0
    BY <1>0, <2>1 DEF initInstrument, EmptyBook
  <2> QED
    BY <1>0, <2>1, <2>2 DEF isLiquidateTime
<1>10. CASE endDay \/ Positions \/ skipTick \/ strategyEndDay
  BY <1>1, <1>10
  DEF endDay, Positions, positionsStartDay, positionsTick, positionsEndDay, skipTick,
      strategyEndDay, propertyVars
<1> QED
  BY <1>2, <1>3, <1>4, <1>5, <1>6, <1>7, <1>8, <1>9, <1>10, StepKinds
  DEF TickSteps, OutsideSteps, Replay

\* With the program's limit of one order per side, a strategy that is not to hold
\* overnight is flat from its first usable tick after liquidate_time to the end of
\* the day, whichever entries and exits came before.
THEOREM LiquidatedForTheDay ==
  ASSUME max_pos = 1 PROVE StrategySpec => []LiquidatedStaysFlat
<1> DEFINE Inv == StrategyTypeOK /\ SentTraded /\ OneSided /\ LiquidatedSoFar /\ LiquidatedForGood
<1>1. StrategyInit => OneSided /\ LiquidatedSoFar /\ LiquidatedForGood
  <2> SUFFICES ASSUME StrategyInit PROVE OneSided /\ LiquidatedSoFar /\ LiquidatedForGood
    OBVIOUS
  <2>1. para.ppl \in Nat \ {0} /\ max_pos \in Nat \ {0}
    BY ConfigAssumption, QuantityAssumption, MaxPosAssumption DEF StrategyInit, ConfigSpace
  <2> QED
    BY <2>1 DEF StrategyInit, OneSided, LiquidatedSoFar, LiquidatedForGood, EmptyBook
<1>2. Inv /\ [StrategyNext]_allVars => Inv'
  BY TypeStep, SentTradedStep, OneSidedStep, LiquidatedSoFarStep, LiquidatedForGoodStep
<1>3. Inv => LiquidatedStaysFlat
  BY DEF LiquidatedForGood, LiquidatedStaysFlat
<1> QED
  BY <1>1, <1>2, <1>3, TypeInit, PTL DEF StrategySpec

-----------------------------------------------------------------------------
(* pre_tick and the ticks of a day.                                        *)

\* The end of the day comes to the strategy before the day is over.
LEMMA PreTickStep ==
  StrategyTypeOK /\ PreTickOutlivesDay /\ PreTickKeptInTurn /\ [StrategyNext]_allVars
    => PreTickOutlivesDay' /\ PreTickKeptInTurn'
<1> SUFFICES ASSUME StrategyTypeOK, PreTickOutlivesDay, PreTickKeptInTurn, [StrategyNext]_allVars
             PROVE  PreTickOutlivesDay' /\ PreTickKeptInTurn'
  OBVIOUS
<1>0. turn \in {1, 2} /\ consumers \in ConsumerOrders
  BY DEF StrategyTypeOK
<1> USE DEF PreTickOutlivesDay, PreTickKeptInTurn
<1>1. CASE UNCHANGED strategyVars
  <2>1. UNCHANGED <<pc, turn, consumers, pre_tick>>
    BY <1>1 DEF strategyVars, replayVars
  <2> QED
    BY <2>1
<1>2. CASE TickSteps
  <2>1. pc' = "onMarketData"
    <3>1. CASE takeTick
      BY <3>1 DEF takeTick, replayVars
    <3>2. CASE giveOrder
      BY <3>2, OrderInTick DEF giveOrder, replayVars
    <3>3. CASE bookOrder
      BY <3>3, OrderInTick DEF bookOrder, replayVars
    <3> QED
      BY <1>2, <3>1, <3>2, <3>3 DEF TickSteps
  <2> QED
    BY <2>1
<1>3. CASE startDay
  BY <1>3 DEF startDay
<1>4. CASE nextTick
  BY <1>4 DEF nextTick
<1>5. CASE endDay
  BY <1>5 DEF endDay
<1>6. CASE positionsStartDay \/ strategyStartDay
  BY <1>6 DEF positionsStartDay, strategyStartDay, NextConsumer
<1>7. CASE positionsTick \/ skipTick \/ endOfTick
  <2>1. pc' \in {"onMarketData", "ticks"}
    <3>1. CASE positionsTick
      BY <3>1 DEF positionsTick, NextConsumer
    <3>2. CASE skipTick
      BY <3>2 DEF skipTick, NextConsumer
    <3>3. CASE endOfTick
      <4>1. pc = "onMarketData"
        BY <3>3, OrderInTick DEF endOfTick
      <4> QED
        BY <3>3, <4>1 DEF endOfTick, NextConsumer
    <3> QED
      BY <1>7, <3>1, <3>2, <3>3
  <2> QED
    BY <2>1
<1>8. CASE strategyEndDay
  <2>1. \A i \in Instruments : pre_tick'[i] # "tick of the day"
    BY <1>8 DEF strategyEndDay, PreTickKept
  <2> QED
    BY <2>1
<1>9. CASE positionsEndDay
  <2>1. /\ pc = "onEndDay" /\ consumers[turn] = "positions" /\ UNCHANGED <<consumers, pre_tick>>
        /\ \/ turn = 1 /\ turn' = 2 /\ pc' = pc
           \/ turn = 2 /\ turn' = 1 /\ pc' = "between"
    BY <1>0, <1>9 DEF positionsEndDay, ConsumerAt, NextConsumer
  <2>2. CASE turn = 1
    <3>1. consumers'[1] # "strategy" /\ pc' = "onEndDay"
      BY <2>1, <2>2
    <3> QED
      BY <3>1
  <2>3. CASE turn = 2
    <3>0. consumers[2] = "positions"
      BY <2>1, <2>3
    <3>1. consumers[1] = "strategy"
      BY <1>0, <3>0 DEF ConsumerOrders
    <3>2. \A i \in Instruments : pre_tick[i] # "tick of the day"
      BY <2>1, <2>3, <3>1
    <3> QED
      BY <2>1, <3>2
  <2> QED
    BY <1>0, <2>2, <2>3
<1> QED
  BY <1>1, <1>2, <1>3, <1>4, <1>5, <1>6, <1>7, <1>8, <1>9, StepKinds
  DEF OutsideSteps, Positions, Replay

\* When a day is over and its ticks may be freed, pre_tick points into none of them,
\* in whichever order the consumers are told of the end of the day.
THEOREM PreTickSafe == StrategySpec => []PreTickOutlivesDay
<1> DEFINE Inv == StrategyTypeOK /\ SentTraded /\ PreTickOutlivesDay /\ PreTickKeptInTurn
<1>1. StrategyInit => PreTickOutlivesDay /\ PreTickKeptInTurn
  BY DEF StrategyInit, PreTickOutlivesDay, PreTickKeptInTurn
<1>2. Inv /\ [StrategyNext]_allVars => Inv'
  BY TypeStep, SentTradedStep, PreTickStep
<1> QED
  BY <1>1, <1>2, TypeInit, PTL DEF StrategySpec

-----------------------------------------------------------------------------
(* The broker under the strategy: its invariant holds, whatever is traded. *)

\* The strategy looks the positions of all its instruments up: that changes no book.
LEMMA EndDayBooks ==
  ASSUME BooksOK, Ledger, strategyEndDay
  PROVE  BooksOK' /\ Ledger'
<1>1. PICK ps, qs, D, E : ps = positions /\ qs = positions' /\ D = DOMAIN ps /\ E = Instruments
  OBVIOUS
<1>2. /\ qs = [i \in E |-> PositionOf(i)]
      /\ UNCHANGED <<cash, days, flow, net, unmatched, reentered>>
  BY <1>1 DEF strategyEndDay, ghostVars
<1>3. D \subseteq E /\ IsFiniteSet(E) /\ PositionsOK(ps)
  BY <1>1, BooksParts, InstrumentAssumption DEF PositionsOK
<1>4. DOMAIN qs = E /\ \A i \in E : qs[i] \in CPositions
  BY <1>2, PositionOfType
<1>5. PositionsOK(qs)
  BY <1>1, <1>3, <1>4 DEF PositionsOK
<1>6. \A i \in E : BookIn(qs, i) = BookIn(ps, i)
  BY <1>1, <1>2, <1>4 DEF BookIn, PositionOf
<1>7. SumOf(BooksIn(qs)) = SumOf(BooksIn(ps))
  <2>1. PICK v, w : v = BooksIn(ps) /\ w = BooksIn(qs)
    OBVIOUS
  <2>2. /\ v \in [D -> Int] /\ \A i \in D : v[i] = Book(ps[i], multiplier[i])
        /\ w \in [E -> Int] /\ \A i \in E : w[i] = Book(qs[i], multiplier[i])
    BY <1>1, <1>3, <1>4, <1>5, <2>1, BooksInType
  <2>3. \A i \in D : qs[i] = ps[i]
    BY <1>1, <1>2, <1>3 DEF PositionOf
  <2>4. \A i \in E : i \notin D => qs[i] = EmptyPosition
    BY <1>1, <1>2 DEF PositionOf
  <2>5. \A i \in D : w[i] = v[i]
    BY <1>3, <2>2, <2>3
  <2>6. \A i \in E : i \notin D => w[i] = 0
    <3>1. \A i \in E : multiplier[i] \in Int
      BY <1>1, MoneyAssumption
    <3> QED
      BY <2>2, <2>4, <3>1, EmptyPositionParts
  <2> QED
    BY <1>3, <2>1, <2>2, <2>5, <2>6, SumOfZeros
<1>8. LedgerOf(ps, cash, flow, net) => LedgerOf(qs, cash, flow, net)
  BY <1>1, <1>6, <1>7 DEF LedgerOf
<1>9. BooksOK'
  BY <1>1, <1>2, <1>5 DEF BooksOK, PositionsOK
<1>10. Ledger'
  BY <1>1, <1>2, <1>8, LedgerIs
<1> QED
  BY <1>9, <1>10

\* The books are held in whole orders, so that a request is one a strategy may submit.
WholeBook(b) == /\ \E m \in Nat : b.long = m * para.ppl
                /\ \E m \in Nat : b.short = m * para.ppl

WholeOrders == \A i \in Instruments : WholeBook(book[i])

LEMMA WholeHeld ==
  ASSUME NEW p \in Nat, NEW m \in Nat, NEW h, h = m * p, h # 0
  PROVE  p <= h /\ Lesser(p, h) = p /\ \E n \in Nat : h - p = n * p
<1>1. m # 0
  OBVIOUS
<1>2. PICK n : n = m - 1
  OBVIOUS
<1>3. n \in Nat /\ m = n + 1
  BY <1>1, <1>2
<1>4. h = n * p + p /\ n * p \in Nat
  BY <1>3
<1>5. p <= h /\ h - p = n * p
  BY <1>4
<1>6. Lesser(p, h) = p
  BY <1>4, <1>5 DEF Lesser
<1> QED
  BY <1>3, <1>5, <1>6

LEMMA OneOrderMore ==
  ASSUME NEW p \in Nat, NEW m \in Nat
  PROVE  \E n \in Nat : m * p + p = n * p
<1>1. m * p + p = (m + 1) * p /\ m + 1 \in Nat
  OBVIOUS
<1> QED
  BY <1>1

\* A request the book gives rise to, whatever its side.
LEMMA WholeRequest ==
  ASSUME para \in ConfigSpace, tick \in Ticks, NEW b \in Books, WholeBook(b),
         NEW k \in 1 .. LastStep - 1, Trades(b, k), NEW q, q = RequestAt(b, k)
  PROVE  q \in FutureRequests /\ q.qty = para.ppl
<1>1. /\ q.qty \in Nat \ {0} /\ q.open = Opens(k) /\ q.long \in BOOLEAN /\ q.open \in BOOLEAN
      /\ q.open  => q.qty = para.ppl
      /\ ~q.open => Held(b, k) > 0 /\ q.qty = Lesser(para.ppl, Held(b, k))
  BY RequestFits
<1>2. para.ppl \in Quantities /\ para.ppl \in Nat
  BY QuantityAssumption DEF ConfigSpace
<1>3. ~q.open => q.qty = para.ppl
  <2> SUFFICES ASSUME ~q.open PROVE q.qty = para.ppl
    OBVIOUS
  <2>1. PICK m \in Nat : Held(b, k) = m * para.ppl
    BY DEF WholeBook, Held
  <2>2. Held(b, k) # 0
    BY <1>1
  <2> QED
    BY <1>1, <1>2, <2>1, <2>2, WholeHeld
<1>4. tick.inst \in Instruments /\ tick.quote[1] \in Prices /\ tick.quote[2] \in Prices
  BY TickAssumption DEF Ticks
<1>5. q = [type |-> "future", inst |-> tick.inst, long |-> q.long, open |-> q.open,
           price |-> q.price, qty |-> q.qty] /\ q.price \in Prices
  BY <1>4 DEF RequestAt
<1>6. q.qty = para.ppl /\ q.qty \in Quantities
  BY <1>1, <1>2, <1>3
<1> QED
  BY <1>1, <1>4, <1>5, <1>6 DEF FutureRequests

\* Booking a request, and what else happens to a book, leaves whole orders.
LEMMA BookedWhole ==
  ASSUME StrategyTypeOK, SentTraded, sent,
         NEW i, i = tick.inst, NEW b, b = book[i], WholeBook(b),
         NEW c, c = Booked(b, RequestAt(b, step), multiplier[i])
  PROVE  WholeBook(c)
<1>1. PICK q, p : q = RequestAt(b, step) /\ p = para.ppl
  OBVIOUS
<1>2. /\ b \in Books /\ q.long \in BOOLEAN /\ q.open \in BOOLEAN
      /\ q.long = (Side(step) = "long") /\ q.open = Opens(step)
      /\ q.open  => q.qty = p
      /\ ~q.open => Held(b, step) > 0 /\ q.qty = Lesser(p, Held(b, step))
      /\ q.open /\ q.long   => c.long = b.long + q.qty /\ c.short = b.short
      /\ q.open /\ ~q.long  => c.short = b.short + q.qty /\ c.long = b.long
      /\ ~q.open /\ q.long  => c.short = b.short - q.qty /\ c.long = b.long
      /\ ~q.open /\ ~q.long => c.long = b.long - q.qty /\ c.short = b.short
  BY <1>1, BookedRequest
<1>3. p \in Nat
  BY <1>1, ConfigAssumption, QuantityAssumption DEF StrategyTypeOK, ConfigSpace
<1>4. PICK m \in Nat, n \in Nat : b.long = m * p /\ b.short = n * p
  BY <1>1 DEF WholeBook
<1>5. CASE q.open
  <2>1. (\E x \in Nat : m * p + p = x * p) /\ (\E x \in Nat : n * p + p = x * p)
    BY <1>3, OneOrderMore
  <2>2. CASE q.long
    BY <1>1, <1>2, <1>4, <1>5, <2>1, <2>2 DEF WholeBook
  <2>3. CASE ~q.long
    BY <1>1, <1>2, <1>4, <1>5, <2>1, <2>3 DEF WholeBook
  <2> QED
    BY <2>2, <2>3
<1>6. CASE ~q.open
  <2>1. PICK h : h = Held(b, step)
    OBVIOUS
  <2>2. h # 0 /\ q.qty = Lesser(p, h)
    BY <1>2, <1>6, <2>1
  <2>3. h = IF q.long THEN b.short ELSE b.long
    BY <1>2, <2>1 DEF Held, Side
  <2>4. CASE q.long
    <3>1. q.qty = p /\ \E x \in Nat : h - p = x * p
      BY <1>3, <1>4, <2>2, <2>3, <2>4, WholeHeld
    <3> QED
      BY <1>1, <1>2, <1>4, <1>6, <2>3, <2>4, <3>1 DEF WholeBook
  <2>5. CASE ~q.long
    <3>1. q.qty = p /\ \E x \in Nat : h - p = x * p
      BY <1>3, <1>4, <2>2, <2>3, <2>5, WholeHeld
    <3> QED
      BY <1>1, <1>2, <1>4, <1>6, <2>3, <2>5, <3>1 DEF WholeBook
  <2> QED
    BY <2>4, <2>5
<1> QED
  BY <1>5, <1>6

LEMMA NothingWhole ==
  ASSUME para \in ConfigSpace, NEW b, b.long = 0, b.short = 0
  PROVE  WholeBook(b)
<1>1. para.ppl \in Nat
  BY QuantityAssumption DEF ConfigSpace
<1>2. 0 \in Nat /\ 0 = 0 * para.ppl
  BY <1>1
<1> QED
  BY <1>2 DEF WholeBook

\* What happens to the quantities of a book: nothing, they are forgotten, or a request
\* is booked.
BookKept(i)     == book'[i].long = book[i].long /\ book'[i].short = book[i].short
BookForgot(i)   == book'[i].long = 0 /\ book'[i].short = 0
BookBooked(i)   == /\ bookOrder /\ i = tick.inst
                   /\ book'[i] = Booked(book[i], RequestAt(book[i], step), multiplier[i])
ForgottenKept(i) == orphaned'[i] = orphaned[i]
ForgottenMore(i) == orphaned'[i] = Forgotten(i)

BookStep(i) ==
  \/ BookKept(i) /\ ForgottenKept(i)
  \/ BookForgot(i) /\ ForgottenMore(i)
  \/ BookBooked(i) /\ ForgottenKept(i)

OrphansOK == orphaned \in [Instruments -> [long : Nat, short : Nat]]

LEMMA BookSteps ==
  ASSUME StrategyTypeOK, OrphansOK, [StrategyNext]_allVars, NEW i \in Instruments
  PROVE  BookStep(i)
<1>0. book[i] \in Books /\ para \in ConfigSpace
  BY ConfigAssumption DEF StrategyTypeOK
<1>1. ASSUME UNCHANGED <<book, orphaned>> PROVE BookStep(i)
  BY <1>1 DEF BookStep, BookKept, ForgottenKept
<1>2. CASE UNCHANGED strategyVars
  BY <1>1, <1>2 DEF strategyVars, propertyVars
<1>3. CASE takeTick
  <2>1. tick.inst \in Instruments
    BY <1>3 DEF takeTick, StrategyTypeOK, Ticks, ConsumerAt
  <2>2. PICK signal \in {"down", "up", "none"}, jump \in BOOLEAN :
          /\ book' = [book EXCEPT ![tick.inst] = updateOpp(Adjusted(@, jump), signal)]
          /\ orphaned' = IF jump THEN [orphaned EXCEPT ![tick.inst] = Forgotten(tick.inst)]
                                 ELSE orphaned
    BY <1>3 DEF takeTick
  <2>3. CASE i # tick.inst
    BY <2>1, <2>2, <2>3 DEF BookStep, BookKept, ForgottenKept, StrategyTypeOK, OrphansOK
  <2>4. CASE i = tick.inst
    <3>1. PICK a, c : a = Adjusted(book[i], jump) /\ c = updateOpp(a, signal)
      OBVIOUS
    <3>2. book'[i] = c
      BY <2>2, <2>4, <3>1 DEF StrategyTypeOK
    <3>3. c.long = a.long /\ c.short = a.short
      <4>1. CASE jump
        <5>1. a = [long |-> 0, short |-> 0, cum_long |-> 0, cum_short |-> 0,
                   opp |-> book[i].opp, pnl |-> book[i].pnl, trades |-> book[i].trades]
          BY <1>0, <3>1, <4>1 DEF Adjusted, Books
        <5> QED
          BY <3>1, <5>1 DEF updateOpp
      <4>2. CASE ~jump
        <5>1. a = book[i]
          BY <3>1, <4>2 DEF Adjusted
        <5> QED
          BY <1>0, <3>1, <5>1 DEF updateOpp, Books
      <4> QED
        BY <4>1, <4>2
    <3>4. CASE jump
      <4>1. a.long = 0 /\ a.short = 0
        BY <1>0, <3>1, <3>4 DEF Adjusted, Books
      <4>2. orphaned'[i] = Forgotten(i)
        BY <2>2, <2>4, <3>4 DEF OrphansOK
      <4> QED
        BY <3>2, <3>3, <4>1, <4>2 DEF BookStep, BookForgot, ForgottenMore
    <3>5. CASE ~jump
      <4>1. a = book[i] /\ orphaned'[i] = orphaned[i]
        BY <2>2, <3>1, <3>5 DEF Adjusted
      <4> QED
        BY <3>2, <3>3, <4>1 DEF BookStep, BookKept, ForgottenKept
    <3> QED
      BY <3>4, <3>5
  <2> QED
    BY <2>3, <2>4
<1>4. CASE giveOrder
  BY <1>1, <1>4 DEF giveOrder, propertyVars
<1>5. CASE bookOrder
  <2>1. PICK c : c = Booked(book[tick.inst], RequestAt(book[tick.inst], step), multiplier[tick.inst])
    OBVIOUS
  <2>2. book' = [book EXCEPT ![tick.inst] = c] /\ UNCHANGED orphaned
    BY <1>5, <2>1 DEF bookOrder
  <2>3. CASE i = tick.inst
    <3>1. book'[i] = c
      BY <2>2, <2>3 DEF StrategyTypeOK
    <3> QED
      BY <1>5, <2>1, <2>2, <2>3, <3>1 DEF BookStep, BookBooked, ForgottenKept
  <2>4. CASE i # tick.inst
    <3>1. book'[i] = book[i]
      BY <2>2, <2>4 DEF StrategyTypeOK
    <3> QED
      BY <2>2, <3>1 DEF BookStep, BookKept, ForgottenKept
  <2> QED
    BY <2>3, <2>4
<1>6. CASE strategyStartDay
  <2>1. /\ book'[i] = initInstrument(book[i])
        /\ orphaned'[i] = IF para.is_over_night THEN orphaned[i] ELSE Forgotten(i)
    BY <1>6 DEF strategyStartDay
  <2>2. CASE para.is_over_night
    <3>1. book'[i] = [book[i] EXCEPT !.pnl = 0, !.trades = 0]
      BY <2>1, <2>2 DEF initInstrument, Continued
    <3>2. BookKept(i)
      BY <1>0, <3>1 DEF Books, BookKept
    <3> QED
      BY <2>1, <2>2, <3>2 DEF BookStep, ForgottenKept
  <2>3. CASE ~para.is_over_night
    BY <2>1, <2>3 DEF BookStep, BookForgot, ForgottenMore, initInstrument, EmptyBook
  <2> QED
    BY <2>2, <2>3
<1>7. CASE OutsideSteps /\ ~strategyStartDay
  BY <1>1, <1>7
  DEF OutsideSteps, Positions, Replay, positionsStartDay, positionsTick, positionsEndDay, startDay,
      nextTick, endDay, skipTick, endOfTick, strategyEndDay, propertyVars
<1> QED
  BY <1>2, <1>3, <1>4, <1>5, <1>6, <1>7, StepKinds DEF TickSteps

\* The configuration never changes.
LEMMA SamePara ==
  ASSUME [StrategyNext]_allVars
  PROVE  para' = para /\ consumers' = consumers
BY DEF StrategyNext, Broker, Positions, Replay, Strategy, positionsStartDay, positionsTick,
       positionsEndDay, startDay, nextTick, endDay, strategyStartDay, skipTick, takeTick, giveOrder,
       bookOrder, endOfTick, strategyEndDay, allVars, strategyVars, replayVars

LEMMA WholeStep ==
  ASSUME StrategyTypeOK, SentTraded, OrphansOK, WholeOrders, [StrategyNext]_allVars
  PROVE  WholeOrders' /\ OrphansOK'
<1>1. para \in ConfigSpace /\ para' = para
  BY ConfigAssumption, SamePara DEF StrategyTypeOK
<1>2. ASSUME NEW i \in Instruments
      PROVE  WholeBook(book'[i]) /\ orphaned'[i] \in [long : Nat, short : Nat]
  <2>1. BookStep(i) /\ WholeBook(book[i])
    BY BookSteps DEF WholeOrders
  <2>2. orphaned[i] \in [long : Nat, short : Nat] /\ book[i].long \in Nat /\ book[i].short \in Nat
    BY DEF OrphansOK, StrategyTypeOK, Books
  <2>3. Forgotten(i) \in [long : Nat, short : Nat]
    BY <2>2 DEF Forgotten
  <2>4. orphaned'[i] \in [long : Nat, short : Nat]
    BY <2>1, <2>2, <2>3 DEF BookStep, ForgottenKept, ForgottenMore
  <2>5. CASE BookKept(i)
    BY <2>1, <2>4, <2>5 DEF WholeBook, BookKept
  <2>6. CASE BookForgot(i)
    BY <1>1, <2>4, <2>6, NothingWhole DEF BookForgot
  <2>7. CASE BookBooked(i)
    BY <2>1, <2>4, <2>7, BookedWhole DEF BookBooked, bookOrder
  <2> QED
    BY <2>1, <2>5, <2>6, <2>7 DEF BookStep
<1>3. DOMAIN orphaned' = Instruments /\ orphaned' = [i \in Instruments |-> orphaned'[i]]
  <2>1. CASE UNCHANGED orphaned
    BY <2>1 DEF OrphansOK
  <2>2. CASE strategyStartDay
    BY <2>2 DEF strategyStartDay
  <2>3. CASE takeTick
    BY <2>3 DEF takeTick, OrphansOK
  <2>4. UNCHANGED orphaned \/ strategyStartDay \/ takeTick
    BY DEF StrategyNext, Broker, Positions, Replay, Strategy, positionsStartDay, positionsTick,
           positionsEndDay, startDay, nextTick, endDay, skipTick, giveOrder,
           bookOrder, endOfTick, strategyEndDay, allVars, strategyVars, propertyVars
  <2> QED
    BY <2>1, <2>2, <2>3, <2>4
<1>4. WholeOrders'
  BY <1>1, <1>2 DEF WholeOrders, WholeBook
<1>5. OrphansOK'
  BY <1>2, <1>3 DEF OrphansOK
<1> QED
  BY <1>4, <1>5

-----------------------------------------------------------------------------
(* The broker's one call.                                                  *)

\* What onMarketData asked for.
Request == RequestAt(book[tick.inst], step)

\* The broker's call is the strategy's, which does not submit from within it, and its
\* orders open or close as the request does.
CallIs(cs, q) ==
  /\ Len(cs) = 1 /\ cs[1].request = q
  /\ \A m \in 1 .. Len(cs[1].orders) :
       cs[1].orders[m].status = "New" /\ (cs[1].orders[m].flag = "Open" <=> q.open)

Calling == ~reentered /\ (calls # <<>> => sent /\ CallIs(calls, Request))

\* The request under way is one the broker takes.
LEMMA SentRequest ==
  ASSUME StrategyTypeOK, WholeOrders, step > 0, NEW k \in 1 .. LastStep - 1,
         Trades(book[tick.inst], k), NEW q, q = RequestAt(book[tick.inst], k)
  PROVE  /\ q \in FutureRequests /\ q \in Requests /\ q.qty = para.ppl /\ q.inst = tick.inst
         /\ tick.inst \in Instruments /\ q.type = "future"
         /\ q.long \in BOOLEAN /\ q.open \in BOOLEAN /\ q.qty \in Nat \ {0}
         /\ ~q.open => q.qty <= Held(book[tick.inst], k)
         /\ q.long = (Side(k) = "long")
<1>1. tick \in Ticks /\ para \in ConfigSpace
  BY OrderInTick, ConfigAssumption DEF StrategyTypeOK
<1>2. tick.inst \in Instruments
  BY <1>1 DEF Ticks
<1>3. book[tick.inst] \in Books /\ WholeBook(book[tick.inst])
  BY <1>2 DEF StrategyTypeOK, WholeOrders
<1>4. q \in FutureRequests /\ q.qty = para.ppl
  BY <1>1, <1>3, WholeRequest
<1>5. q.type = "future" /\ q.long \in BOOLEAN /\ q.open \in BOOLEAN /\ q.inst = tick.inst
  BY <1>4 DEF FutureRequests, RequestAt
<1>6. q.qty \in Nat \ {0} /\ (~q.open => Held(book[tick.inst], k) > 0
                                         /\ q.qty = Lesser(para.ppl, Held(book[tick.inst], k)))
      /\ q.long = (Side(k) = "long")
  BY <1>1, <1>3, RequestFits
<1>7. ~q.open => q.qty <= Held(book[tick.inst], k)
  <2>1. PICK h, p : h = Held(book[tick.inst], k) /\ p = para.ppl
    OBVIOUS
  <2>2. h \in Nat /\ p \in Nat
    BY <1>1, <1>3, <2>1, QuantityAssumption DEF Held, Books, ConfigSpace
  <2> QED
    BY <1>6, <2>1, <2>2 DEF Lesser
<1>8. q \in Requests
  BY <1>4 DEF Requests
<1> QED
  BY <1>2, <1>4, <1>5, <1>6, <1>7, <1>8

\* No step but giveOrder and the broker's own changes what the broker is doing, and the
\* positions change when a day starts or ends, or with a tick.
LEMMA BrokerStep ==
  ASSUME IInv, StrategyTypeOK, SentTraded, WholeOrders, Calling, [StrategyNext]_allVars
  PROVE  IInv'
<1>1. CASE Broker
  <2>1. Next
    BY <1>1 DEF Broker, Next
  <2> QED
    BY <2>1, InvariantStep
<1>2. CASE positionsStartDay
  <2>1. Next
    BY <1>2 DEF positionsStartDay, Next
  <2> QED
    BY <2>1, InvariantStep
<1>3. CASE positionsTick
  <2>1. CASE UNCHANGED brokerVars
    BY <2>1, InvariantStep DEF brokerVars
  <2>2. CASE onMarketData(tick.inst, tick.last)
    <3>1. tick \in Ticks
      BY <1>3 DEF positionsTick, StrategyTypeOK
    <3>2. tick.inst \in Instruments /\ tick.last \in Prices
      BY <3>1, TickAssumption DEF Ticks
    <3>3. Next
      BY <2>2, <3>2 DEF Next, Tick
    <3> QED
      BY <3>3, InvariantStep
  <2> QED
    BY <1>3, <2>1, <2>2 DEF positionsTick
<1>4. CASE giveOrder
  <2>1. PICK k \in 1 .. LastStep - 1 :
          IsNextOrder(k) /\ submitRequest(RequestAt(book[tick.inst], k))
    BY <1>4 DEF giveOrder
  <2>2. RequestAt(book[tick.inst], k) \in Requests
    BY <1>4, <2>1, NextOrderTrades, SentRequest DEF giveOrder
  <2> QED
    BY <2>1, <2>2, SubmitInvariant
<1>5. CASE strategyEndDay
  <2>1. ~sent
    BY <1>5, NoOrderOutsideTick DEF strategyEndDay
  <2>2. calls = <<>>
    BY <2>1 DEF Calling
  <2>3. UNCHANGED <<requestID_, requests_, orders_, calls, told, unmatched, reentered>>
    BY <1>5 DEF strategyEndDay, ghostVars
  <2>4. Numbered' /\ OrdersOK' /\ CallsOK' /\ ConcludedOK' /\ CoveredOK'
    BY <2>2, <2>3, NoCallStep
  <2>5. BooksOK' /\ Ledger'
    BY <1>5, EndDayBooks DEF IInv
  <2> QED
    BY <2>4, <2>5 DEF IInv
<1>6. CASE UNCHANGED brokerVars
  BY <1>6, InvariantStep DEF brokerVars
<1>7. CASE \/ startDay \/ nextTick \/ endDay \/ positionsEndDay \/ strategyStartDay \/ skipTick
           \/ takeTick \/ bookOrder \/ endOfTick \/ UNCHANGED allVars
  <2>1. UNCHANGED brokerVars
    BY <1>7 DEF startDay, nextTick, endDay, positionsEndDay, strategyStartDay, skipTick, takeTick,
                bookOrder, endOfTick, allVars
  <2> QED
    BY <1>6, <2>1
<1> QED
  BY <1>1, <1>2, <1>3, <1>4, <1>5, <1>7 DEF StrategyNext, Positions, Replay, Strategy

\* The orders of a request the broker takes.
LEMMA OrderFlags ==
  ASSUME BooksOK, NEW r \in RequestIds, NEW q \in Requests, q.type = "future", Valid(q),
         NEW s, s = OrdersFor(r, q)
  PROVE  \A m \in 1 .. Len(s) : s[m].status = "New" /\ (s[m].flag = "Open" <=> q.open)
<1>1. q.long \in BOOLEAN /\ q.open \in BOOLEAN /\ q.qty \in Nat \ {0}
  BY RequestParts
<1>2. CASE q.open
  <2>1. s = <<Order(r, r, "Open", q.qty, "New")>>
    BY <1>2 DEF OrdersFor
  <2>2. PICK o : o = Order(r, r, "Open", q.qty, "New")
    OBVIOUS
  <2>3. o.status = "New" /\ o.flag = "Open"
    BY <2>2 DEF Order
  <2>4. s = <<o>>
    BY <2>1, <2>2
  <2>5. Len(s) = 1 /\ s[1] = o
    BY <2>4
  <2> QED
    BY <1>2, <2>3, <2>5
<1>3. CASE ~q.open
  <2>1. PICK today, rest, o, u :
          /\ today = TotalQty(PositionOf(q.inst), IF q.long THEN "ShortToday" ELSE "LongToday")
          /\ rest = RestToClose(q, today)
          /\ o = Order(r, r, "CloseToday", Lesser(today, q.qty), "New")
          /\ u = Order(SecondOrderId(r), r, "CloseYst", rest, "New")
    OBVIOUS
  <2>2. /\ o.status = "New" /\ o.flag # "Open" /\ u.status = "New" /\ u.flag # "Open"
    BY <2>1 DEF Order
  <2>3. PICK a, b : /\ a = (IF today > 0 THEN <<o>> ELSE <<>>)
                    /\ b = (IF rest > 0 THEN <<u>> ELSE <<>>)
    OBVIOUS
  <2>4. s = a \o b
    BY <1>3, <2>1, <2>3 DEF OrdersFor, CloseOrders
  <2> DEFINE R == {o, u}
  <2>5. a \in Seq(R) /\ b \in Seq(R)
    <3>1. <<o>> \in Seq(R) /\ <<u>> \in Seq(R) /\ <<>> \in Seq(R)
      OBVIOUS
    <3> QED
      BY <2>3, <3>1
  <2> HIDE DEF R
  <2>6. s \in Seq(R)
    BY <2>4, <2>5
  <2>7. \A m \in 1 .. Len(s) : s[m] \in R
    BY <2>6
  <2> QED
    BY <1>3, <2>2, <2>7 DEF R
<1> QED
  BY <1>2, <1>3

-----------------------------------------------------------------------------
(* What the broker holds, long and short.                                  *)

Sides == {"long", "short"}

SideQty(pos, side) ==
  IF side = "long" THEN SumQty(pos["LongToday"]) + SumQty(pos["LongYst"])
                   ELSE SumQty(pos["ShortToday"]) + SumQty(pos["ShortYst"])

\* The side that a request, or a trade, changes, and by how much.
SideOf(q)      == IF (q.open <=> q.long) THEN "long" ELSE "short"
ChangeOf(q, n) == IF q.open THEN n ELSE -n

LEMMA SideType ==
  ASSUME NEW pos \in CPositions, NEW side
  PROVE  SideQty(pos, side) \in Nat
<1>1. \A type \in PositionTypes : SumQty(pos[type]) \in Nat
  BY QueueOfType, QueueSums
<1>2. /\ SumQty(pos["LongToday"]) \in Nat /\ SumQty(pos["LongYst"]) \in Nat
      /\ SumQty(pos["ShortToday"]) \in Nat /\ SumQty(pos["ShortYst"]) \in Nat
  BY <1>1 DEF PositionTypes
<1> QED
  BY <1>2 DEF SideQty

LEMMA NoSides ==
  ASSUME NEW side
  PROVE  SideQty(EmptyPosition, side) = 0
<1>1. /\ EmptyPosition["ShortToday"] = <<>> /\ EmptyPosition["ShortYst"] = <<>>
      /\ EmptyPosition["LongToday"] = <<>> /\ EmptyPosition["LongYst"] = <<>>
  BY DEF EmptyPosition
<1> QED
  BY <1>1, EmptyQueueSums DEF SideQty

LEMMA ReplacedSide ==
  ASSUME NEW pos \in CPositions, NEW new \in CPositions, NEW type \in PositionTypes, NEW q \in Queues,
         NEW r, IsReplaced(new, pos, type, q, r), NEW x \in Int,
         SumQty(q) = SumQty(pos[type]) + x, NEW side \in Sides
  PROVE  SideQty(new, side)
           = SideQty(pos, side) + (IF (type \in LongQueues <=> side = "long") THEN x ELSE 0)
<1>1. \A t \in PositionTypes : SumQty(pos[t]) \in Nat
  BY QueueOfType, QueueSums
<1>2. /\ SumQty(pos["LongToday"]) \in Nat /\ SumQty(pos["LongYst"]) \in Nat
      /\ SumQty(pos["ShortToday"]) \in Nat /\ SumQty(pos["ShortYst"]) \in Nat
  BY <1>1 DEF PositionTypes
<1>3. new[type] = q /\ \A t \in PositionTypes \ {type} : new[t] = pos[t]
  BY DEF IsReplaced
<1>4. side = "long" \/ side = "short"
  BY DEF Sides
<1>5. CASE type = "LongToday"
  <2>1. /\ new["LongToday"] = q /\ new["LongYst"] = pos["LongYst"]
        /\ new["ShortToday"] = pos["ShortToday"] /\ new["ShortYst"] = pos["ShortYst"]
    BY <1>3, <1>5 DEF PositionTypes
  <2> QED
    BY <1>2, <1>4, <1>5, <2>1 DEF SideQty, LongQueues
<1>6. CASE type = "LongYst"
  <2>1. /\ new["LongToday"] = pos["LongToday"] /\ new["LongYst"] = q
        /\ new["ShortToday"] = pos["ShortToday"] /\ new["ShortYst"] = pos["ShortYst"]
    BY <1>3, <1>6 DEF PositionTypes
  <2> QED
    BY <1>2, <1>4, <1>6, <2>1 DEF SideQty, LongQueues
<1>7. CASE type = "ShortToday"
  <2>1. /\ new["LongToday"] = pos["LongToday"] /\ new["LongYst"] = pos["LongYst"]
        /\ new["ShortToday"] = q /\ new["ShortYst"] = pos["ShortYst"]
    BY <1>3, <1>7 DEF PositionTypes
  <2> QED
    BY <1>2, <1>4, <1>7, <2>1 DEF SideQty, LongQueues
<1>8. CASE type = "ShortYst"
  <2>1. /\ new["LongToday"] = pos["LongToday"] /\ new["LongYst"] = pos["LongYst"]
        /\ new["ShortToday"] = pos["ShortToday"] /\ new["ShortYst"] = q
    BY <1>3, <1>8 DEF PositionTypes
  <2> QED
    BY <1>2, <1>4, <1>8, <2>1 DEF SideQty, LongQueues
<1> QED
  BY <1>5, <1>6, <1>7, <1>8 DEF PositionTypes

\* A trade that finds what it closes changes one side, by its quantity.
LEMMA TradeSide ==
  ASSUME NEW pos \in CPositions, NEW trade \in TradeInfos, NEW mult \in Int,
         Unmatched(pos, trade) = 0, NEW side \in Sides
  PROVE  SideQty(addTrade(pos, trade, mult), side)
           = SideQty(pos, side)
             + (IF side = SideOf(trade) THEN ChangeOf(trade, trade.qty) ELSE 0)
<1>1. PICK new, Q, P : new = addTrade(pos, trade, mult) /\ Q = trade.qty /\ P = trade.price
  OBVIOUS
<1>2. Q \in Nat \ {0} /\ P \in Int /\ trade.long \in BOOLEAN /\ trade.today \in BOOLEAN
      /\ trade.open \in BOOLEAN
  BY <1>1 DEF TradeInfos
<1>3. side = "long" \/ side = "short"
  BY DEF Sides
<1>4. CASE trade.open
  <2>1. PICK type, q : type = OpenQueue(trade) /\ q = Append(pos[type], Item(P, Q))
    OBVIOUS
  <2>2. type \in PositionTypes /\ (type \in LongQueues <=> trade.long)
    BY <2>1, <1>2 DEF OpenQueue, PositionTypes, LongQueues
  <2>3. pos[type] \in Queues /\ Item(P, Q) \in Items /\ Item(P, Q).qty = Q
    BY <1>2, <2>2, QueueOfType DEF Item, Items
  <2>4. q \in Queues /\ SumQty(q) = SumQty(pos[type]) + Q
    BY <2>1, <2>3, AppendQueueSums
  <2>5. new \in CPositions /\ IsReplaced(new, pos, type, q, pos.realizedPnL)
    BY <1>1, <1>4, <2>1, OpenSpec
  <2>6. Q \in Int
    BY <1>2
  <2>7. SideQty(new, side)
          = SideQty(pos, side) + (IF (type \in LongQueues <=> side = "long") THEN Q ELSE 0)
    BY <2>2, <2>4, <2>5, <2>6, ReplacedSide
  <2>8. (type \in LongQueues <=> side = "long") <=> side = SideOf(trade)
    BY <1>2, <1>3, <1>4, <2>2 DEF SideOf
  <2>9. ChangeOf(trade, trade.qty) = Q
    BY <1>1, <1>4 DEF ChangeOf
  <2> QED
    BY <1>1, <2>7, <2>8, <2>9
<1>5. CASE ~trade.open
  <2>1. PICK type, match, q, r : /\ type = CloseQueue(trade) /\ match = tradeMatchPos(trade, pos[type])
                                 /\ q = match.kept /\ r = pos.realizedPnL + mult * match.realized
    OBVIOUS
  <2>2. type \in PositionTypes /\ (type \in LongQueues <=> ~trade.long)
    BY <2>1, <1>2 DEF CloseQueue, PositionTypes, LongQueues
  <2>3. PICK k1, k2, v1, x : /\ k1 = SumQty(pos[type]) /\ k2 = SumQty(q) /\ v1 = SumValue(pos[type])
                             /\ x = -Q
    OBVIOUS
  <2>4. pos[type] \in Queues /\ match \in Matches /\ MatchedSoFar(trade, match, k1, v1)
    BY <2>1, <2>2, <2>3, QueueOfType, MatchSpec
  <2>5. q \in Queues
    BY <2>1, <2>4 DEF Matches
  <2>6. k1 \in Nat /\ k2 \in Nat
    BY <2>3, <2>4, <2>5, QueueSums
  <2>7. match.left = 0
    BY <1>5, <2>1 DEF Unmatched
  <2>8. k2 = k1 - (Q - 0)
    BY <1>1, <2>1, <2>3, <2>4, <2>7 DEF MatchedSoFar
  <2>9. x \in Int /\ k2 = k1 + x
    BY <1>2, <2>3, <2>6, <2>8
  <2>10. new \in CPositions /\ IsReplaced(new, pos, type, q, r)
    BY <1>1, <1>5, <2>1, CloseSpec
  <2>11. SideQty(new, side)
           = SideQty(pos, side) + (IF (type \in LongQueues <=> side = "long") THEN x ELSE 0)
    <3>1. SumQty(q) = SumQty(pos[type]) + x
      BY <2>3, <2>9
    <3> QED
      BY <2>2, <2>5, <2>9, <2>10, <3>1, ReplacedSide
  <2>12. (type \in LongQueues <=> side = "long") <=> side = SideOf(trade)
    BY <1>2, <1>3, <1>5, <2>2 DEF SideOf
  <2>13. ChangeOf(trade, trade.qty) = x
    BY <1>1, <1>5, <2>3 DEF ChangeOf
  <2> QED
    BY <1>1, <2>11, <2>12, <2>13
<1> QED
  BY <1>4, <1>5

-----------------------------------------------------------------------------
(* The broker's steps, in a request the book covers.                       *)

\* What is still to be filled of the request under way.
Pending == IF calls = <<>> THEN 0 ELSE Remaining(1)

\* The orders of the request under way.
LEMMA CallingParts ==
  ASSUME IInv, Calling, calls # <<>>
  PROVE  /\ Len(calls) = 1 /\ Call = calls[1] /\ Current = HeadOf(1).id
         /\ calls[1].request = Request /\ calls[1].orders \in Seq(OrderRecords)
         /\ Len(calls[1].orders) \in {1, 2} /\ HeadOf(1) = calls[1].orders[1]
         /\ CallIs(calls, Request)
<1>1. CallIs(calls, Request)
  BY DEF Calling
<1>2. Len(calls) = 1 /\ calls[1].request = Request
  BY <1>1 DEF CallIs
<1>3. CallsOK /\ OrdersOK
  BY DEF IInv
<1>4. Call = calls[1] /\ Current = HeadOf(1).id /\ 1 \in 1 .. Len(calls)
  BY <1>2, <1>3, CurrentParts
<1>5. calls[1].orders \in Seq(OrderRecords) /\ Len(calls[1].orders) \in {1, 2}
  BY <1>3, <1>4, CallParts
<1>6. HeadOf(1) = calls[1].orders[1]
  BY DEF HeadOf
<1> QED
  BY <1>1, <1>2, <1>4, <1>5, <1>6

\* Submitting a request that is valid starts a call with all of it to be filled.
LEMMA SubmitCalling ==
  ASSUME IInv, calls = <<>>, ~reentered, NEW q \in Requests, q.type = "future", Valid(q),
         submitRequest(q)
  PROVE  /\ CallIs(calls', q) /\ calls' # <<>> /\ ~reentered' /\ Remaining(1)' = q.qty
         /\ NoOrderRejected => NoOrderRejected'
         /\ \A i : BookIn(positions', i) = PositionOf(i)
<1>1. BooksOK /\ Numbered /\ OrdersOK /\ CallsOK
  BY DEF IInv
<1>2. PICK r, s, h, c : /\ r = RequestId(requestID_) /\ s = OrdersFor(r, q) /\ h = s[1]
                        /\ c = [request |-> q, orders |-> s]
  OBVIOUS
<1>3. /\ requestID_ < 2 * MaxRequests /\ reentered' = (reentered \/ calls # <<>>)
      /\ positions' = (IF q.open THEN positions ELSE Touched(q.inst))
      /\ Publish(Head(s)) /\ calls' = Append(calls, c)
  BY <1>2 DEF submitRequest
<1>4. r \in RequestIds
  BY <1>1, <1>2, <1>3, FreshRequest
<1>5. IsMade(s, r, q)
  BY <1>1, <1>2, <1>4, OrdersForSpec
<1>6. \A m \in 1 .. Len(s) : s[m].status = "New" /\ (s[m].flag = "Open" <=> q.open)
  BY <1>1, <1>2, <1>4, OrderFlags
<1>7. s \in Seq(OrderRecords) /\ Len(s) \in {1, 2} /\ Head(s) = h
  BY <1>2, <1>5 DEF IsMade
<1>8. 1 \in 1 .. Len(s) /\ h.status = "New"
  BY <1>2, <1>6, <1>7
<1>9. Len(calls') = 1 /\ calls'[1] = c
  <2>1. calls \in Seq(CallRecords) /\ Len(calls) = 0
    BY <1>1 DEF CallsOK
  <2>2. c \in CallRecords
    BY <1>2, <1>7 DEF CallRecords
  <2> QED
    BY <1>3, <2>1, <2>2
<1>10. calls'[1].request = q /\ calls'[1].orders = s /\ calls' # <<>>
  BY <1>2, <1>9
<1>11. CallIs(calls', q)
  BY <1>6, <1>9, <1>10 DEF CallIs
<1>12. ~reentered'
  BY <1>3
<1>13. IsUpdated(orders_', orders_, h.id, h)
  BY <1>3, <1>7, Updated DEF Publish
<1>14. Remaining(1)' = q.qty
  <2>1. PICK t : t = IF Len(s) = 2 THEN s[2].qty ELSE 0
    OBVIOUS
  <2>2. HeadOf(1)' = h
    BY <1>2, <1>10 DEF HeadOf
  <2>3. orders_'[h.id].status = "New"
    BY <1>8, <1>13 DEF IsUpdated
  <2>4. Remaining(1)' = h.qty + t
    BY <1>10, <2>1, <2>2, <2>3 DEF Remaining
  <2>5. h.qty + t = q.qty
    BY <1>2, <1>5, <1>8, <2>1 DEF IsMade
  <2> QED
    BY <2>4, <2>5
<1>15. NoOrderRejected => NoOrderRejected'
  BY <1>8, <1>13 DEF NoOrderRejected, IsUpdated
<1>16. \A i : BookIn(positions', i) = PositionOf(i)
  <2>1. CASE q.open
    BY <1>3, <2>1 DEF BookIn, PositionOf
  <2>2. CASE ~q.open
    <3>1. q.inst \in Instruments
      BY RequestParts
    <3> QED
      BY <1>1, <1>3, <2>2, <3>1, TouchBooks
  <2> QED
    BY <2>1, <2>2
<1> QED
  BY <1>10, <1>11, <1>12, <1>14, <1>15, <1>16

\* A fill leaves so much less to be filled, and trades what the request asked for.
LEMMA FillCalling ==
  ASSUME IInv, Calling, FillOrder, Request.type = "future"
  PROVE  /\ calls' = calls /\ ~reentered' /\ (NoOrderRejected => NoOrderRejected')
         /\ Pending \in Nat /\ FillTrade.qty \in Nat /\ Pending' = Pending - FillTrade.qty
         /\ FillTrade \in TradeInfos /\ FillPos \in CPositions /\ Unmatched(FillPos, FillTrade) = 0
         /\ (FillTrade.open <=> Request.open) /\ FillTrade.long = Request.long
         /\ IsUpdated(positions', positions, Request.inst,
                      addTrade(FillPos, FillTrade, multiplier[Request.inst]))
         /\ FillPos = PositionOf(Request.inst)
<1>1. BooksOK /\ Numbered /\ OrdersOK /\ CallsOK /\ CoveredOK
  BY DEF IInv
<1>2. PICK n, h, r, f : Fills(n, h, r, f) /\ f = FilledOrder /\ h.id = Current
  BY <1>1, FillView
<1>3. /\ calls # <<>> /\ UNCHANGED <<calls, reentered>>
      /\ positions' = Put(positions, Call.request.inst,
                          addTrade(FillPos, FillTrade, multiplier[Call.request.inst]))
      /\ unmatched' = unmatched + Unmatched(FillPos, FillTrade)
  BY FillStep
<1>4. /\ Len(calls) = 1 /\ Call = calls[1] /\ calls[1].request = Request
      /\ calls[1].orders \in Seq(OrderRecords) /\ Len(calls[1].orders) \in {1, 2}
      /\ HeadOf(1) = calls[1].orders[1] /\ CallIs(calls, Request)
  BY <1>3, CallingParts
<1>5. /\ n = 1 /\ h = HeadOf(1) /\ h \in OrderRecords
      /\ orders_[h.id].status = "New" /\ f.flag = h.flag /\ f.qty = h.qty /\ f.status = "Filled"
      /\ IsUpdated(orders_', orders_, h.id, f)
  BY <1>2, <1>4 DEF Fills
<1>6. h.flag = "Open" <=> Request.open
  <2>1. 1 \in 1 .. Len(calls[1].orders)
    BY <1>4
  <2> QED
    BY <1>4, <1>5, <2>1 DEF CallIs
<1>7. /\ FillTrade \in TradeInfos /\ FillTrade.long = Request.long /\ FillPos \in CPositions
      /\ FillTrade.qty = orders_[Current].qty /\ Call.request \in Requests
      /\ Call.request.type # "other"
  BY <1>1, <1>3, <1>4, FillParts
<1>8. f.qty \in Nat \ {0}
  BY <1>5 DEF OrderRecords
<1>9. (FillTrade.open <=> Request.open) /\ FillTrade.qty = h.qty
  <2>1. FillTrade = TradeOf(f, Request)
    BY <1>2, <1>4 DEF FillTrade
  <2>2. Request \in Requests /\ Request.type # "other" /\ Request.type # "security"
    BY <1>4, <1>7
  <2>3. /\ TradeOf(f, Request).qty = f.qty
        /\ TradeOf(f, Request).open = (IF Request.type = "security" THEN Request.open
                                       ELSE f.flag = "Open")
    BY <1>8, <2>2, TradeParts
  <2> QED
    BY <1>5, <1>6, <2>1, <2>2, <2>3
<1>10. PICK t : t = IF Len(calls[1].orders) = 2 THEN calls[1].orders[2].qty ELSE 0
  OBVIOUS
<1>11. t \in Nat /\ h.qty \in Nat
  <2>1. h.qty \in Nat
    BY <1>5 DEF OrderRecords
  <2>2. CASE Len(calls[1].orders) = 2
    <3>1. calls[1].orders[2] \in OrderRecords
      BY <1>4, <2>2
    <3> QED
      BY <1>10, <2>1, <2>2, <3>1 DEF OrderRecords
  <2>3. CASE Len(calls[1].orders) # 2
    BY <1>10, <2>1, <2>3
  <2> QED
    BY <2>2, <2>3
<1>12. Remaining(1) = h.qty + t
  BY <1>5, <1>10 DEF Remaining
<1>13. Remaining(1)' = 0 + t
  <2>1. HeadOf(1)' = h
    BY <1>3, <1>5 DEF HeadOf
  <2>2. orders_'[h.id].status # "New"
    BY <1>5 DEF IsUpdated
  <2> QED
    BY <1>3, <1>10, <2>1, <2>2 DEF Remaining
<1>14. Pending \in Nat /\ FillTrade.qty \in Nat /\ Pending' = Pending - FillTrade.qty
  <2>1. Pending = h.qty + t /\ Pending' = 0 + t
    BY <1>3, <1>12, <1>13 DEF Pending
  <2> QED
    BY <1>9, <1>11, <2>1
<1>15. Unmatched(FillPos, FillTrade) = 0
  <2>1. ~reentered /\ ~reentered'
    BY <1>3 DEF Calling
  <2>2. unmatched = 0
    BY <1>1, <2>1 DEF CoveredOK
  <2>3. unmatched' = 0
    <3>1. Next
      BY DEF Next
    <3>2. CoveredOK'
      BY <3>1, InvariantStep DEF IInv
    <3> QED
      BY <2>1, <3>2 DEF CoveredOK
  <2>4. Unmatched(FillPos, FillTrade) \in Nat
    BY <1>7, UnmatchedSpec
  <2> QED
    BY <1>3, <2>2, <2>3, <2>4
<1>16. NoOrderRejected => NoOrderRejected'
  BY <1>5 DEF NoOrderRejected, IsUpdated
<1>17. FillPos = PositionOf(Request.inst)
  BY <1>4 DEF FillPos
<1>18. IsUpdated(positions', positions, Request.inst,
                 addTrade(FillPos, FillTrade, multiplier[Request.inst]))
  BY <1>3, <1>4, Updated
<1>19. calls' = calls /\ ~reentered'
  BY <1>3 DEF Calling
<1> QED
  BY <1>7, <1>9, <1>14, <1>15, <1>16, <1>17, <1>18, <1>19

\* Going on to the second order of a split close leaves as much to be filled.
LEMMA NextOrderCalling ==
  ASSUME IInv, Calling, NextOrder
  PROVE  /\ CallIs(calls', Request) /\ calls' # <<>> /\ ~reentered' /\ Pending' = Pending
         /\ calls # <<>> /\ (NoOrderRejected => NoOrderRejected') /\ positions' = positions
<1>1. Numbered /\ OrdersOK /\ CallsOK
  BY DEF IInv
<1>2. calls # <<>> /\ reentered' = reentered /\ positions' = positions
  BY DEF NextOrder, booksVars
<1>3. /\ Len(calls) = 1 /\ calls[1].request = Request /\ HeadOf(1) = calls[1].orders[1]
      /\ CallIs(calls, Request)
  BY <1>2, CallingParts
<1>4. PICK n, r, q, h, g : Advances(n, r, q, h, g)
  BY <1>1, NextOrderView
<1>5. /\ n = 1 /\ h = HeadOf(1) /\ q = Request /\ h.id = r /\ orders_[r].status = "Filled"
      /\ g = calls[1].orders[2] /\ Len(calls[1].orders) = 2 /\ g \in OrderRecords
      /\ g = Order(SecondOrderId(r), r, "CloseYst", g.qty, "New")
      /\ IsUpdated(orders_', orders_, SecondOrderId(r), g)
      /\ Len(calls') = 1 /\ calls'[1].request = q /\ Len(calls'[1].orders) = 1
      /\ calls'[1].orders[1] = g
  BY <1>3, <1>4 DEF Advances
<1>6. 2 \in 1 .. Len(calls[1].orders)
  BY <1>5
<1>7. g.status = "New" /\ (g.flag = "Open" <=> Request.open)
  BY <1>3, <1>5, <1>6 DEF CallIs
<1>8. \A m \in 1 .. Len(calls'[1].orders) : m = 1
  BY <1>5
<1>9. CallIs(calls', Request)
  BY <1>5, <1>7, <1>8 DEF CallIs
<1>10. calls' # <<>>
  BY <1>5
<1>11. g.id = SecondOrderId(r) /\ g.qty \in Nat
  <2>1. g.qty \in Nat
    BY <1>5 DEF OrderRecords
  <2>2. PICK x : x = g.qty
    OBVIOUS
  <2>3. g = Order(SecondOrderId(r), r, "CloseYst", x, "New")
    BY <1>5, <2>2
  <2>4. g.id = SecondOrderId(r)
    BY <2>3 DEF Order
  <2> QED
    BY <2>1, <2>4
<1>12. Remaining(1) = 0 + g.qty
  BY <1>5 DEF Remaining
<1>13. Remaining(1)' = g.qty + 0
  <2>1. HeadOf(1)' = g
    BY <1>5 DEF HeadOf
  <2>2. orders_'[g.id].status = "New"
    BY <1>5, <1>7, <1>11 DEF IsUpdated
  <2> QED
    BY <1>5, <2>1, <2>2 DEF Remaining
<1>14. Pending' = Pending
  BY <1>2, <1>10, <1>11, <1>12, <1>13 DEF Pending
<1>15. NoOrderRejected => NoOrderRejected'
  BY <1>5, <1>7 DEF NoOrderRejected, IsUpdated
<1> QED
  BY <1>2, <1>9, <1>10, <1>14, <1>15 DEF Calling

\* A submitRequest that returns has nothing left to fill.
LEMMA ReturnCalling ==
  ASSUME IInv, Calling, Return
  PROVE  /\ calls # <<>> /\ calls' = <<>> /\ ~reentered' /\ Pending = 0
         /\ (NoOrderRejected => NoOrderRejected') /\ positions' = positions
<1>1. /\ calls # <<>> /\ orders_[Current].status # "New" /\ Len(Call.orders) = 1
      /\ calls' = Front(calls) /\ positions' = positions /\ orders_' = orders_
      /\ reentered' = reentered
  BY DEF Return, booksVars, ghostVars
<1>2. /\ Len(calls) = 1 /\ Call = calls[1] /\ Current = HeadOf(1).id
  BY <1>1, CallingParts
<1>3. CallsOK
  BY DEF IInv
<1>4. PICK n : n = Len(calls)
  OBVIOUS
<1>5. Len(calls') = n - 1 /\ calls' \in Seq(CallRecords)
  BY <1>1, <1>3, <1>4, ReturnCalls
<1>6. Len(calls') = 0
  BY <1>2, <1>4, <1>5
<1>7. calls' = <<>>
  BY <1>5, <1>6
<1>8. Remaining(1) = 0 + 0
  BY <1>1, <1>2 DEF Remaining
<1>9. Pending = 0
  BY <1>1, <1>8 DEF Pending
<1> QED
  BY <1>1, <1>7, <1>9 DEF NoOrderRejected, Calling

-----------------------------------------------------------------------------
(* The book is backed by the broker's positions.                           *)

\* What the request under way has changed already that the book has not.
Moved(i, side) ==
  IF sent /\ i = tick.inst /\ side = SideOf(Request)
    THEN ChangeOf(Request, Request.qty - Pending) ELSE 0

\* BookBacked, of every state.
BackedAt(i, side) ==
  SideQty(PositionOf(i), side) = book[i][side] + orphaned[i][side] + Moved(i, side)

Backed == \A i \in Instruments, side \in Sides : BackedAt(i, side)

\* The numbers BackedAt is about.
LEMMA BackedTypes ==
  ASSUME StrategyTypeOK, OrphansOK, IInv, NEW i \in Instruments, NEW side \in Sides
  PROVE  /\ SideQty(PositionOf(i), side) \in Nat
         /\ book[i][side] \in Nat /\ orphaned[i][side] \in Nat
<1>1. PositionOf(i) \in CPositions
  BY PositionOfType DEF IInv
<1>2. book[i] \in Books /\ orphaned[i] \in [long : Nat, short : Nat]
  BY DEF StrategyTypeOK, OrphansOK
<1>3. book[i].long \in Nat /\ book[i].short \in Nat
  BY <1>2 DEF Books
<1>4. /\ book[i]["long"] \in Nat /\ book[i]["short"] \in Nat
      /\ orphaned[i]["long"] \in Nat /\ orphaned[i]["short"] \in Nat
  BY <1>2, <1>3
<1> QED
  BY <1>1, <1>4, SideType DEF Sides

\* The request under way stays what it is while its book does.
LEMMA SameRequestAt ==
  ASSUME UNCHANGED <<para, tick>>
  PROVE  \A b, k : RequestAt(b, k)' = RequestAt(b, k)
BY DEF RequestAt, OrderQty, Held, Side, Opens

LEMMA SameRequestSent ==
  ASSUME UNCHANGED <<para, tick, book, step>>
  PROVE  Request' = Request
BY SameRequestAt DEF Request

\* Nothing is under way when nothing is sent.
LEMMA NothingMoved ==
  ASSUME ~sent, NEW i, NEW side PROVE Moved(i, side) = 0
BY DEF Moved

LEMMA NothingMovedYet ==
  ASSUME ~sent', NEW i, NEW side PROVE Moved(i, side)' = 0
BY DEF Moved

\* The request the strategy's book gives rise to, when the books back each other.
LEMMA BackedValid ==
  ASSUME StrategyTypeOK, SentTraded, OrphansOK, WholeOrders, IInv, Backed, ~sent, step > 0,
         NEW k \in 1 .. LastStep - 1, Trades(book[tick.inst], k),
         NEW q, q = RequestAt(book[tick.inst], k)
  PROVE  Valid(q)
<1>1. /\ q.type = "future" /\ q.inst = tick.inst /\ tick.inst \in Instruments
      /\ q.long \in BOOLEAN /\ q.open \in BOOLEAN /\ q.qty \in Nat \ {0}
      /\ ~q.open => q.qty <= Held(book[tick.inst], k)
      /\ q.long = (Side(k) = "long")
  BY SentRequest
<1>2. CASE q.open
  BY <1>1, <1>2 DEF Valid
<1>3. CASE ~q.open
  <2>1. PICK i, side : i = tick.inst /\ side = IF q.long THEN "short" ELSE "long"
    OBVIOUS
  <2>2. i \in Instruments /\ side \in Sides
    BY <1>1, <2>1 DEF Sides
  <2>3. Held(book[i], k) = book[i][side]
    BY <1>1, <2>1 DEF Held, Side
  <2>4. SideQty(PositionOf(i), side) = book[i][side] + orphaned[i][side] + 0
    BY <2>2, NothingMoved DEF Backed, BackedAt
  <2>5. q.qty <= SideQty(PositionOf(i), side)
    BY <1>1, <1>3, <2>1, <2>2, <2>3, <2>4, BackedTypes
  <2>6. PICK pos : pos = PositionOf(i)
    OBVIOUS
  <2>7. pos \in CPositions
    BY <2>6, PositionOfType DEF IInv
  <2>8. \A t \in PositionTypes : SumQty(pos[t]) \in Nat
    BY <2>7, QueueOfType, QueueSums
  <2>9. /\ SumQty(pos["LongToday"]) \in Nat /\ SumQty(pos["LongYst"]) \in Nat
        /\ SumQty(pos["ShortToday"]) \in Nat /\ SumQty(pos["ShortYst"]) \in Nat
    BY <2>8 DEF PositionTypes
  <2>10. Covered(q, pos)
    BY <1>1, <2>1, <2>5, <2>6, <2>9 DEF Covered, TotalQty, SideQty
  <2> QED
    BY <1>1, <2>1, <2>6, <2>10 DEF Valid
<1> QED
  BY <1>1, <1>2, <1>3

\* giveOrder.
LEMMA GiveBacked ==
  ASSUME StrategyTypeOK, SentTraded, OrphansOK, WholeOrders, IInv, Calling, NoOrderRejected, Backed,
         giveOrder
  PROVE  Calling' /\ NoOrderRejected' /\ Backed'
<1>1. step > 0 /\ ~sent /\ sent' /\ UNCHANGED <<para, tick, book, orphaned>>
  BY DEF giveOrder, replayVars, propertyVars
<1>2. PICK k \in 1 .. LastStep - 1 :
        IsNextOrder(k) /\ submitRequest(RequestAt(book[tick.inst], k)) /\ step' = k
  BY DEF giveOrder
<1>3. Trades(book[tick.inst], k)
  BY <1>2 DEF IsNextOrder
<1>4. PICK q : q = RequestAt(book[tick.inst], k)
  OBVIOUS
<1>5. q \in Requests /\ q.type = "future" /\ q.qty \in Nat /\ Valid(q)
  BY <1>1, <1>3, <1>4, SentRequest, BackedValid
<1>6. calls = <<>> /\ ~reentered
  BY <1>1 DEF Calling
<1>7. /\ CallIs(calls', q) /\ calls' # <<>> /\ ~reentered' /\ Remaining(1)' = q.qty
      /\ NoOrderRejected' /\ \A i : BookIn(positions', i) = PositionOf(i)
  BY <1>2, <1>4, <1>5, <1>6, SubmitCalling
<1>8. Request' = q
  <2>1. Request' = RequestAt(book[tick.inst], k)'
    BY <1>2 DEF Request
  <2>2. RequestAt(book[tick.inst], k)' = RequestAt(book[tick.inst], k)
    BY <1>1, SameRequestAt DEF RequestAt, OrderQty, Held, Side, Opens
  <2> QED
    BY <1>4, <2>1, <2>2
<1>9. Calling'
  BY <1>1, <1>7, <1>8 DEF Calling, CallIs
<1>10. ASSUME NEW i \in Instruments, NEW side \in Sides
       PROVE  BackedAt(i, side)'
  <2>1. SideQty(PositionOf(i), side) = book[i][side] + orphaned[i][side] + 0
    BY <1>1, NothingMoved DEF Backed, BackedAt
  <2>2. PositionOf(i)' = PositionOf(i)
    BY <1>7 DEF BookIn, PositionOf
  <2>3. Pending' = q.qty
    BY <1>7 DEF Pending
  <2>4. Moved(i, side)' = 0
    <3>1. ChangeOf(q, q.qty - q.qty) = 0
      BY <1>5 DEF ChangeOf
    <3>2. Moved(i, side)' = IF sent' /\ i = tick'.inst /\ side = SideOf(Request')
                              THEN ChangeOf(Request', Request'.qty - Pending') ELSE 0
      BY DEF Moved, SideOf, ChangeOf
    <3> QED
      BY <1>8, <2>3, <3>1, <3>2
  <2> QED
    BY <1>1, <2>1, <2>2, <2>4 DEF BackedAt, SideQty
<1> QED
  BY <1>7, <1>9, <1>10 DEF Backed


\* The parts of the request under way.
LEMMA SentParts ==
  ASSUME StrategyTypeOK, SentTraded, WholeOrders, sent
  PROVE  /\ step \in 1 .. LastStep - 1 /\ step > 0
         /\ Request.type = "future" /\ Request.inst = tick.inst /\ tick.inst \in Instruments
         /\ Request.long \in BOOLEAN /\ Request.open \in BOOLEAN /\ Request.qty \in Nat \ {0}
<1>1. step \in 1 .. LastStep - 1 /\ Trades(book[tick.inst], step)
  BY DEF StrategyTypeOK, SentTraded
<1>2. step > 0
  BY <1>1
<1> QED
  BY <1>1, <1>2, SentRequest DEF Request

\* A fill moves the position as far as it moves the request.
LEMMA FillBacked ==
  ASSUME StrategyTypeOK, SentTraded, OrphansOK, WholeOrders, IInv, Calling, NoOrderRejected, Backed,
         FillOrder, UNCHANGED strategyVars
  PROVE  Calling' /\ NoOrderRejected' /\ Backed'
<1>1. UNCHANGED <<para, tick, book, step, sent, orphaned>>
  BY DEF strategyVars, replayVars, propertyVars
<1>2. calls # <<>> /\ sent
  BY DEF FillOrder, Calling
<1>3. /\ Request.type = "future" /\ Request.inst = tick.inst /\ tick.inst \in Instruments
      /\ Request.long \in BOOLEAN /\ Request.open \in BOOLEAN /\ Request.qty \in Nat
  BY <1>2, SentParts
<1>4. /\ calls' = calls /\ ~reentered' /\ NoOrderRejected'
      /\ Pending \in Nat /\ FillTrade.qty \in Nat /\ Pending' = Pending - FillTrade.qty
      /\ FillTrade \in TradeInfos /\ FillPos \in CPositions /\ Unmatched(FillPos, FillTrade) = 0
      /\ (FillTrade.open <=> Request.open) /\ FillTrade.long = Request.long
      /\ IsUpdated(positions', positions, Request.inst,
                   addTrade(FillPos, FillTrade, multiplier[Request.inst]))
      /\ FillPos = PositionOf(Request.inst)
  BY <1>3, FillCalling
<1>5. Request' = Request
  BY <1>1, SameRequestSent
<1>6. Calling'
  <2>1. CallIs(calls, Request)
    BY <1>2 DEF Calling
  <2> QED
    BY <1>1, <1>2, <1>4, <1>5, <2>1 DEF Calling, CallIs
<1>7. ASSUME NEW i \in Instruments, NEW side \in Sides
      PROVE  BackedAt(i, side)'
  <2>1. SideQty(PositionOf(i), side) = book[i][side] + orphaned[i][side] + Moved(i, side)
    BY DEF Backed, BackedAt
  <2>2. Moved(i, side)' = IF i = tick.inst /\ side = SideOf(Request)
                            THEN ChangeOf(Request, Request.qty - Pending') ELSE 0
    <3>1. Moved(i, side)' = IF sent' /\ i = tick'.inst /\ side = SideOf(Request')
                              THEN ChangeOf(Request', Request'.qty - Pending') ELSE 0
      BY DEF Moved, SideOf, ChangeOf
    <3> QED
      BY <1>1, <1>2, <1>5, <3>1
  <2>3. CASE i # tick.inst
    <3>1. PositionOf(i)' = PositionOf(i)
      BY <1>3, <1>4, <2>3 DEF IsUpdated, PositionOf
    <3>2. Moved(i, side) = 0 /\ Moved(i, side)' = 0
      BY <2>2, <2>3 DEF Moved
    <3> QED
      BY <1>1, <2>1, <3>1, <3>2 DEF BackedAt, SideQty
  <2>4. CASE i = tick.inst
    <3>1. PICK pos, new, t, mult : /\ pos = FillPos /\ t = FillTrade /\ mult = multiplier[i]
                                   /\ new = addTrade(pos, t, mult)
      OBVIOUS
    <3>2. PositionOf(i)' = new
      BY <1>3, <1>4, <2>4, <3>1 DEF IsUpdated, PositionOf
    <3>3. PositionOf(i) = pos
      BY <1>3, <1>4, <2>4, <3>1
    <3>4. mult \in Int
      BY <3>1, MoneyAssumption
    <3>5. SideQty(new, side)
            = SideQty(pos, side) + (IF side = SideOf(t) THEN ChangeOf(t, t.qty) ELSE 0)
      BY <1>4, <3>1, <3>4, TradeSide
    <3>6. SideOf(t) = SideOf(Request)
      BY <1>4, <3>1 DEF SideOf
    <3>7. PICK c, d, e : /\ c = ChangeOf(Request, Request.qty - Pending)
                         /\ d = ChangeOf(Request, Request.qty - Pending')
                         /\ e = ChangeOf(t, t.qty)
      OBVIOUS
    <3>8. c \in Int /\ d = c + e
      <4>1. PICK all, p, n, r : all = Request.qty /\ p = Pending /\ n = t.qty /\ r = Pending'
        OBVIOUS
      <4>2. all \in Nat /\ p \in Nat /\ n \in Nat /\ r = p - n
        BY <1>3, <1>4, <3>1, <4>1
      <4>3. /\ ChangeOf(Request, all - p) \in Int
            /\ ChangeOf(Request, all - r) = ChangeOf(Request, all - p) + ChangeOf(t, n)
        <5>1. Request.open \in BOOLEAN /\ (t.open <=> Request.open)
          BY <1>3, <1>4, <3>1
        <5> QED
          BY <4>2, <5>1 DEF ChangeOf
      <4> QED
        BY <3>7, <4>1, <4>3
    <3>9. book[i][side] \in Nat /\ orphaned[i][side] \in Nat
      BY BackedTypes
    <3>10. Moved(i, side) = IF side = SideOf(Request) THEN c ELSE 0
      BY <1>2, <2>4, <3>7 DEF Moved
    <3>11. Moved(i, side)' = IF side = SideOf(Request) THEN d ELSE 0
      BY <2>2, <2>4, <3>7
    <3>12. e \in Int
      BY <1>3, <1>4, <3>1, <3>7 DEF ChangeOf
    <3>13. PICK x, y, z, w : /\ x = book[i][side] /\ y = orphaned[i][side]
                             /\ z = Moved(i, side) /\ w = Moved(i, side)'
      OBVIOUS
    <3>14. SideQty(new, side) = x + y + w
      <4>1. SideQty(pos, side) = x + y + z
        BY <2>1, <3>3, <3>13
      <4>2. CASE side = SideOf(Request)
        BY <3>5, <3>6, <3>7, <3>8, <3>9, <3>10, <3>11, <3>12, <3>13, <4>1, <4>2
      <4>3. CASE side # SideOf(Request)
        BY <3>5, <3>6, <3>9, <3>10, <3>11, <3>13, <4>1, <4>3
      <4> QED
        BY <4>2, <4>3
    <3> QED
      BY <1>1, <3>2, <3>13, <3>14 DEF BackedAt, SideQty
  <2> QED
    BY <2>3, <2>4
<1> QED
  BY <1>4, <1>6, <1>7 DEF Backed

\* Going on to a request's second order, and returning, move nothing.
LEMMA CallBacked ==
  ASSUME StrategyTypeOK, SentTraded, OrphansOK, WholeOrders, IInv, Calling, NoOrderRejected, Backed,
         NextOrder \/ Return, UNCHANGED strategyVars
  PROVE  Calling' /\ NoOrderRejected' /\ Backed'
<1>1. UNCHANGED <<para, tick, book, step, sent, orphaned>>
  BY DEF strategyVars, replayVars, propertyVars
<1>2. calls # <<>> /\ sent
  BY DEF NextOrder, Return, Calling
<1>3. Request' = Request
  BY <1>1, SameRequestSent
<1>4. /\ ~reentered' /\ NoOrderRejected' /\ positions' = positions
      /\ calls' # <<>> => CallIs(calls', Request)
  BY NextOrderCalling, ReturnCalling
<1>5. Pending' = Pending
  <2>1. CASE NextOrder
    BY <2>1, NextOrderCalling
  <2>2. CASE Return
    <3>1. calls' = <<>> /\ Pending = 0
      BY <2>2, ReturnCalling
    <3> QED
      BY <3>1 DEF Pending
  <2> QED
    BY <2>1, <2>2
<1>6. Calling'
  BY <1>1, <1>2, <1>3, <1>4 DEF Calling, CallIs
<1>7. ASSUME NEW i \in Instruments, NEW side \in Sides
      PROVE  BackedAt(i, side)'
  <2>1. SideQty(PositionOf(i), side) = book[i][side] + orphaned[i][side] + Moved(i, side)
    BY DEF Backed, BackedAt
  <2>2. Moved(i, side)' = Moved(i, side)
    <3>1. Moved(i, side)' = IF sent' /\ i = tick'.inst /\ side = SideOf(Request')
                              THEN ChangeOf(Request', Request'.qty - Pending') ELSE 0
      BY DEF Moved, SideOf, ChangeOf
    <3> QED
      BY <1>1, <1>3, <1>5, <3>1 DEF Moved
  <2>3. PositionOf(i)' = PositionOf(i)
    BY <1>4 DEF PositionOf
  <2> QED
    BY <1>1, <2>1, <2>2, <2>3 DEF BackedAt, SideQty
<1> QED
  BY <1>4, <1>6, <1>7 DEF Backed

\* bookOrder: the book catches up with what was filled.
LEMMA OrderBacked ==
  ASSUME StrategyTypeOK, SentTraded, OrphansOK, WholeOrders, IInv, Calling, NoOrderRejected, Backed,
         bookOrder
  PROVE  Calling' /\ NoOrderRejected' /\ Backed'
<1>1. /\ sent /\ calls = <<>> /\ ~sent'
      /\ UNCHANGED <<orders_, positions, calls, reentered, orphaned>>
  BY DEF bookOrder, brokerVars, vars
<1>2. Calling' /\ NoOrderRejected'
  BY <1>1 DEF Calling, NoOrderRejected
<1>3. /\ Request.long \in BOOLEAN /\ Request.open \in BOOLEAN /\ Request.qty \in Nat
      /\ tick.inst \in Instruments
  BY <1>1, SentParts
<1>4. PICK q, b, c : /\ q = Request /\ b = book[tick.inst]
                     /\ c = Booked(b, q, multiplier[tick.inst])
  OBVIOUS
<1>5. /\ q.open /\ q.long   => c.long = b.long + q.qty /\ c.short = b.short
      /\ q.open /\ ~q.long  => c.short = b.short + q.qty /\ c.long = b.long
      /\ ~q.open /\ q.long  => c.short = b.short - q.qty /\ c.long = b.long
      /\ ~q.open /\ ~q.long => c.long = b.long - q.qty /\ c.short = b.short
      /\ c \in Books /\ b \in Books
  BY <1>1, <1>4, BookedRequest DEF Request
<1>6. book' = [book EXCEPT ![tick.inst] = c]
  BY <1>4 DEF bookOrder, Request
<1>7. ASSUME NEW i \in Instruments, NEW side \in Sides
      PROVE  BackedAt(i, side)'
  <2>1. SideQty(PositionOf(i), side) = book[i][side] + orphaned[i][side] + Moved(i, side)
    BY DEF Backed, BackedAt
  <2>2. Moved(i, side)' = 0
    BY <1>1, NothingMovedYet
  <2>3. PositionOf(i)' = PositionOf(i)
    BY <1>1 DEF PositionOf
  <2>4. book[i][side] \in Nat /\ orphaned[i][side] \in Nat
    BY BackedTypes
  <2>5. PICK x, y, z, w : /\ x = book[i][side] /\ y = orphaned[i][side]
                          /\ z = Moved(i, side) /\ w = book'[i][side]
    OBVIOUS
  <2>6. w = x + z
    <3>1. CASE i # tick.inst
      <4>1. book'[i] = book[i]
        BY <1>6, <3>1 DEF StrategyTypeOK
      <4>2. z = 0
        BY <2>5, <3>1 DEF Moved
      <4> QED
        BY <2>4, <2>5, <4>1, <4>2
    <3>2. CASE i = tick.inst
      <4>1. w = c[side] /\ x = b[side]
        BY <1>4, <1>6, <2>5, <3>2 DEF StrategyTypeOK
      <4>2. z = IF side = SideOf(q) THEN ChangeOf(q, q.qty) ELSE 0
        <5>1. Pending = 0
          BY <1>1 DEF Pending
        <5>2. q.qty - 0 = q.qty
          BY <1>3, <1>4
        <5> QED
          BY <1>1, <1>4, <2>5, <3>2, <5>1, <5>2 DEF Moved
      <4>3. /\ c["long"] = c.long /\ c["short"] = c.short /\ b["long"] = b.long /\ b["short"] = b.short
            /\ b.long \in Nat /\ b.short \in Nat
        BY <1>5 DEF Books
      <4>4. PICK n : n = q.qty
        OBVIOUS
      <4>5. n \in Nat /\ q.long \in BOOLEAN /\ q.open \in BOOLEAN
        BY <1>3, <1>4, <4>4
      <4>6. CASE side = "long"
        BY <1>5, <4>1, <4>2, <4>3, <4>4, <4>5, <4>6 DEF SideOf, ChangeOf
      <4>7. CASE side = "short"
        BY <1>5, <4>1, <4>2, <4>3, <4>4, <4>5, <4>7 DEF SideOf, ChangeOf
      <4> QED
        BY <4>6, <4>7 DEF Sides
    <3> QED
      BY <3>1, <3>2
  <2>7. z \in Int
    <3>1. Pending = 0 /\ Request.qty - 0 \in Nat
      BY <1>1, <1>3 DEF Pending
    <3> QED
      BY <1>3, <2>5, <3>1 DEF Moved, ChangeOf
  <2>8. SideQty(PositionOf(i), side) = w + y + 0
    BY <2>1, <2>4, <2>5, <2>6, <2>7
  <2> QED
    BY <1>1, <2>2, <2>3, <2>5, <2>8 DEF BackedAt, SideQty
<1> QED
  BY <1>2, <1>7 DEF Backed

-----------------------------------------------------------------------------
(* The other steps.                                                        *)

\* They find no request under way and leave none.
LEMMA QuietStep ==
  ASSUME StrategyTypeOK, OutsideSteps \/ takeTick
  PROVE  ~sent /\ ~sent' /\ UNCHANGED <<calls, orders_, reentered>>
<1>1. ASSUME step = 0 \/ pc # "onMarketData" \/ consumers[turn] # "strategy" PROVE ~sent
  BY <1>1, NoOrderOutsideTick
<1>2. CASE takeTick
  BY <1>1, <1>2 DEF takeTick, brokerVars, vars
<1>3. CASE endOfTick
  BY <1>3, StepsOfTick DEF endOfTick, OutsideSteps, brokerVars, vars
<1>4. CASE skipTick
  BY <1>1, <1>4, StepsOfTick DEF skipTick, OutsideSteps, brokerVars, vars
<1>5. CASE startDay \/ nextTick \/ endDay
  BY <1>1, <1>5, StepsOfTick DEF startDay, nextTick, endDay, Replay, OutsideSteps, brokerVars, vars
<1>6. CASE positionsStartDay
  BY <1>1, <1>6, StepsOfTick
  DEF positionsStartDay, Positions, OutsideSteps, onStartDay, ghostVars
<1>7. CASE positionsEndDay
  BY <1>1, <1>7, StepsOfTick DEF positionsEndDay, Positions, OutsideSteps, brokerVars, vars
<1>8. CASE positionsTick
  <2>1. ~sent'
    BY <1>8, StepsOfTick DEF Positions, OutsideSteps
  <2>2. consumers[turn] # "strategy"
    BY <1>8 DEF positionsTick, ConsumerAt
  <2>3. UNCHANGED <<calls, orders_, reentered>>
    BY <1>8 DEF positionsTick, onMarketData, ghostVars, brokerVars, vars
  <2> QED
    BY <1>1, <2>1, <2>2, <2>3
<1>9. CASE strategyStartDay
  BY <1>1, <1>9, StepsOfTick DEF strategyStartDay, OutsideSteps, brokerVars, vars
<1>10. CASE strategyEndDay
  BY <1>1, <1>10, StepsOfTick DEF strategyEndDay, OutsideSteps, ghostVars
<1> QED
  BY <1>2, <1>3, <1>4, <1>5, <1>6, <1>7, <1>8, <1>9, <1>10 DEF OutsideSteps, Positions, Replay

\* No position is bought or sold in them.
LEMMA SidesKept ==
  ASSUME StrategyTypeOK, IInv, OutsideSteps \/ takeTick, NEW i \in Instruments, NEW side \in Sides
  PROVE  SideQty(PositionOf(i)', side) = SideQty(PositionOf(i), side)
<1>1. ASSUME UNCHANGED positions PROVE SideQty(PositionOf(i)', side) = SideQty(PositionOf(i), side)
  BY <1>1 DEF PositionOf
<1>2. PICK ps, qs : ps = positions /\ qs = positions'
  OBVIOUS
<1>3. PositionsOK(ps)
  BY <1>2, BooksParts DEF IInv
<1>4. /\ PositionOf(i)  = IF i \in DOMAIN ps THEN ps[i] ELSE EmptyPosition
      /\ PositionOf(i)' = IF i \in DOMAIN qs THEN qs[i] ELSE EmptyPosition
  BY <1>2 DEF PositionOf
<1>5. ASSUME DOMAIN qs = DOMAIN ps,
             \A t \in PositionTypes : i \in DOMAIN ps => SumQty(qs[i][t]) = SumQty(ps[i][t])
      PROVE  SideQty(PositionOf(i)', side) = SideQty(PositionOf(i), side)
  <2>1. CASE i \in DOMAIN ps
    <3>1. PositionOf(i) = ps[i] /\ PositionOf(i)' = qs[i]
      BY <1>4, <1>5, <2>1
    <3>2. /\ SumQty(qs[i]["LongToday"]) = SumQty(ps[i]["LongToday"])
          /\ SumQty(qs[i]["LongYst"]) = SumQty(ps[i]["LongYst"])
          /\ SumQty(qs[i]["ShortToday"]) = SumQty(ps[i]["ShortToday"])
          /\ SumQty(qs[i]["ShortYst"]) = SumQty(ps[i]["ShortYst"])
      BY <1>5, <2>1 DEF PositionTypes
    <3> QED
      BY <3>1, <3>2 DEF SideQty
  <2>2. CASE i \notin DOMAIN ps
    BY <1>4, <1>5, <2>2
  <2> QED
    BY <2>1, <2>2
<1>6. CASE positionsStartDay
  <2>1. qs = [j \in DOMAIN ps |-> [resetPnl(ps[j], multiplier[j]) EXCEPT !.tradeCount = 0]]
    BY <1>2, <1>6 DEF positionsStartDay, onStartDay, resetPositionTodayToYst
  <2>2. DOMAIN qs = DOMAIN ps
    BY <2>1
  <2>3. ASSUME i \in DOMAIN ps PROVE \A t \in PositionTypes : SumQty(qs[i][t]) = SumQty(ps[i][t])
    <3>1. PICK mult, new : mult = multiplier[i] /\ new = qs[i]
      OBVIOUS
    <3>2. mult \in Int /\ ps[i] \in CPositions
      BY <1>3, <2>3, <3>1, MoneyAssumption DEF PositionsOK
    <3>3. new = [resetPnl(ps[i], mult) EXCEPT !.tradeCount = 0]
      BY <2>1, <2>3, <3>1
    <3>4. IsReset(new, ps[i])
      BY <3>2, <3>3, ResetSpec
    <3> QED
      BY <3>1, <3>4 DEF IsReset
  <2> QED
    BY <1>5, <2>2, <2>3
<1>7. CASE positionsTick
  <2>1. CASE UNCHANGED brokerVars
    BY <1>1, <2>1 DEF brokerVars, vars
  <2>2. CASE onMarketData(tick.inst, tick.last)
    <3>1. PICK j, p : j = tick.inst /\ p = tick.last
      OBVIOUS
    <3>2. j \in DOMAIN ps /\ qs = [ps EXCEPT ![j].lastPrice = p]
      BY <1>2, <2>2, <3>1 DEF onMarketData
    <3>3. DOMAIN qs = DOMAIN ps
      BY <3>2
    <3>4. ASSUME i \in DOMAIN ps PROVE \A t \in PositionTypes : qs[i][t] = ps[i][t]
      <4>1. ps[i] \in CPositions
        BY <1>3, <3>4 DEF PositionsOK
      <4>2. qs[i] = IF i = j THEN [ps[i] EXCEPT !.lastPrice = p] ELSE ps[i]
        BY <3>2, <3>4
      <4> QED
        BY <4>1, <4>2 DEF PositionTypes, CPositions
    <3> QED
      BY <1>5, <3>3, <3>4
  <2> QED
    BY <1>7, <2>1, <2>2 DEF positionsTick
<1>8. CASE strategyEndDay
  <2>1. qs = [j \in Instruments |-> PositionOf(j)]
    BY <1>2, <1>8 DEF strategyEndDay
  <2>2. PositionOf(i)' = PositionOf(i)
    BY <1>4, <2>1
  <2> QED
    BY <2>2
<1>9. CASE \/ startDay \/ nextTick \/ endDay \/ positionsEndDay \/ strategyStartDay \/ skipTick
           \/ takeTick \/ endOfTick
  BY <1>1, <1>9
  DEF startDay, nextTick, endDay, positionsEndDay, strategyStartDay, skipTick, takeTick, endOfTick,
      brokerVars, vars
<1> QED
  BY <1>6, <1>7, <1>8, <1>9 DEF OutsideSteps, Positions, Replay

LEMMA QuietBacked ==
  ASSUME StrategyTypeOK, SentTraded, OrphansOK, WholeOrders, IInv, Calling, NoOrderRejected, Backed,
         [StrategyNext]_allVars, OutsideSteps \/ takeTick
  PROVE  Calling' /\ NoOrderRejected' /\ Backed'
<1>1. ~sent /\ ~sent' /\ UNCHANGED <<calls, orders_, reentered>>
  BY QuietStep
<1>2. Calling' /\ NoOrderRejected'
  BY <1>1 DEF Calling, NoOrderRejected
<1>3. ASSUME NEW i \in Instruments, NEW side \in Sides
      PROVE  BackedAt(i, side)'
  <2>1. SideQty(PositionOf(i), side) = book[i][side] + orphaned[i][side] + 0
    BY <1>1, NothingMoved DEF Backed, BackedAt
  <2>2. book[i][side] \in Nat /\ orphaned[i][side] \in Nat
    BY BackedTypes
  <2>3. book'[i][side] + orphaned'[i][side] = book[i][side] + orphaned[i][side]
    <3>1. BookStep(i)
      BY BookSteps
    <3>2. ~BookBooked(i)
      BY <1>1 DEF BookBooked, bookOrder
    <3>3. side = "long" \/ side = "short"
      BY DEF Sides
    <3>4. CASE BookKept(i) /\ ForgottenKept(i)
      <4>1. book'[i][side] = book[i][side] /\ orphaned'[i][side] = orphaned[i][side]
        BY <3>3, <3>4 DEF BookKept, ForgottenKept
      <4> QED
        BY <4>1
    <3>5. CASE BookForgot(i) /\ ForgottenMore(i)
      <4>1. book'[i][side] = 0
        BY <3>3, <3>5 DEF BookForgot
      <4>2. orphaned'[i][side] = orphaned[i][side] + book[i][side]
        BY <3>3, <3>5 DEF ForgottenMore, Forgotten
      <4> QED
        BY <2>2, <4>1, <4>2
    <3> QED
      BY <3>1, <3>2, <3>4, <3>5 DEF BookStep
  <2>4. Moved(i, side)' = 0
    BY <1>1, NothingMovedYet
  <2>5. SideQty(PositionOf(i)', side) = SideQty(PositionOf(i), side)
    BY SidesKept
  <2>6. SideQty(PositionOf(i), side) \in Nat
    BY BackedTypes
  <2>7. PICK x, y : x = book'[i][side] /\ y = orphaned'[i][side]
    OBVIOUS
  <2>8. SideQty(PositionOf(i)', side) = x + y + 0
    BY <2>1, <2>2, <2>3, <2>5, <2>6, <2>7
  <2> QED
    BY <2>4, <2>7, <2>8 DEF BackedAt, SideQty
<1> QED
  BY <1>2, <1>3 DEF Backed

-----------------------------------------------------------------------------
(* The strategy and its broker together.                                   *)

StrategyInv == /\ StrategyTypeOK /\ SentTraded /\ OrphansOK /\ WholeOrders /\ IInv /\ Calling
               /\ NoOrderRejected /\ Backed

LEMMA StrategyInvInit == StrategyInit => StrategyInv
<1> SUFFICES ASSUME StrategyInit PROVE StrategyInv
  OBVIOUS
<1>1. StrategyTypeOK /\ SentTraded
  BY TypeInit
<1>2. IInv
  BY InitInvariant DEF StrategyInit
<1>3. para \in ConfigSpace
  BY ConfigAssumption DEF StrategyInit
<1>4. \A i \in Instruments :
        /\ book[i].long = 0 /\ book[i].short = 0 /\ orphaned[i] = [long |-> 0, short |-> 0]
  BY DEF StrategyInit, EmptyBook
<1>5. OrphansOK
  BY DEF StrategyInit, OrphansOK
<1>6. WholeOrders
  BY <1>3, <1>4, NothingWhole DEF WholeOrders
<1>7. calls = <<>> /\ reentered = FALSE /\ orders_ = NoMap /\ positions = NoMap /\ ~sent
  BY NothingCarried DEF StrategyInit, Init
<1>8. Calling
  BY <1>7 DEF Calling
<1>9. NoOrderRejected
  BY <1>7, EmptyMap DEF NoOrderRejected
<1>10. ASSUME NEW i \in Instruments, NEW side \in Sides
       PROVE  BackedAt(i, side)
  <2>1. PositionOf(i) = EmptyPosition
    BY <1>7, EmptyMap DEF PositionOf
  <2>2. SideQty(PositionOf(i), side) = 0
    BY <2>1, NoSides
  <2>3. book[i][side] = 0 /\ orphaned[i][side] = 0
    BY <1>4 DEF Sides
  <2>4. Moved(i, side) = 0
    BY <1>7, NothingMoved
  <2> QED
    BY <2>2, <2>3, <2>4 DEF BackedAt
<1> QED
  BY <1>1, <1>2, <1>5, <1>6, <1>8, <1>9, <1>10 DEF StrategyInv, Backed

LEMMA StutterBacked ==
  ASSUME StrategyTypeOK, Calling, NoOrderRejected, Backed, UNCHANGED allVars
  PROVE  Calling' /\ NoOrderRejected' /\ Backed'
<1>1. UNCHANGED <<para, tick, book, step, sent, orphaned, calls, orders_, positions, reentered>>
  BY DEF allVars, strategyVars, replayVars, propertyVars, brokerVars, vars
<1>2. Request' = Request
  BY <1>1, SameRequestSent
<1>3. Calling'
  BY <1>1, <1>2 DEF Calling, CallIs
<1>4. NoOrderRejected'
  BY <1>1 DEF NoOrderRejected
<1>5. Pending' = Pending
  BY <1>1 DEF Pending, Remaining, HeadOf
<1>6. ASSUME NEW i \in Instruments, NEW side \in Sides
      PROVE  BackedAt(i, side)'
  <2>1. Moved(i, side)' = IF sent' /\ i = tick'.inst /\ side = SideOf(Request')
                            THEN ChangeOf(Request', Request'.qty - Pending') ELSE 0
    BY DEF Moved, SideOf, ChangeOf
  <2>2. Moved(i, side)' = Moved(i, side)
    BY <1>1, <1>2, <1>5, <2>1 DEF Moved
  <2>3. PositionOf(i)' = PositionOf(i)
    BY <1>1 DEF PositionOf
  <2>4. SideQty(PositionOf(i), side) = book[i][side] + orphaned[i][side] + Moved(i, side)
    BY DEF Backed, BackedAt
  <2> QED
    BY <1>1, <2>2, <2>3, <2>4 DEF BackedAt, SideQty
<1> QED
  BY <1>3, <1>4, <1>6 DEF Backed

LEMMA StrategyInvStep == StrategyInv /\ [StrategyNext]_allVars => StrategyInv'
<1> SUFFICES ASSUME StrategyInv, [StrategyNext]_allVars PROVE StrategyInv'
  OBVIOUS
<1>1. /\ StrategyTypeOK /\ SentTraded /\ OrphansOK /\ WholeOrders /\ IInv /\ Calling
      /\ NoOrderRejected /\ Backed
  BY DEF StrategyInv
<1>2. StrategyTypeOK' /\ SentTraded'
  BY <1>1, TypeStep, SentTradedStep
<1>3. OrphansOK' /\ WholeOrders'
  BY <1>1, WholeStep
<1>4. IInv'
  BY <1>1, BrokerStep
<1>5. Calling' /\ NoOrderRejected' /\ Backed'
  <2>1. CASE Broker
    <3>1. CASE FillOrder /\ UNCHANGED strategyVars
      BY <1>1, <3>1, FillBacked
    <3>2. CASE (NextOrder \/ Return) /\ UNCHANGED strategyVars
      BY <1>1, <3>2, CallBacked
    <3> QED
      BY <2>1, <3>1, <3>2 DEF Broker
  <2>2. CASE giveOrder
    BY <1>1, <2>2, GiveBacked
  <2>3. CASE bookOrder
    BY <1>1, <2>3, OrderBacked
  <2>4. CASE OutsideSteps \/ takeTick
    BY <1>1, <2>4, QuietBacked
  <2>5. CASE UNCHANGED allVars
    BY <1>1, <2>5, StutterBacked
  <2>6. \/ Broker \/ UNCHANGED allVars \/ OutsideSteps \/ takeTick \/ giveOrder \/ bookOrder
    BY DEF StrategyNext, Strategy, OutsideSteps
  <2> QED
    BY <2>1, <2>2, <2>3, <2>4, <2>5, <2>6
<1> QED
  BY <1>2, <1>3, <1>4, <1>5 DEF StrategyInv

\* The strategy's inductive invariant.
THEOREM StrategyInvariant == StrategySpec => []StrategyInv
BY StrategyInvInit, StrategyInvStep, PTL DEF StrategySpec

\* No request of the strategy is rejected: what it closes by its own book the broker
\* holds, though the book counts what was asked for and not what was filled.
THEOREM OrdersAccepted == StrategySpec => []NoOrderRejected
<1>1. StrategyInv => NoOrderRejected
  BY DEF StrategyInv
<1> QED
  BY <1>1, StrategyInvariant, PTL

\* The broker's invariant holds in the strategy's run, of whatever days and ticks: with
\* it everything proved of the broker from it alone.
THEOREM BrokerUnderStrategy == StrategySpec => []IInv
<1>1. StrategyInv => IInv
  BY DEF StrategyInv
<1> QED
  BY <1>1, StrategyInvariant, PTL

\* The broker's two columns.
LEMMA BrokerSides ==
  ASSUME IInv, NEW i
  PROVE  /\ BrokerLong(i)  = SideQty(PositionOf(i), "long")
         /\ BrokerShort(i) = SideQty(PositionOf(i), "short")
         /\ BrokerLong(i) \in Nat /\ BrokerShort(i) \in Nat
<1>1. PICK pos : pos = PositionOf(i)
  OBVIOUS
<1>2. pos \in CPositions
  BY <1>1, PositionOfType DEF IInv
<1>3. \A type \in PositionTypes : pos[type] \in Queues
  BY <1>2, QueueOfType
<1>4. /\ pos["LongToday"] \in Queues /\ pos["LongYst"] \in Queues
      /\ pos["ShortToday"] \in Queues /\ pos["ShortYst"] \in Queues
  BY <1>3 DEF PositionTypes
<1>5. /\ SumQty(pos["LongToday"] \o pos["LongYst"]) = SumQty(pos["LongToday"]) + SumQty(pos["LongYst"])
      /\ SumQty(pos["ShortToday"] \o pos["ShortYst"])
           = SumQty(pos["ShortToday"]) + SumQty(pos["ShortYst"])
  BY <1>4, ConcatQueueSums
<1>6. BrokerLong(i) = SideQty(pos, "long") /\ BrokerShort(i) = SideQty(pos, "short")
  BY <1>1, <1>5 DEF BrokerLong, BrokerShort, SideQty
<1>7. SideQty(pos, "long") \in Nat /\ SideQty(pos, "short") \in Nat
  BY <1>2, SideType
<1> QED
  BY <1>1, <1>6, <1>7

\* Between its requests the strategy's book is what the broker holds for it, less what
\* the book forgot when it was cleared.
THEOREM BooksBacked == StrategySpec => []BookBacked
<1>1. StrategyInv => BookBacked
  <2> SUFFICES ASSUME StrategyInv, NEW i \in Instruments, ~sent
               PROVE  /\ BrokerLong(i)  = book[i].long + orphaned[i].long
                      /\ BrokerShort(i) = book[i].short + orphaned[i].short
    BY DEF BookBacked
  <2>1. /\ BrokerLong(i)  = SideQty(PositionOf(i), "long")
        /\ BrokerShort(i) = SideQty(PositionOf(i), "short")
    BY BrokerSides DEF StrategyInv
  <2>2. \A side \in Sides : SideQty(PositionOf(i), side) = book[i][side] + orphaned[i][side] + 0
    BY NothingMoved DEF StrategyInv, Backed, BackedAt
  <2>3. \A side \in Sides : book[i][side] \in Nat /\ orphaned[i][side] \in Nat
    BY BackedTypes DEF StrategyInv
  <2>4. "long" \in Sides /\ "short" \in Sides
    BY DEF Sides
  <2> QED
    BY <2>1, <2>2, <2>3, <2>4
<1> QED
  BY <1>1, StrategyInvariant, PTL

-----------------------------------------------------------------------------
(* The price the positions are valued at.                                  *)

HeldAt(i) == SideQty(PositionOf(i), "long") + SideQty(PositionOf(i), "short")

\* What is held is valued at the last tick's price, but for the instrument whose tick
\* is on its way to the position manager.
Marked(i) ==
  HeldAt(i) > 0 => \/ PositionOf(i).lastPrice = marked[i]
                   \/ pc = "onMarketData" /\ i = tick.inst

MarksOK ==
  /\ marked \in [Instruments -> Int]
  /\ pc = "onMarketData" => marked[tick.inst] = tick.last
  /\ consumers[1] = "strategy" => \A i \in Instruments : Marked(i)

\* The strategy and the broker only change the position of the tick's instrument.
LEMMA OtherPositions ==
  ASSUME StrategyInv, Broker \/ giveOrder, NEW i, i # tick.inst
  PROVE  PositionOf(i)' = PositionOf(i)
<1>1. CASE giveOrder
  <2>1. step > 0
    BY <1>1 DEF giveOrder
  <2>2. PICK k \in 1 .. LastStep - 1 :
          IsNextOrder(k) /\ submitRequest(RequestAt(book[tick.inst], k))
    BY <1>1 DEF giveOrder
  <2>3. PICK q : q = RequestAt(book[tick.inst], k)
    OBVIOUS
  <2>4. q.type = "future"
    BY <2>1, <2>2, <2>3, NextOrderTrades, SentRequest DEF StrategyInv
  <2>5. q.inst = tick.inst
    BY <2>3 DEF RequestAt
  <2>6. positions' = (IF q.open THEN positions ELSE Put(positions, q.inst, PositionOf(q.inst)))
    BY <2>2, <2>3, <2>4 DEF submitRequest, Touched
  <2>7. CASE q.open
    BY <2>6, <2>7 DEF PositionOf
  <2>8. CASE ~q.open
    <3>1. IsUpdated(positions', positions, q.inst, PositionOf(q.inst))
      BY <2>6, <2>8, Updated
    <3> QED
      BY <2>5, <3>1 DEF IsUpdated, PositionOf
  <2> QED
    BY <2>7, <2>8
<1>2. CASE FillOrder /\ UNCHANGED strategyVars
  <2>1. sent
    BY <1>2 DEF FillOrder, StrategyInv, Calling
  <2>2. Request.type = "future" /\ Request.inst = tick.inst
    BY <2>1, SentParts DEF StrategyInv
  <2>3. IsUpdated(positions', positions, Request.inst,
                  addTrade(FillPos, FillTrade, multiplier[Request.inst]))
    BY <1>2, <2>2, FillCalling DEF StrategyInv
  <2> QED
    BY <2>2, <2>3 DEF IsUpdated, PositionOf
<1>3. CASE NextOrder \/ Return
  <2>1. positions' = positions
    BY <1>3 DEF NextOrder, Return, booksVars
  <2> QED
    BY <2>1 DEF PositionOf
<1> QED
  BY <1>1, <1>2, <1>3 DEF Broker

\* While they do, the tick is not over.
LEMMA InTick ==
  ASSUME StrategyInv, Broker \/ giveOrder \/ bookOrder
  PROVE  /\ pc = "onMarketData" /\ UNCHANGED <<pc, tick, marked, consumers>>
<1>1. CASE Broker
  <2>1. calls # <<>>
    BY <1>1 DEF Broker, FillOrder, NextOrder, Return
  <2>2. sent
    BY <2>1 DEF StrategyInv, Calling
  <2>3. pc = "onMarketData"
    BY <2>2, OrderInTick DEF StrategyInv
  <2> QED
    BY <1>1, <2>3 DEF Broker, strategyVars, replayVars
<1>2. CASE giveOrder
  BY <1>2, OrderInTick DEF giveOrder, replayVars, StrategyInv
<1>3. CASE bookOrder
  BY <1>3, OrderInTick DEF bookOrder, replayVars, StrategyInv
<1> QED
  BY <1>1, <1>2, <1>3

\* The positions as they are leave what is held and its price.
LEMMA SamePosition ==
  ASSUME NEW i, PositionOf(i)' = PositionOf(i)
  PROVE  HeldAt(i)' = HeldAt(i) /\ PositionOf(i)'.lastPrice = PositionOf(i).lastPrice
BY DEF HeldAt, SideQty

\* The start of a day rolls the positions at their last price.
LEMMA StartKeepsPrice ==
  ASSUME StrategyInv, positionsStartDay, NEW i \in Instruments
  PROVE  PositionOf(i)'.lastPrice = PositionOf(i).lastPrice
<1>1. PICK ps, qs : ps = positions /\ qs = positions'
  OBVIOUS
<1>2. PositionsOK(ps)
  BY <1>1, BooksParts DEF IInv, StrategyInv
<1>3. /\ PositionOf(i)  = IF i \in DOMAIN ps THEN ps[i] ELSE EmptyPosition
      /\ PositionOf(i)' = IF i \in DOMAIN qs THEN qs[i] ELSE EmptyPosition
  BY <1>1 DEF PositionOf
<1>4. qs = [j \in DOMAIN ps |-> [resetPnl(ps[j], multiplier[j]) EXCEPT !.tradeCount = 0]]
  BY <1>1 DEF positionsStartDay, onStartDay, resetPositionTodayToYst
<1>5. CASE i \in DOMAIN ps
  <2>1. PICK mult, new : mult = multiplier[i] /\ new = qs[i]
    OBVIOUS
  <2>2. mult \in Int /\ ps[i] \in CPositions
    BY <1>2, <1>5, <2>1, MoneyAssumption DEF PositionsOK
  <2>3. new = [resetPnl(ps[i], mult) EXCEPT !.tradeCount = 0]
    BY <1>4, <1>5, <2>1
  <2>4. IsReset(new, ps[i])
    BY <2>2, <2>3, ResetSpec
  <2> QED
    BY <1>3, <1>4, <1>5, <2>1, <2>4 DEF IsReset
<1>6. CASE i \notin DOMAIN ps
  BY <1>3, <1>4, <1>6
<1> QED
  BY <1>5, <1>6

\* A tick sets the price of its instrument's position.
LEMMA TickPrice ==
  ASSUME StrategyInv, positionsTick, NEW i \in Instruments
  PROVE  /\ i # tick.inst => PositionOf(i)'.lastPrice = PositionOf(i).lastPrice
         /\ i = tick.inst /\ HeldAt(i) > 0 => PositionOf(i)'.lastPrice = tick.last
<1>1. PICK ps, qs : ps = positions /\ qs = positions'
  OBVIOUS
<1>2. PositionsOK(ps)
  BY <1>1, BooksParts DEF IInv, StrategyInv
<1>3. /\ PositionOf(i)  = IF i \in DOMAIN ps THEN ps[i] ELSE EmptyPosition
      /\ PositionOf(i)' = IF i \in DOMAIN qs THEN qs[i] ELSE EmptyPosition
  BY <1>1 DEF PositionOf
<1>4. CASE tick.inst \in DOMAIN positions
  <2>1. qs = [ps EXCEPT ![tick.inst].lastPrice = tick.last]
    BY <1>1, <1>4 DEF positionsTick, onMarketData
  <2>2. CASE i \in DOMAIN ps
    <3>1. ps[i] \in CPositions
      BY <1>2, <2>2 DEF PositionsOK
    <3>2. qs[i] = IF i = tick.inst THEN [ps[i] EXCEPT !.lastPrice = tick.last] ELSE ps[i]
      BY <2>1, <2>2
    <3> QED
      BY <1>3, <2>1, <2>2, <3>1, <3>2 DEF CPositions
  <2>3. CASE i \notin DOMAIN ps
    BY <1>1, <1>3, <1>4, <2>1, <2>3
  <2> QED
    BY <2>2, <2>3
<1>5. CASE tick.inst \notin DOMAIN positions
  <2>1. qs = ps
    BY <1>1, <1>5 DEF positionsTick, brokerVars, vars
  <2>2. i = tick.inst => HeldAt(i) = 0
    <3>1. i = tick.inst => PositionOf(i) = EmptyPosition
      BY <1>5 DEF PositionOf
    <3>2. SideQty(EmptyPosition, "long") = 0 /\ SideQty(EmptyPosition, "short") = 0
      BY NoSides
    <3> QED
      BY <3>1, <3>2 DEF HeldAt
  <2> QED
    BY <1>3, <2>1, <2>2
<1> QED
  BY <1>4, <1>5

LEMMA HeldKept ==
  ASSUME StrategyInv, OutsideSteps \/ takeTick, NEW i \in Instruments
  PROVE  HeldAt(i)' = HeldAt(i)
<1>1. "long" \in Sides /\ "short" \in Sides
  BY DEF Sides
<1>2. /\ SideQty(PositionOf(i)', "long") = SideQty(PositionOf(i), "long")
      /\ SideQty(PositionOf(i)', "short") = SideQty(PositionOf(i), "short")
  BY <1>1, SidesKept DEF StrategyInv
<1>3. HeldAt(i)' = SideQty(PositionOf(i)', "long") + SideQty(PositionOf(i)', "short")
  BY DEF HeldAt, SideQty
<1> QED
  BY <1>2, <1>3 DEF HeldAt

LEMMA MarksInit == StrategyInit => MarksOK
<1> SUFFICES ASSUME StrategyInit PROVE MarksOK
  OBVIOUS
<1>1. positions = NoMap /\ pc = "between" /\ marked = [i \in Instruments |-> 0]
  BY NothingCarried DEF StrategyInit, Init
<1>2. ASSUME NEW i \in Instruments PROVE Marked(i)
  <2>1. PositionOf(i) = EmptyPosition
    BY <1>1, EmptyMap DEF PositionOf
  <2>2. SideQty(EmptyPosition, "long") = 0 /\ SideQty(EmptyPosition, "short") = 0
    BY NoSides
  <2> QED
    BY <2>1, <2>2 DEF Marked, HeldAt
<1> QED
  BY <1>1, <1>2 DEF MarksOK

LEMMA MarksStep == StrategyInv /\ MarksOK /\ [StrategyNext]_allVars => MarksOK'
<1> SUFFICES ASSUME StrategyInv, MarksOK, [StrategyNext]_allVars PROVE MarksOK'
  OBVIOUS
<1>0. /\ turn \in {1, 2} /\ consumers \in ConsumerOrders /\ consumers' = consumers
      /\ pc = "onMarketData" => tick \in Ticks
  BY SamePara DEF StrategyInv, StrategyTypeOK
<1>1. ASSUME UNCHANGED <<marked, pc, tick>>,
             consumers[1] = "strategy" => \A i \in Instruments : Marked(i)'
      PROVE  MarksOK'
  BY <1>0, <1>1 DEF MarksOK
<1>2. ASSUME UNCHANGED <<marked, pc, tick>>,
             \A i \in Instruments :
               (pc = "onMarketData" /\ i = tick.inst) \/ PositionOf(i)' = PositionOf(i)
      PROVE  MarksOK'
  <2>1. ASSUME consumers[1] = "strategy", NEW i \in Instruments PROVE Marked(i)'
    <3>1. Marked(i)
      BY <2>1 DEF MarksOK
    <3>2. CASE pc = "onMarketData" /\ i = tick.inst
      BY <1>2, <3>2 DEF Marked
    <3>3. CASE PositionOf(i)' = PositionOf(i)
      <4>1. HeldAt(i)' = HeldAt(i) /\ PositionOf(i)'.lastPrice = PositionOf(i).lastPrice
        BY <3>3, SamePosition
      <4> QED
        BY <1>2, <3>1, <4>1 DEF Marked
    <3> QED
      BY <1>2, <3>2, <3>3
  <2> QED
    BY <1>1, <1>2, <2>1
<1>3. CASE Broker \/ giveOrder
  <2>1. pc = "onMarketData" /\ UNCHANGED <<pc, tick, marked>>
    BY <1>3, InTick
  <2>2. \A i \in Instruments : i = tick.inst \/ PositionOf(i)' = PositionOf(i)
    BY <1>3, OtherPositions
  <2> QED
    BY <1>2, <2>1, <2>2
<1>4. CASE bookOrder \/ takeTick \/ UNCHANGED allVars
  <2>1. UNCHANGED <<positions, pc, tick, marked>>
    BY <1>4 DEF bookOrder, takeTick, allVars, strategyVars, replayVars, brokerVars, vars
  <2> QED
    BY <1>2, <2>1 DEF PositionOf
\* The steps that leave the ticks and what is held and its price.
<1>5. ASSUME OutsideSteps \/ takeTick, UNCHANGED marked,
             pc' = "onMarketData" => pc = "onMarketData" /\ UNCHANGED tick,
             pc = "onMarketData" => pc' = "onMarketData",
             \A i \in Instruments :
               HeldAt(i) > 0 => PositionOf(i)'.lastPrice = PositionOf(i).lastPrice
      PROVE  MarksOK'
  <2>1. ASSUME consumers[1] = "strategy", NEW i \in Instruments PROVE Marked(i)'
    <3>1. Marked(i)
      BY <2>1 DEF MarksOK
    <3>2. HeldAt(i)' = HeldAt(i)
      BY <1>5, HeldKept
    <3> QED
      BY <1>5, <3>1, <3>2 DEF Marked
  <2> QED
    BY <1>0, <1>5, <2>1 DEF MarksOK
<1>6. CASE startDay \/ endDay \/ positionsEndDay \/ strategyStartDay
  <2>1. UNCHANGED <<marked, positions>> /\ pc # "onMarketData"
    BY <1>6 DEF startDay, endDay, positionsEndDay, strategyStartDay, brokerVars, vars
  <2>2. pc' # "onMarketData"
    BY <1>6, <2>1 DEF startDay, endDay, positionsEndDay, strategyStartDay, NextConsumer
  <2>3. \A i \in Instruments : PositionOf(i)' = PositionOf(i)
    BY <2>1 DEF PositionOf
  <2> QED
    BY <1>5, <1>6, <2>1, <2>2, <2>3 DEF OutsideSteps, Replay, Positions
<1>7. CASE positionsStartDay
  <2>1. UNCHANGED marked /\ pc = "onStartDay" /\ pc' # "onMarketData"
    BY <1>7 DEF positionsStartDay, NextConsumer
  <2>2. \A i \in Instruments : PositionOf(i)'.lastPrice = PositionOf(i).lastPrice
    BY <1>7, StartKeepsPrice
  <2> QED
    BY <1>5, <1>7, <2>1, <2>2 DEF OutsideSteps, Positions
<1>8. CASE strategyEndDay
  <2>1. UNCHANGED marked /\ pc = "onEndDay" /\ pc' # "onMarketData"
    BY <1>8 DEF strategyEndDay, NextConsumer
  <2>2. \A i \in Instruments : PositionOf(i)' = PositionOf(i)
    BY <1>8 DEF strategyEndDay, PositionOf
  <2> QED
    BY <1>5, <1>8, <2>1, <2>2 DEF OutsideSteps
<1>9. CASE skipTick \/ endOfTick
  <2>1. /\ pc = "onMarketData" /\ consumers[turn] = "strategy"
        /\ UNCHANGED <<marked, positions>> /\ NextConsumer("ticks")
        /\ tick' = IF turn = 1 THEN tick ELSE NoTick
    <3>1. CASE skipTick
      BY <3>1 DEF skipTick, ConsumerAt, brokerVars, vars
    <3>2. CASE endOfTick
      <4>1. pc = "onMarketData" /\ consumers[turn] = "strategy"
        BY <3>2, OrderInTick DEF endOfTick, StrategyInv
      <4> QED
        BY <3>2, <4>1 DEF endOfTick, brokerVars, vars
    <3> QED
      BY <1>9, <3>1, <3>2
  <2>2. CASE turn = 1
    <3>1. UNCHANGED <<marked, pc, tick>> /\ \A i \in Instruments : PositionOf(i)' = PositionOf(i)
      BY <2>1, <2>2 DEF NextConsumer, PositionOf
    <3> QED
      BY <1>2, <3>1
  <2>3. CASE turn = 2
    <3>1. consumers[1] # "strategy"
      BY <1>0, <2>1, <2>3 DEF ConsumerOrders
    <3>2. pc' = "ticks" /\ UNCHANGED marked
      BY <2>1, <2>3 DEF NextConsumer
    <3> QED
      BY <1>0, <3>1, <3>2 DEF MarksOK
  <2> QED
    BY <1>0, <2>2, <2>3
<1>10. CASE positionsTick
  <2>1. pc = "onMarketData" /\ consumers[turn] = "positions" /\ UNCHANGED marked
        /\ NextConsumer("ticks") /\ tick' = IF turn = 1 THEN tick ELSE NoTick
    BY <1>10 DEF positionsTick, ConsumerAt
  <2>2. CASE turn = 1
    <3>1. consumers[1] # "strategy"
      BY <2>1, <2>2
    <3>2. UNCHANGED <<marked, pc, tick>>
      BY <2>1, <2>2 DEF NextConsumer
    <3> QED
      BY <1>1, <3>1, <3>2
  <2>3. CASE turn = 2
    <3>1. pc' = "ticks"
      BY <2>1, <2>3 DEF NextConsumer
    <3>2. ASSUME consumers[1] = "strategy", NEW i \in Instruments PROVE Marked(i)'
      <4>1. Marked(i)
        BY <3>2 DEF MarksOK
      <4>2. HeldAt(i)' = HeldAt(i)
        BY <1>10, HeldKept DEF OutsideSteps, Positions
      <4>3. marked[tick.inst] = tick.last
        BY <2>1 DEF MarksOK
      <4>4. /\ i # tick.inst => PositionOf(i)'.lastPrice = PositionOf(i).lastPrice
            /\ i = tick.inst /\ HeldAt(i) > 0 => PositionOf(i)'.lastPrice = tick.last
        BY <1>10, TickPrice
      <4> QED
        BY <2>1, <4>1, <4>2, <4>3, <4>4 DEF Marked
    <3> QED
      BY <1>0, <2>1, <3>1, <3>2 DEF MarksOK
  <2> QED
    BY <1>0, <2>2, <2>3
<1>11. CASE nextTick
  <2>1. PICK t \in Ticks : /\ tick' = t /\ marked' = [marked EXCEPT ![t.inst] = t.last]
                           /\ pc = "ticks" /\ pc' = "onMarketData" /\ UNCHANGED positions
    BY <1>11 DEF nextTick, brokerVars, vars
  <2>2. t.inst \in Instruments /\ t.last \in Int
    <3>1. t.inst \in Instruments /\ t.last \in {q[1] : q \in Quotes}
      BY <2>1 DEF Ticks
    <3>2. t.last \in Prices
      BY <3>1, TickAssumption
    <3>3. t.inst \in Instruments
      BY <3>1
    <3>4. PICK x : x = t.last
      OBVIOUS
    <3>5. x \in Nat
      BY <3>2, <3>4, QuantityAssumption
    <3> QED
      BY <3>3, <3>4, <3>5
  <2>3. marked' \in [Instruments -> Int] /\ marked'[t.inst] = t.last
        /\ \A i \in Instruments : i # t.inst => marked'[i] = marked[i]
    BY <2>1, <2>2 DEF MarksOK
  <2>4. ASSUME consumers[1] = "strategy", NEW i \in Instruments PROVE Marked(i)'
    <3>1. Marked(i)
      BY <2>4 DEF MarksOK
    <3>2. PositionOf(i)' = PositionOf(i)
      BY <2>1 DEF PositionOf
    <3>3. HeldAt(i)' = HeldAt(i) /\ PositionOf(i)'.lastPrice = PositionOf(i).lastPrice
      BY <3>2, SamePosition
    <3> QED
      BY <2>1, <2>3, <3>1, <3>3 DEF Marked
  <2> QED
    BY <1>0, <2>1, <2>3, <2>4 DEF MarksOK
<1> QED
  BY <1>3, <1>4, <1>6, <1>7, <1>8, <1>9, <1>10, <1>11
  DEF StrategyNext, Strategy, Positions, Replay

\* With the strategy called first, a day's P&L values what is open at the price of the
\* last tick, though a tick that opens a position finds none to set the price of.
THEOREM ValuedAtLastTick == StrategySpec => []MarkedAtLastTick
<1>1. StrategyInv /\ MarksOK => MarkedAtLastTick
  <2> SUFFICES ASSUME StrategyInv, MarksOK, consumers[1] = "strategy", pc = "between",
                      NEW i \in DOMAIN positions, BrokerLong(i) + BrokerShort(i) > 0
               PROVE  positions[i].lastPrice = marked[i]
    BY DEF MarkedAtLastTick
  <2>1. i \in Instruments
    BY BooksParts DEF StrategyInv, IInv, PositionsOK
  <2>2. HeldAt(i) > 0
    BY BrokerSides DEF StrategyInv, HeldAt
  <2>3. Marked(i)
    BY <2>1 DEF MarksOK
  <2> QED
    BY <2>2, <2>3 DEF Marked, PositionOf
<1> QED
  BY <1>1, StrategyInvInit, StrategyInvStep, MarksInit, MarksStep, PTL DEF StrategySpec

-----------------------------------------------------------------------------
(* The two columns of the result.                                          *)

\* What the strategy's book realized, less what its entries still cost.
OwnBook(b, mult) == b.pnl + mult * (b.cum_short - b.cum_long)

\* What a book holds of a side it entered at one price.
AtOnePrice(b) == /\ \E p \in Nat : b.cum_long = p * b.long
                 /\ \E p \in Nat : b.cum_short = p * b.short

LEMMA AveragePrice ==
  ASSUME NEW p \in Nat, NEW n \in Nat \ {0}
  PROVE  (p * n) \div n = p
<1>1. PICK x, y : x = (p * n) \div n /\ y = p * n
  OBVIOUS
<1>2. x \in Int /\ n * x <= y /\ y < n * x + n
  BY <1>1
<1>3. n * x <= n * p /\ n * p < n * (x + 1)
  BY <1>1, <1>2
<1>4. ~(x < p)
  <2> SUFFICES ASSUME x < p PROVE FALSE
    OBVIOUS
  <2>1. PICK d : d = p - (x + 1)
    OBVIOUS
  <2>2. d \in Nat /\ p = (x + 1) + d
    BY <1>2, <2>1
  <2>3. n * p = n * (x + 1) + n * d /\ n * d \in Nat /\ n * (x + 1) \in Int
    BY <1>2, <2>2, TimesDifference
  <2> QED
    BY <1>3, <2>3
<1>5. ~(p < x)
  <2> SUFFICES ASSUME p < x PROVE FALSE
    OBVIOUS
  <2>1. PICK d : d = x - (p + 1)
    OBVIOUS
  <2>2. d \in Nat /\ x = p + 1 + d
    BY <1>2, <2>1
  <2>3. n * x = n * p + n * (1 + d) /\ n * p \in Int
    BY <1>2, <2>2, TimesDifference
  <2>4. n * (1 + d) = n + n * d /\ n * d \in Nat
    BY <2>2
  <2> QED
    BY <1>3, <2>3, <2>4
<1> QED
  BY <1>1, <1>2, <1>4, <1>5

\* The money a request moves.
LEMMA FlowValue ==
  ASSUME NEW q \in Requests, q.type # "other", NEW n \in Int
  PROVE  /\ q.long \in BOOLEAN /\ multiplier[q.inst] \in Int /\ q.price * n \in Int
         /\ multiplier[q.inst] * (q.price * n) \in Int
         /\ FlowOf(q, n) = IF q.long THEN -(multiplier[q.inst] * (q.price * n))
                                     ELSE multiplier[q.inst] * (q.price * n)
<1>1. PICK m, p : m = multiplier[q.inst] /\ p = q.price
  OBVIOUS
<1>2. m \in Int /\ p \in Int /\ q.long \in BOOLEAN
  BY <1>1, RequestParts, MoneyAssumption
<1>3. FlowOf(q, n) = (IF q.long THEN -1 ELSE 1) * n * p * m
  BY <1>1 DEF FlowOf
<1>4. PICK z : z = p * n
  OBVIOUS
<1>5. z \in Int /\ m * z \in Int /\ z * m = m * z /\ n * p = z
  BY <1>2, <1>4, TimesDifference
<1>6. (-1) * n * p = -z /\ (-z) * m = -(m * z) /\ 1 * n * p = z
  BY <1>2, <1>5
<1> QED
  BY <1>1, <1>2, <1>3, <1>4, <1>5, <1>6

LEMMA FlowAdds ==
  ASSUME NEW q \in Requests, q.type # "other", NEW a \in Int, NEW b \in Int
  PROVE  /\ FlowOf(q, a) \in Int /\ FlowOf(q, b) \in Int
         /\ FlowOf(q, a + b) = FlowOf(q, a) + FlowOf(q, b)
<1>1. PICK m, p, x, y, c : /\ m = multiplier[q.inst] /\ p = q.price /\ x = p * a /\ y = p * b
                           /\ c = a + b
  OBVIOUS
<1>2. m \in Int /\ p \in Int /\ q.long \in BOOLEAN /\ c \in Int
  BY <1>1, RequestParts, MoneyAssumption
<1>3. x \in Int /\ y \in Int /\ p * c = x + y
  BY <1>1, <1>2, TimesDifference
<1>4. m * x \in Int /\ m * y \in Int /\ m * (p * c) = m * x + m * y
  BY <1>2, <1>3, TimesDifference
<1>5. /\ FlowOf(q, a) = IF q.long THEN -(m * x) ELSE m * x
      /\ FlowOf(q, b) = IF q.long THEN -(m * y) ELSE m * y
      /\ FlowOf(q, c) = IF q.long THEN -(m * (p * c)) ELSE m * (p * c)
  BY <1>1, <1>2, FlowValue
<1> QED
  BY <1>1, <1>2, <1>4, <1>5

LEMMA NoFlow ==
  ASSUME NEW q \in Requests, q.type # "other"
  PROVE  FlowOf(q, 0) = 0
<1>1. PICK z : z = 0
  OBVIOUS
<1>2. z \in Int /\ z + z = z
  BY <1>1
<1>3. FlowOf(q, z) \in Int /\ FlowOf(q, z + z) = FlowOf(q, z) + FlowOf(q, z)
  BY <1>2, FlowAdds
<1>4. PICK f : f = FlowOf(q, z)
  OBVIOUS
<1>5. f \in Int /\ f = f + f
  BY <1>2, <1>3, <1>4
<1>6. f = 0
  BY <1>5
<1> QED
  BY <1>1, <1>4, <1>6

\* The number of trades a trade counts.
LEMMA TradeCounted ==
  ASSUME NEW pos \in CPositions, NEW trade \in TradeInfos, NEW mult \in Int
  PROVE  addTrade(pos, trade, mult).tradeCount
           = pos.tradeCount + (IF trade.open THEN trade.qty ELSE 0)
<1>1. PICK new : new = addTrade(pos, trade, mult)
  OBVIOUS
<1>2. pos.tradeCount \in Int /\ pos = [LongToday |-> pos.LongToday, LongYst |-> pos.LongYst,
        ShortToday |-> pos.ShortToday, ShortYst |-> pos.ShortYst, lastPrice |-> pos.lastPrice,
        realizedPnL |-> pos.realizedPnL, tradeCount |-> pos.tradeCount]
  BY DEF CPositions
<1>3. CASE trade.open
  <2>1. PICK type, q, t : /\ type = OpenQueue(trade) /\ t = pos.tradeCount + trade.qty
                          /\ q = Append(pos[type], Item(trade.price, trade.qty))
    OBVIOUS
  <2>2. type \in PositionTypes
    BY <2>1, TradeQueues
  <2>3. new = [pos EXCEPT ![type] = q, !.tradeCount = t]
    BY <1>1, <1>3, <2>1, <2>2 DEF addTrade, PositionTypes
  <2>4. new.tradeCount = t
    BY <2>2, <2>3 DEF PositionTypes, CPositions
  <2> QED
    BY <1>1, <1>3, <2>1, <2>4
<1>4. CASE ~trade.open
  <2>1. PICK type, q, r : /\ type = CloseQueue(trade)
                          /\ q = tradeMatchPos(trade, pos[type]).kept
                          /\ r = pos.realizedPnL + mult * tradeMatchPos(trade, pos[type]).realized
    OBVIOUS
  <2>2. type \in PositionTypes
    BY <2>1, TradeQueues
  <2>3. new = [pos EXCEPT ![type] = q, !.realizedPnL = r]
    BY <1>1, <1>4, <2>1, <2>2 DEF addTrade, PositionTypes
  <2>4. new.tradeCount = pos.tradeCount
    BY <2>2, <2>3 DEF PositionTypes, CPositions
  <2> QED
    BY <1>1, <1>2, <1>4, <2>4
<1> QED
  BY <1>3, <1>4

\* A position that holds nothing costs nothing.
LEMMA NothingCosts ==
  ASSUME NEW q \in Queues, SumQty(q) = 0
  PROVE  SumValue(q) = 0
<1>1. PICK w, n : w = Qtys(q) /\ n = Len(q)
  OBVIOUS
<1>2. w \in Seq(Nat) /\ Len(w) = n /\ n \in Nat
      /\ \A k \in 1 .. n : w[k] = q[k].qty /\ q[k].qty \in Nat \ {0}
  <2>1. w \in Seq(Nat) /\ n \in Nat /\ Len(w) = n
    BY <1>1, QueueNumbers DEF Queues
  <2>2. \A k \in 1 .. n : q[k] \in Items
    BY <1>1 DEF Queues
  <2> QED
    BY <1>1, <2>1, <2>2 DEF Qtys, Items
<1>3. Total(w) = 0
  BY <1>1, SumQtyIsTotal
<1>4. \A k \in 1 .. n : w[k] <= 0
  BY <1>2, <1>3, TotalOfNats
<1>5. n = 0
  <2> SUFFICES ASSUME n # 0 PROVE FALSE
    OBVIOUS
  <2>1. 1 \in 1 .. n
    BY <1>2
  <2> QED
    BY <1>2, <1>4, <2>1
<1>6. q = <<>>
  <2>1. q \in Seq(Items) /\ Len(q) = 0
    BY <1>1, <1>5 DEF Queues
  <2> QED
    BY <2>1
<1> QED
  BY <1>6, EmptyQueueSums

LEMMA NothingHeld ==
  ASSUME NEW pos \in CPositions, SideQty(pos, "long") = 0, SideQty(pos, "short") = 0,
         NEW mult \in Int
  PROVE  /\ Book(pos, mult) = pos.realizedPnL /\ getPositionPnl(pos, mult) = pos.realizedPnL
         /\ \A type \in PositionTypes : SumQty(pos[type]) = 0
<1>1. \A type \in PositionTypes : pos[type] \in Queues /\ SumQty(pos[type]) \in Nat
  BY QueueOfType, QueueSums
<1>2. /\ SumQty(pos["LongToday"]) \in Nat /\ SumQty(pos["LongYst"]) \in Nat
      /\ SumQty(pos["ShortToday"]) \in Nat /\ SumQty(pos["ShortYst"]) \in Nat
  BY <1>1 DEF PositionTypes
<1>3. /\ SumQty(pos["LongToday"]) = 0 /\ SumQty(pos["LongYst"]) = 0
      /\ SumQty(pos["ShortToday"]) = 0 /\ SumQty(pos["ShortYst"]) = 0
  BY <1>2 DEF SideQty
<1>4. \A type \in PositionTypes : SumQty(pos[type]) = 0
  BY <1>3 DEF PositionTypes
<1>5. /\ SumValue(pos["LongToday"]) = 0 /\ SumValue(pos["LongYst"]) = 0
      /\ SumValue(pos["ShortToday"]) = 0 /\ SumValue(pos["ShortYst"]) = 0
  BY <1>1, <1>4, NothingCosts DEF PositionTypes
<1>6. mult * 0 = 0 /\ pos.realizedPnL \in Int /\ pos.lastPrice * 0 = 0
  BY DEF CPositions
<1>7. Book(pos, mult) = pos.realizedPnL
  <2>1. Book(pos, mult) = pos.realizedPnL + mult * ((0 + 0) - (0 + 0))
    BY <1>5, BookParts
  <2> QED
    BY <1>6, <2>1
<1>8. getPositionPnl(pos, mult) = pos.realizedPnL
  <2>1. /\ pos.LongToday = pos["LongToday"] /\ pos.LongYst = pos["LongYst"]
        /\ pos.ShortToday = pos["ShortToday"] /\ pos.ShortYst = pos["ShortYst"]
        /\ pos.LongToday \in Queues /\ pos.LongYst \in Queues
        /\ pos.ShortToday \in Queues /\ pos.ShortYst \in Queues
    BY DEF CPositions
  <2>2. /\ SumQty(pos.LongToday \o pos.LongYst) = 0 /\ SumValue(pos.LongToday \o pos.LongYst) = 0
        /\ SumQty(pos.ShortToday \o pos.ShortYst) = 0 /\ SumValue(pos.ShortToday \o pos.ShortYst) = 0
    BY <1>3, <1>5, <2>1, ConcatQueueSums
  <2>3. getPositionPnl(pos, mult)
          = pos.realizedPnL + mult * ((pos.lastPrice * 0 - 0) + (0 - pos.lastPrice * 0))
    BY <2>2 DEF getPositionPnl, OpenPnl
  <2> QED
    BY <1>6, <2>3
<1> QED
  BY <1>4, <1>7, <1>8

\* The money of an entry, and of an exit at whatever average price.
LEMMA EntryMoney ==
  ASSUME NEW m \in Int, NEW d \in Int, NEW z \in Int
  PROVE  m * (d - z) = m * d - m * z /\ m * (d + z) = m * d + m * z /\ m * z \in Int /\ m * d \in Int
BY TimesDifference

LEMMA ExitMoney ==
  ASSUME NEW m \in Int, NEW n \in Int, NEW a \in Int, NEW p \in Int, NEW d \in Int
  PROVE  /\ n * (a - p) * m + m * (d - a * n) = m * d - m * (p * n)
         /\ n * (p - a) * m + m * (d + a * n) = m * d + m * (p * n)
         /\ m * d \in Int /\ m * (p * n) \in Int
         /\ n * (a - p) * m \in Int /\ n * (p - a) * m \in Int
         /\ m * (d - a * n) \in Int /\ m * (d + a * n) \in Int
<1>1. PICK x, y, u, v : x = a * n /\ y = p * n /\ u = n * (a - p) /\ v = n * (p - a)
  OBVIOUS
<1>2. x \in Int /\ y \in Int /\ u = x - y /\ v = y - x
  <2>1. n * a = x /\ n * p = y /\ x \in Int /\ y \in Int
    BY <1>1, TimesDifference
  <2> QED
    BY <1>1, <2>1, TimesDifference
<1>3. u \in Int /\ v \in Int /\ u * m = m * u /\ v * m = m * v
  BY <1>2, TimesDifference
<1>4. m * u = m * x - m * y /\ m * v = m * y - m * x /\ m * x \in Int /\ m * y \in Int
  BY <1>2, TimesDifference
<1>5. m * (d - x) = m * d - m * x /\ m * (d + x) = m * d + m * x /\ m * d \in Int
  BY <1>2, TimesDifference
<1>6. /\ u * m + m * (d - x) = m * d - m * y /\ v * m + m * (d + x) = m * d + m * y
      /\ u * m \in Int /\ v * m \in Int /\ m * (d - x) \in Int /\ m * (d + x) \in Int
  BY <1>3, <1>4, <1>5
<1> QED
  BY <1>1, <1>4, <1>5, <1>6

\* The price of what is left of a side.
LEMMA LeftAtPrice ==
  ASSUME NEW p \in Nat, NEW s \in Nat, NEW n \in Nat \ {0}, n <= s, NEW cum, cum = p * s
  PROVE  /\ cum \div s = p /\ cum - (cum \div s) * n = p * (s - n)
<1>1. s \in Nat \ {0}
  OBVIOUS
<1>2. cum \div s = p
  BY <1>1, AveragePrice
<1>3. p * (s - n) = p * s - p * n
  BY TimesDifference
<1> QED
  BY <1>2, <1>3

LEMMA OwnBooked ==
  ASSUME NEW b \in Books, NEW q \in Requests, q.type = "future", NEW mult \in Nat,
         mult = multiplier[q.inst], AtOnePrice(b),
         q.open /\ q.long   => b.long = 0,
         q.open /\ ~q.long  => b.short = 0,
         ~q.open /\ q.long  => q.qty <= b.short,
         ~q.open /\ ~q.long => q.qty <= b.long,
         NEW c, c = Booked(b, q, mult)
  PROVE  /\ OwnBook(b, mult) \in Int
         /\ OwnBook(c, mult) = OwnBook(b, mult) + FlowOf(q, q.qty)
         /\ AtOnePrice(c)
         /\ c.trades = b.trades + (IF q.open THEN q.qty ELSE 0)
<1>1. /\ b.long \in Nat /\ b.short \in Nat /\ b.cum_long \in Int /\ b.cum_short \in Int
      /\ b.opp \in Int /\ b.pnl \in Int /\ b.trades \in Nat
      /\ b = [long |-> b.long, short |-> b.short, cum_long |-> b.cum_long,
              cum_short |-> b.cum_short, opp |-> b.opp, pnl |-> b.pnl, trades |-> b.trades]
  BY DEF Books
<1>2. q.long \in BOOLEAN /\ q.open \in BOOLEAN /\ q.qty \in Nat \ {0} /\ q.price \in Nat
  BY RequestParts, QuantityAssumption
<1>3. PICK n, p, z, cl, cs, d, r :
        /\ n = q.qty /\ p = q.price /\ z = p * n /\ cl = b.cum_long /\ cs = b.cum_short
        /\ d = cs - cl /\ r = b.pnl
  OBVIOUS
<1>4. /\ n \in Nat \ {0} /\ p \in Nat /\ z \in Int /\ cl \in Int /\ cs \in Int /\ d \in Int
      /\ r \in Int /\ z \in Nat
  BY <1>1, <1>2, <1>3
<1>5. OwnBook(b, mult) = r + mult * d /\ mult * d \in Int /\ mult * z \in Int
  BY <1>3, <1>4, TimesDifference DEF OwnBook
<1>6. FlowOf(q, n) = IF q.long THEN -(mult * z) ELSE mult * z
  BY <1>3, <1>4, FlowValue
<1>7. PICK u \in Nat, v \in Nat : cl = u * b.long /\ cs = v * b.short
  BY <1>3 DEF AtOnePrice
<1>8. CASE q.open /\ q.long
  <2>1. c = [b EXCEPT !.long = @ + n, !.cum_long = @ + z, !.trades = @ + n]
    BY <1>3, <1>8 DEF Booked, Entered
  <2>2. /\ c.long = n /\ c.cum_long = cl + z /\ c.trades = b.trades + n
        /\ c.short = b.short /\ c.cum_short = cs /\ c.pnl = r
    BY <1>1, <1>3, <1>4, <1>8, <2>1
  <2>3. cl = 0
    BY <1>7, <1>8
  <2>4. OwnBook(c, mult) = r + mult * (d - z)
    <3>1. cs - (cl + z) = d - z
      BY <1>3, <1>4
    <3> QED
      BY <2>2, <3>1 DEF OwnBook
  <2>5. mult * (d - z) = mult * d - mult * z
    BY <1>4, EntryMoney
  <2>6. c.cum_long = p * c.long
    BY <1>3, <1>4, <2>2, <2>3
  <2>7. AtOnePrice(c)
    BY <1>4, <1>7, <2>2, <2>6 DEF AtOnePrice
  <2> QED
    BY <1>3, <1>4, <1>5, <1>6, <1>8, <2>2, <2>4, <2>5, <2>7
<1>9. CASE q.open /\ ~q.long
  <2>1. c = [b EXCEPT !.short = @ + n, !.cum_short = @ + z, !.trades = @ + n]
    BY <1>3, <1>9 DEF Booked, Entered
  <2>2. /\ c.short = n /\ c.cum_short = cs + z /\ c.trades = b.trades + n
        /\ c.long = b.long /\ c.cum_long = cl /\ c.pnl = r
    BY <1>1, <1>3, <1>4, <1>9, <2>1
  <2>3. cs = 0
    BY <1>7, <1>9
  <2>4. OwnBook(c, mult) = r + mult * (d + z)
    <3>1. (cs + z) - cl = d + z
      BY <1>3, <1>4
    <3> QED
      BY <2>2, <3>1 DEF OwnBook
  <2>5. mult * (d + z) = mult * d + mult * z
    BY <1>4, EntryMoney
  <2>6. c.cum_short = p * c.short
    BY <1>3, <1>4, <2>2, <2>3
  <2>7. AtOnePrice(c)
    BY <1>4, <1>7, <2>2, <2>6 DEF AtOnePrice
  <2> QED
    BY <1>3, <1>4, <1>5, <1>6, <1>9, <2>2, <2>4, <2>5, <2>7
<1>10. CASE ~q.open /\ q.long
  <2>1. PICK a : a = cs \div b.short
    OBVIOUS
  <2>2. a = v /\ cs - a * n = v * (b.short - n) /\ b.short - n \in Nat
    <3>1. n <= b.short
      BY <1>3, <1>10
    <3>2. cs \div b.short = v /\ cs - (cs \div b.short) * n = v * (b.short - n)
      BY <1>1, <1>4, <1>7, <3>1, LeftAtPrice
    <3> QED
      BY <1>1, <1>4, <2>1, <3>1, <3>2
  <2>3. PICK w, x : w = n * (a - p) * mult /\ x = a * n
    OBVIOUS
  <2>4. c = [b EXCEPT !.short = @ - n, !.cum_short = @ - x, !.pnl = @ + w]
    BY <1>3, <1>10, <2>1, <2>3 DEF Booked, Exited
  <2>5. /\ c.short = b.short - n /\ c.cum_short = cs - x /\ c.pnl = r + w
        /\ c.long = b.long /\ c.cum_long = cl /\ c.trades = b.trades
    BY <1>1, <1>3, <2>4
  <2>6. /\ w + mult * (d - x) = mult * d - mult * z /\ w \in Int /\ mult * (d - x) \in Int
    BY <1>3, <1>4, <2>2, <2>3, ExitMoney
  <2>7. OwnBook(c, mult) = (r + w) + mult * (d - x)
    <3>1. x \in Int
      BY <1>4, <2>2, <2>3
    <3>2. (cs - x) - cl = d - x
      BY <1>3, <1>4, <3>1
    <3> QED
      BY <2>5, <3>2 DEF OwnBook
  <2>8. AtOnePrice(c)
    BY <1>4, <1>7, <2>2, <2>3, <2>5 DEF AtOnePrice
  <2>9. PICK e, f, g : e = mult * d /\ f = mult * z /\ g = mult * (d - x)
    OBVIOUS
  <2>10. OwnBook(c, mult) = OwnBook(b, mult) + FlowOf(q, q.qty)
    <3>1. OwnBook(c, mult) = (r + w) + g /\ w + g = e - f /\ OwnBook(b, mult) = r + e
      BY <1>5, <2>6, <2>7, <2>9
    <3>2. FlowOf(q, q.qty) = -f
      BY <1>3, <1>6, <1>10, <2>9
    <3>3. e \in Int /\ f \in Int /\ g \in Int /\ w \in Int
      BY <1>5, <2>6, <2>9
    <3> QED
      BY <1>4, <3>1, <3>2, <3>3
  <2> QED
    BY <1>1, <1>4, <1>5, <1>10, <2>5, <2>8, <2>10
<1>11. CASE ~q.open /\ ~q.long
  <2>1. PICK a : a = cl \div b.long
    OBVIOUS
  <2>2. a = u /\ cl - a * n = u * (b.long - n) /\ b.long - n \in Nat
    <3>1. n <= b.long
      BY <1>3, <1>11
    <3>2. cl \div b.long = u /\ cl - (cl \div b.long) * n = u * (b.long - n)
      BY <1>1, <1>4, <1>7, <3>1, LeftAtPrice
    <3> QED
      BY <1>1, <1>4, <2>1, <3>1, <3>2
  <2>3. PICK w, x : w = n * (p - a) * mult /\ x = a * n
    OBVIOUS
  <2>4. c = [b EXCEPT !.long = @ - n, !.cum_long = @ - x, !.pnl = @ + w]
    BY <1>3, <1>11, <2>1, <2>3 DEF Booked, Exited
  <2>5. /\ c.long = b.long - n /\ c.cum_long = cl - x /\ c.pnl = r + w
        /\ c.short = b.short /\ c.cum_short = cs /\ c.trades = b.trades
    BY <1>1, <1>3, <2>4
  <2>6. /\ w + mult * (d + x) = mult * d + mult * z /\ w \in Int /\ mult * (d + x) \in Int
    BY <1>3, <1>4, <2>2, <2>3, ExitMoney
  <2>7. OwnBook(c, mult) = (r + w) + mult * (d + x)
    <3>1. x \in Int
      BY <1>4, <2>2, <2>3
    <3>2. cs - (cl - x) = d + x
      BY <1>3, <1>4, <3>1
    <3> QED
      BY <2>5, <3>2 DEF OwnBook
  <2>8. AtOnePrice(c)
    BY <1>4, <1>7, <2>2, <2>3, <2>5 DEF AtOnePrice
  <2>9. PICK e, f, g : e = mult * d /\ f = mult * z /\ g = mult * (d + x)
    OBVIOUS
  <2>10. OwnBook(c, mult) = OwnBook(b, mult) + FlowOf(q, q.qty)
    <3>1. OwnBook(c, mult) = (r + w) + g /\ w + g = e + f /\ OwnBook(b, mult) = r + e
      BY <1>5, <2>6, <2>7, <2>9
    <3>2. FlowOf(q, q.qty) = f
      BY <1>3, <1>6, <1>11, <2>9
    <3>3. e \in Int /\ f \in Int /\ g \in Int /\ w \in Int
      BY <1>5, <2>6, <2>9
    <3> QED
      BY <1>4, <3>1, <3>2, <3>3
  <2> QED
    BY <1>1, <1>4, <1>5, <1>11, <2>5, <2>8, <2>10
<1> QED
  BY <1>2, <1>8, <1>9, <1>10, <1>11

\* What the request under way has moved already that the book does not count.
MovedMoney(i)  == IF sent /\ i = tick.inst THEN FlowOf(Request, Request.qty - Pending) ELSE 0
MovedTrades(i) == IF sent /\ i = tick.inst /\ Request.open THEN Request.qty - Pending ELSE 0

\* Nothing is held or forgotten of a day that began flat, before the first tick.
CleanAt(i) ==
  clean[i] => /\ orphaned[i].long = 0 /\ orphaned[i].short = 0
              /\ pc = "onStartDay" => book[i].long = 0 /\ book[i].short = 0

\* The counts and, on a day that began flat, the money of a position and of a book agree
\* up to what the book does not count yet.
AgreeWith(pos, b, flat, mult, trades, money) ==
  /\ pos.tradeCount = b.trades + trades
  /\ flat => Book(pos, mult) = OwnBook(b, mult) + money

OwnReset(b, flat, mult)   == b.trades = 0 /\ (flat => OwnBook(b, mult) = 0)
PositionReset(pos, flat, mult) == pos.tradeCount = 0 /\ (flat => Book(pos, mult) = 0)

InDay      == pc \in {"ticks", "onMarketData", "onEndDay"}
Started(c) == pc = "onStartDay" /\ turn = 2 /\ consumers[1] = c

ColumnsAt(i) ==
  /\ InDay => AgreeWith(PositionOf(i), book[i], clean[i], multiplier[i], MovedTrades(i), MovedMoney(i))
  /\ Started("strategy")  => OwnReset(book[i], clean[i], multiplier[i])
  /\ Started("positions") => PositionReset(PositionOf(i), clean[i], multiplier[i])

\* The line of the day, once it is written.
Logged == pc = "between" \/ (pc = "onEndDay" /\ turn = 2 /\ consumers[1] = "strategy")

LineAgrees(line, b, flat) ==
  /\ line.trade0 = line.trade
  /\ flat /\ b.long + b.short = 0 => line.pnl0 = line.pnl

LineAt(i) == Logged => LineAgrees(logged[i], book[i], clean[i])

ColumnsOK(i) == AtOnePrice(book[i]) /\ CleanAt(i) /\ ColumnsAt(i) /\ LineAt(i)

\* The same, of the next state.
LEMMA ColumnsNext ==
  ASSUME NEW i, NEW pos, pos = PositionOf(i)', NEW b, b = book'[i], NEW flat, flat <=> clean'[i],
         NEW n, n = MovedTrades(i)', NEW m, m = MovedMoney(i)', NEW mult, mult = multiplier[i],
         InDay' => AgreeWith(pos, b, flat, mult, n, m),
         Started("strategy")'  => OwnReset(b, flat, mult),
         Started("positions")' => PositionReset(pos, flat, mult)
  PROVE  ColumnsAt(i)'
BY DEF ColumnsAt, AgreeWith, OwnReset, PositionReset, Book, OwnBook

\* What ColumnsOK says of books that change no more.
LEMMA SameBook ==
  ASSUME NEW i, ColumnsOK(i), UNCHANGED <<book, clean, orphaned>>,
         pc' = "onStartDay" => pc = "onStartDay"
  PROVE  AtOnePrice(book[i])' /\ CleanAt(i)'
BY DEF ColumnsOK, AtOnePrice, CleanAt

LEMMA SameLine ==
  ASSUME NEW i, ColumnsOK(i), UNCHANGED <<book, clean, logged>>, Logged' => Logged
  PROVE  LineAt(i)'
BY DEF ColumnsOK, LineAt, LineAgrees

\* The types of the numbers they relate.
LEMMA ColumnTypes ==
  ASSUME StrategyInv, NEW i \in Instruments
  PROVE  /\ PositionOf(i) \in CPositions /\ book[i] \in Books /\ multiplier[i] \in Nat
         /\ PositionOf(i).tradeCount \in Int /\ book[i].trades \in Nat
         /\ Book(PositionOf(i), multiplier[i]) \in Int /\ OwnBook(book[i], multiplier[i]) \in Int
<1>1. PositionOf(i) \in CPositions
  BY PositionOfType DEF StrategyInv, IInv
<1>2. book[i] \in Books
  BY DEF StrategyInv, StrategyTypeOK
<1>3. multiplier[i] \in Nat /\ multiplier[i] \in Int
  BY MultiplierAssumption
<1>4. Book(PositionOf(i), multiplier[i]) \in Int
  BY <1>1, <1>3, BookParts
<1>5. /\ book[i].pnl \in Int /\ book[i].cum_long \in Int /\ book[i].cum_short \in Int
      /\ book[i].trades \in Nat
  BY <1>2 DEF Books
<1>6. PICK d, m : d = book[i].cum_short - book[i].cum_long /\ m = multiplier[i]
  OBVIOUS
<1>7. d \in Int /\ m \in Int
  BY <1>3, <1>5, <1>6
<1>8. m * d \in Int
  BY <1>7, TimesDifference
<1>9. OwnBook(book[i], multiplier[i]) \in Int
  BY <1>5, <1>6, <1>8 DEF OwnBook
<1>10. PositionOf(i).tradeCount \in Int
  BY <1>1 DEF CPositions
<1> QED
  BY <1>1, <1>2, <1>3, <1>4, <1>5, <1>9, <1>10

\* Nothing is moved yet when nothing is sent.
LEMMA NoneMoved ==
  ASSUME NEW i
  PROVE  /\ ~sent  => MovedMoney(i) = 0 /\ MovedTrades(i) = 0
         /\ ~sent' => MovedMoney(i)' = 0 /\ MovedTrades(i)' = 0
BY DEF MovedMoney, MovedTrades

-----------------------------------------------------------------------------
(* In a tick.                                                              *)

\* A fill counts in the position what the book will.
LEMMA FillColumns ==
  ASSUME StrategyInv, FillOrder, UNCHANGED strategyVars, NEW i \in Instruments, ColumnsOK(i)
  PROVE  ColumnsOK(i)'
<1>1. UNCHANGED <<pc, turn, consumers, para, tick, book, step, sent, orphaned, clean, logged>>
  BY DEF strategyVars, replayVars, propertyVars
<1>2. calls # <<>> /\ sent
  BY DEF FillOrder, Calling, StrategyInv
<1>3. /\ Request.type = "future" /\ Request.inst = tick.inst /\ tick.inst \in Instruments
      /\ Request.open \in BOOLEAN /\ Request.qty \in Nat /\ step > 0
      /\ step \in 1 .. LastStep - 1
  BY <1>2, SentParts DEF StrategyInv
<1>4. Request \in Requests
  BY <1>2, <1>3, SentRequest DEF StrategyInv, SentTraded, Request
<1>5. /\ Pending \in Nat /\ FillTrade.qty \in Nat /\ Pending' = Pending - FillTrade.qty
      /\ FillTrade \in TradeInfos /\ FillPos \in CPositions /\ Unmatched(FillPos, FillTrade) = 0
      /\ (FillTrade.open <=> Request.open) /\ FillTrade.long = Request.long
      /\ IsUpdated(positions', positions, Request.inst,
                   addTrade(FillPos, FillTrade, multiplier[Request.inst]))
      /\ FillPos = PositionOf(Request.inst)
  BY <1>3, FillCalling DEF StrategyInv
<1>6. Request' = Request
  BY <1>1, SameRequestSent
<1>7. pc = "onMarketData"
  BY <1>2, OrderInTick DEF StrategyInv
<1>8. FillTrade.price = Request.price
  <2>1. Call = calls[1] /\ calls[1].request = Request
    BY <1>2, CallingParts DEF StrategyInv
  <2>2. FillTrade.price = Call.request.price
    BY <1>2, FillParts DEF StrategyInv, IInv
  <2> QED
    BY <2>1, <2>2
<1>9. AtOnePrice(book[i])' /\ CleanAt(i)' /\ LineAt(i)'
  BY <1>1, SameBook, SameLine DEF Logged
<1>10. PICK pos, b, flat, mult, n, m :
         /\ pos = PositionOf(i) /\ b = book[i] /\ (flat <=> clean[i]) /\ mult = multiplier[i]
         /\ n = MovedTrades(i) /\ m = MovedMoney(i)
  OBVIOUS
<1>11. AgreeWith(pos, b, flat, mult, n, m)
  BY <1>7, <1>10 DEF ColumnsOK, ColumnsAt, InDay, AgreeWith
<1>12. PICK new, n1, m1 : new = PositionOf(i)' /\ n1 = MovedTrades(i)' /\ m1 = MovedMoney(i)'
  OBVIOUS
<1>13. /\ n1 = IF i = tick.inst /\ Request.open THEN Request.qty - Pending' ELSE 0
       /\ m1 = IF i = tick.inst THEN FlowOf(Request, Request.qty - Pending') ELSE 0
  <2>1. /\ n1 = IF sent' /\ i = tick'.inst /\ Request'.open THEN Request'.qty - Pending' ELSE 0
        /\ m1 = IF sent' /\ i = tick'.inst THEN FlowOf(Request', Request'.qty - Pending') ELSE 0
    BY <1>12 DEF MovedMoney, MovedTrades, FlowOf
  <2> QED
    BY <1>1, <1>2, <1>6, <2>1
<1>14. AgreeWith(new, b, flat, mult, n1, m1)
  <2>1. CASE i # tick.inst
    <3>1. new = pos
      BY <1>3, <1>5, <1>10, <1>12, <2>1 DEF IsUpdated, PositionOf
    <3>2. n1 = 0 /\ m1 = 0 /\ n = 0 /\ m = 0
      BY <1>10, <1>13, <2>1 DEF MovedMoney, MovedTrades
    <3> QED
      BY <1>11, <3>1, <3>2
  <2>2. CASE i = tick.inst
    <3>1. PICK q, t, p, x : q = Request /\ t = FillTrade /\ p = Pending /\ x = t.qty
      OBVIOUS
    <3>2. new = addTrade(pos, t, mult) /\ pos \in CPositions /\ t \in TradeInfos
          /\ Unmatched(pos, t) = 0
      BY <1>3, <1>5, <1>10, <1>12, <2>2, <3>1 DEF IsUpdated, PositionOf
    <3>3. mult \in Int /\ pos.tradeCount \in Int /\ b.trades \in Nat
          /\ Book(pos, mult) \in Int /\ OwnBook(b, mult) \in Int
      BY <1>10, ColumnTypes
    <3>4. new.tradeCount = pos.tradeCount + (IF t.open THEN x ELSE 0)
      BY <3>1, <3>2, <3>3, TradeCounted
    <3>5. Book(new, mult) = Book(pos, mult) + mult * Paid(t)
      BY <3>2, <3>3, AddTradeBooks
    <3>6. q \in Requests /\ q.type # "other" /\ x \in Nat /\ p \in Nat /\ q.qty \in Nat
          /\ mult = multiplier[q.inst] /\ q.open \in BOOLEAN /\ (t.open <=> q.open)
      BY <1>3, <1>4, <1>5, <1>10, <2>2, <3>1
    <3>7. FlowOf(q, x) = mult * Paid(t)
      <4>1. t.long = q.long /\ t.price = q.price /\ t.qty = x
        BY <1>5, <1>8, <3>1
      <4> QED
        BY <3>2, <3>6, <4>1, FlowParts
    <3>8. PICK y, z : y = q.qty - p /\ z = q.qty - Pending'
      OBVIOUS
    <3>9. y \in Int /\ z = y + x
      BY <1>5, <3>1, <3>6, <3>8
    <3>10. FlowOf(q, z) = FlowOf(q, y) + FlowOf(q, x) /\ FlowOf(q, y) \in Int /\ FlowOf(q, x) \in Int
      BY <3>6, <3>9, FlowAdds
    <3>11. m = FlowOf(q, y) /\ m1 = FlowOf(q, z)
           /\ n = (IF q.open THEN y ELSE 0) /\ n1 = (IF q.open THEN z ELSE 0)
      BY <1>2, <1>10, <1>13, <2>2, <3>1, <3>8 DEF MovedMoney, MovedTrades
    <3>12. new.tradeCount = b.trades + n1
      BY <1>11, <3>3, <3>4, <3>6, <3>9, <3>11 DEF AgreeWith
    <3>13. flat => Book(new, mult) = OwnBook(b, mult) + m1
      <4> SUFFICES ASSUME flat PROVE Book(new, mult) = OwnBook(b, mult) + m1
        OBVIOUS
      <4>1. Book(pos, mult) = OwnBook(b, mult) + m
        BY <1>11 DEF AgreeWith
      <4>2. PICK f, g, o : f = FlowOf(q, y) /\ g = FlowOf(q, x) /\ o = OwnBook(b, mult)
        OBVIOUS
      <4>3. Book(new, mult) = (o + f) + g /\ m1 = f + g
        BY <3>5, <3>7, <3>10, <3>11, <4>1, <4>2
      <4> QED
        BY <3>3, <3>10, <4>2, <4>3
    <3> QED
      BY <3>12, <3>13 DEF AgreeWith
  <2> QED
    BY <2>1, <2>2
<1>15. ColumnsAt(i)'
  <2>1. b = book'[i] /\ (flat <=> clean'[i])
    BY <1>1, <1>10
  <2>2. ~Started("strategy")' /\ ~Started("positions")'
    BY <1>1, <1>7 DEF Started
  <2> QED
    BY <1>10, <1>12, <1>14, <2>1, <2>2, ColumnsNext
<1> QED
  BY <1>9, <1>15 DEF ColumnsOK

\* The steps of a tick that change no position and no book, and leave as much to be filled.
LEMMA StillColumns ==
  ASSUME StrategyInv, NEW i \in Instruments, ColumnsOK(i),
         UNCHANGED <<book, clean, orphaned, logged>>, InDay, InDay', Logged' => Logged,
         PositionOf(i)' = PositionOf(i), MovedTrades(i)' = MovedTrades(i),
         MovedMoney(i)' = MovedMoney(i)
  PROVE  ColumnsOK(i)'
<1>1. AtOnePrice(book[i])' /\ CleanAt(i)' /\ LineAt(i)'
  BY SameBook, SameLine DEF InDay
<1>2. PICK pos, b, flat, mult, n, m :
        /\ pos = PositionOf(i) /\ b = book[i] /\ (flat <=> clean[i]) /\ mult = multiplier[i]
        /\ n = MovedTrades(i) /\ m = MovedMoney(i)
  OBVIOUS
<1>3. AgreeWith(pos, b, flat, mult, n, m)
  BY <1>2 DEF ColumnsOK, ColumnsAt, AgreeWith
<1>4. pos = PositionOf(i)' /\ b = book'[i] /\ (flat <=> clean'[i]) /\ n = MovedTrades(i)'
      /\ m = MovedMoney(i)'
  BY <1>2
<1>5. ~Started("strategy")' /\ ~Started("positions")'
  BY DEF Started, InDay
<1>6. ColumnsAt(i)'
  BY <1>2, <1>3, <1>4, <1>5, ColumnsNext
<1> QED
  BY <1>1, <1>6 DEF ColumnsOK

LEMMA CallColumns ==
  ASSUME StrategyInv, NextOrder \/ Return, UNCHANGED strategyVars, NEW i \in Instruments, ColumnsOK(i)
  PROVE  ColumnsOK(i)'
<1>1. UNCHANGED <<pc, turn, consumers, para, tick, book, step, sent, orphaned, clean, logged>>
  BY DEF strategyVars, replayVars, propertyVars
<1>2. calls # <<>> /\ sent
  BY DEF NextOrder, Return, Calling, StrategyInv
<1>3. pc = "onMarketData"
  BY <1>2, OrderInTick DEF StrategyInv
<1>4. Request' = Request
  BY <1>1, SameRequestSent
<1>5. positions' = positions /\ Pending' = Pending
  <2>1. CASE NextOrder
    BY <2>1, NextOrderCalling DEF StrategyInv
  <2>2. CASE Return
    <3>1. calls' = <<>> /\ Pending = 0 /\ positions' = positions
      BY <2>2, ReturnCalling DEF StrategyInv
    <3> QED
      BY <3>1 DEF Pending
  <2> QED
    BY <2>1, <2>2
<1>6. MovedTrades(i)' = MovedTrades(i) /\ MovedMoney(i)' = MovedMoney(i)
  <2>1. /\ MovedTrades(i)' = IF sent' /\ i = tick'.inst /\ Request'.open
                               THEN Request'.qty - Pending' ELSE 0
        /\ MovedMoney(i)' = IF sent' /\ i = tick'.inst
                              THEN FlowOf(Request', Request'.qty - Pending') ELSE 0
    BY DEF MovedMoney, MovedTrades, FlowOf
  <2> QED
    BY <1>1, <1>4, <1>5, <2>1 DEF MovedMoney, MovedTrades
<1>7. PositionOf(i)' = PositionOf(i)
  BY <1>5 DEF PositionOf
<1> QED
  BY <1>1, <1>3, <1>6, <1>7, StillColumns DEF InDay, Logged

LEMMA GiveColumns ==
  ASSUME StrategyInv, giveOrder, NEW i \in Instruments, ColumnsOK(i)
  PROVE  ColumnsOK(i)'
<1>1. /\ step > 0 /\ ~sent /\ sent'
      /\ UNCHANGED <<pc, turn, consumers, para, tick, book, orphaned, clean, logged>>
  BY DEF giveOrder, replayVars, propertyVars
<1>2. PICK k \in 1 .. LastStep - 1 :
        IsNextOrder(k) /\ submitRequest(RequestAt(book[tick.inst], k)) /\ step' = k
  BY DEF giveOrder
<1>3. Trades(book[tick.inst], k)
  BY <1>2 DEF IsNextOrder
<1>4. PICK q : q = RequestAt(book[tick.inst], k)
  OBVIOUS
<1>5. q \in Requests /\ q.type = "future" /\ q.qty \in Nat /\ Valid(q)
  BY <1>1, <1>3, <1>4, SentRequest, BackedValid DEF StrategyInv
<1>6. calls = <<>> /\ ~reentered
  BY <1>1 DEF Calling, StrategyInv
<1>7. calls' # <<>> /\ Remaining(1)' = q.qty /\ \A j : BookIn(positions', j) = PositionOf(j)
  BY <1>2, <1>4, <1>5, <1>6, SubmitCalling DEF StrategyInv
<1>8. Request' = q
  <2>1. Request' = RequestAt(book[tick.inst], k)'
    BY <1>2 DEF Request
  <2>2. RequestAt(book[tick.inst], k)' = RequestAt(book[tick.inst], k)
    BY <1>1, SameRequestAt DEF RequestAt, OrderQty, Held, Side, Opens
  <2> QED
    BY <1>4, <2>1, <2>2
<1>9. MovedTrades(i)' = MovedTrades(i) /\ MovedMoney(i)' = MovedMoney(i)
  <2>1. MovedTrades(i) = 0 /\ MovedMoney(i) = 0
    BY <1>1, NoneMoved
  <2>2. /\ MovedTrades(i)' = IF sent' /\ i = tick'.inst /\ Request'.open
                               THEN Request'.qty - Pending' ELSE 0
        /\ MovedMoney(i)' = IF sent' /\ i = tick'.inst
                              THEN FlowOf(Request', Request'.qty - Pending') ELSE 0
    BY DEF MovedMoney, MovedTrades, FlowOf
  <2>3. Pending' = q.qty
    BY <1>7 DEF Pending
  <2>4. q.qty - q.qty = 0 /\ q.type # "other"
    BY <1>5
  <2>5. FlowOf(q, 0) = 0
    BY <1>5, <2>4, NoFlow
  <2> QED
    BY <1>8, <2>1, <2>2, <2>3, <2>4, <2>5
<1>10. PositionOf(i)' = PositionOf(i)
  BY <1>7 DEF BookIn, PositionOf
<1>11. pc = "onMarketData"
  BY <1>1, OrderInTick DEF StrategyInv
<1> QED
  BY <1>1, <1>9, <1>10, <1>11, StillColumns DEF InDay, Logged

\* What is to be shown of a step that leads into the day, or on in it ...
LEMMA AgreeNext ==
  ASSUME NEW i, InDay', CleanAt(i)', LineAt(i)', NEW pos, pos = PositionOf(i)',
         NEW b, b = book'[i], NEW flat, flat <=> clean'[i], NEW n, n = MovedTrades(i)',
         NEW m, m = MovedMoney(i)', NEW mult, mult = multiplier[i],
         AgreeWith(pos, b, flat, mult, n, m), AtOnePrice(b)
  PROVE  ColumnsOK(i)'
<1>1. ~Started("strategy")' /\ ~Started("positions")'
  BY DEF Started, InDay
<1>2. ColumnsAt(i)'
  BY <1>1, ColumnsNext
<1> QED
  BY <1>2 DEF ColumnsOK, AtOnePrice

\* ... and out of it.
LEMMA OutsideColumns ==
  ASSUME NEW i, AtOnePrice(book[i])', CleanAt(i)', LineAt(i)', ~InDay', pc' # "onStartDay"
  PROVE  ColumnsOK(i)'
<1>1. ~Started("strategy")' /\ ~Started("positions")'
  BY DEF Started
<1>2. ColumnsAt(i)'
  BY <1>1 DEF ColumnsAt
<1> QED
  BY <1>2 DEF ColumnsOK

\* The book takes an order in as it was filled.
LEMMA BookColumns ==
  ASSUME max_pos = 1, StrategyInv, bookOrder, NEW i \in Instruments, ColumnsOK(i)
  PROVE  ColumnsOK(i)'
<1>1. /\ sent /\ calls = <<>> /\ ~sent'
      /\ UNCHANGED <<pc, turn, consumers, positions, clean, orphaned, logged>>
  BY DEF bookOrder, brokerVars, vars, replayVars
<1>2. pc = "onMarketData"
  BY <1>1, OrderInTick DEF StrategyInv
<1>3. PICK pos, b, flat, mult, n, m, c :
        /\ pos = PositionOf(i) /\ b = book[i] /\ (flat <=> clean[i]) /\ mult = multiplier[i]
        /\ n = MovedTrades(i) /\ m = MovedMoney(i) /\ c = book'[i]
  OBVIOUS
<1>4. AgreeWith(pos, b, flat, mult, n, m) /\ AtOnePrice(b)
  BY <1>2, <1>3 DEF ColumnsOK, ColumnsAt, InDay, AgreeWith
<1>5. /\ pos.tradeCount \in Int /\ b.trades \in Nat /\ OwnBook(b, mult) \in Int /\ mult \in Nat
      /\ b \in Books
  BY <1>3, ColumnTypes
<1>6. book' = [book EXCEPT ![tick.inst] = Booked(@, Request, multiplier[tick.inst])]
      /\ book \in [Instruments -> Books]
  BY DEF bookOrder, Request, StrategyInv, StrategyTypeOK
<1>7. /\ AtOnePrice(c) /\ c.trades = b.trades + n /\ OwnBook(c, mult) = OwnBook(b, mult) + m
      /\ n \in Int
  <2>1. CASE i # tick.inst
    <3>1. c = b
      BY <1>3, <1>6, <2>1
    <3>2. n = 0 /\ m = 0
      BY <1>3, <2>1 DEF MovedMoney, MovedTrades
    <3> QED
      BY <1>4, <1>5, <3>1, <3>2
  <2>2. CASE i = tick.inst
    <3>1. PICK q : q = Request
      OBVIOUS
    <3>2. c = Booked(b, q, mult)
      BY <1>3, <1>6, <2>2, <3>1
    <3>3. Trades(b, step) /\ step \in 1 .. LastStep - 1 /\ step > 0
      <4>1. step \in 1 .. LastStep - 1 /\ Trades(book[tick.inst], step)
        BY <1>1 DEF StrategyInv, StrategyTypeOK, SentTraded
      <4> QED
        BY <1>3, <2>2, <4>1
    <3>4. /\ q \in Requests /\ q.type = "future" /\ q.inst = i /\ q.qty \in Nat \ {0}
          /\ q.long \in BOOLEAN /\ q.open \in BOOLEAN
          /\ ~q.open => q.qty <= Held(b, step)
          /\ q.long = (Side(step) = "long")
      BY <1>3, <2>2, <3>1, <3>3, SentRequest DEF Request, StrategyInv
    <3>5. q.open => MayEnter(b, step)
      BY <1>1, <1>3, <2>2, <3>1, <3>2, BookedRequest DEF Request, StrategyInv
    <3>6. Side(step) = "short" \/ Side(step) = "long"
      BY DEF Side
    <3>7. b.long \in Nat /\ b.short \in Nat
      BY <1>5 DEF Books
    <3>8. /\ q.open /\ q.long   => b.long = 0
          /\ q.open /\ ~q.long  => b.short = 0
      <4>1. q.open => Held(b, step) = 0 /\ (IF Side(step) = "short" THEN b.short ELSE b.long) < 1
        BY <3>5 DEF MayEnter
      <4>2. PICK x, y : x = b.long /\ y = b.short
        OBVIOUS
      <4>3. /\ Side(step) = "short" /\ q.open => y < 1
            /\ Side(step) = "long" /\ q.open => x < 1
        BY <4>1, <4>2
      <4>4. x \in Nat /\ y \in Nat
        BY <3>7, <4>2
      <4>5. /\ q.open /\ q.long => Side(step) = "long"
            /\ q.open /\ ~q.long => Side(step) = "short"
        BY <3>4, <3>6
      <4> QED
        BY <4>2, <4>3, <4>4, <4>5
    <3>9. /\ ~q.open /\ q.long  => q.qty <= b.short
          /\ ~q.open /\ ~q.long => q.qty <= b.long
      BY <3>4, <3>6 DEF Held
    <3>10. /\ OwnBook(c, mult) = OwnBook(b, mult) + FlowOf(q, q.qty) /\ AtOnePrice(c)
           /\ c.trades = b.trades + (IF q.open THEN q.qty ELSE 0)
      <4>1. mult = multiplier[q.inst]
        BY <1>3, <3>4
      <4> QED
        BY <1>4, <1>5, <3>2, <3>4, <3>8, <3>9, <4>1, OwnBooked
    <3>11. n = (IF q.open THEN q.qty ELSE 0) /\ m = FlowOf(q, q.qty)
      <4>1. Pending = 0
        BY <1>1 DEF Pending
      <4>2. q.qty - 0 = q.qty
        BY <3>4
      <4> QED
        BY <1>1, <1>3, <2>2, <3>1, <4>1, <4>2 DEF MovedMoney, MovedTrades
    <3> QED
      BY <3>4, <3>10, <3>11
  <2> QED
    BY <2>1, <2>2
<1>8. PICK z : z = 0
  OBVIOUS
<1>9. AgreeWith(pos, c, flat, mult, z, z)
  <2>1. pos.tradeCount = c.trades + z
    BY <1>4, <1>5, <1>7, <1>8 DEF AgreeWith
  <2>2. flat => Book(pos, mult) = OwnBook(c, mult)
    BY <1>4, <1>7 DEF AgreeWith
  <2>3. Book(pos, mult) \in Int
    BY <1>3, ColumnTypes
  <2> QED
    BY <1>8, <2>1, <2>2, <2>3 DEF AgreeWith
<1>10. z = MovedTrades(i)' /\ z = MovedMoney(i)'
  BY <1>1, <1>8, NoneMoved
<1>11. pos = PositionOf(i)' /\ (flat <=> clean'[i])
  BY <1>1, <1>3 DEF PositionOf
<1>12. InDay' /\ CleanAt(i)' /\ LineAt(i)'
  BY <1>1, <1>2 DEF InDay, CleanAt, LineAt, Logged, ColumnsOK
<1> QED
  BY <1>3, <1>7, <1>9, <1>10, <1>11, <1>12, AgreeNext

\* A jump costs the own book nothing on a day that stays clean: it was flat.
LEMMA AdjustedColumns ==
  ASSUME NEW b \in Books, NEW jump \in BOOLEAN, NEW signal, AtOnePrice(b), NEW mult \in Nat,
         NEW c, c = updateOpp(Adjusted(b, jump), signal)
  PROVE  /\ AtOnePrice(c) /\ c.trades = b.trades
         /\ (jump => b.long + b.short = 0) => OwnBook(c, mult) = OwnBook(b, mult)
<1>1. PICK a : a = Adjusted(b, jump)
  OBVIOUS
<1>2. b = [long |-> b.long, short |-> b.short, cum_long |-> b.cum_long,
           cum_short |-> b.cum_short, opp |-> b.opp, pnl |-> b.pnl, trades |-> b.trades]
      /\ b.long \in Nat /\ b.short \in Nat
  BY DEF Books
<1>3. /\ a.trades = b.trades /\ a.pnl = b.pnl
      /\ ~jump => a = b
      /\ jump => a.long = 0 /\ a.short = 0 /\ a.cum_long = 0 /\ a.cum_short = 0
      /\ \E o : a = [long |-> a.long, short |-> a.short, cum_long |-> a.cum_long,
                     cum_short |-> a.cum_short, opp |-> o, pnl |-> a.pnl, trades |-> a.trades]
  BY <1>1, <1>2 DEF Adjusted
<1>4. /\ c.trades = a.trades /\ c.pnl = a.pnl /\ c.long = a.long /\ c.short = a.short
      /\ c.cum_long = a.cum_long /\ c.cum_short = a.cum_short
  BY <1>1, <1>3 DEF updateOpp
<1>5. CASE ~jump
  <2>1. /\ c.trades = b.trades /\ c.pnl = b.pnl /\ c.long = b.long /\ c.short = b.short
        /\ c.cum_long = b.cum_long /\ c.cum_short = b.cum_short
    BY <1>3, <1>4, <1>5
  <2> QED
    BY <2>1 DEF AtOnePrice, OwnBook
<1>6. CASE jump
  <2>1. c.long = 0 /\ c.short = 0 /\ c.cum_long = 0 /\ c.cum_short = 0
    BY <1>3, <1>4, <1>6
  <2>2. PICK p \in Nat : p = 0
    OBVIOUS
  <2>3. AtOnePrice(c)
    BY <2>1, <2>2 DEF AtOnePrice
  <2>4. ASSUME b.long + b.short = 0 PROVE OwnBook(c, mult) = OwnBook(b, mult)
    <3>1. b.long = 0 /\ b.short = 0
      BY <1>2, <2>4
    <3>2. b.cum_long = 0 /\ b.cum_short = 0
      BY <3>1 DEF AtOnePrice
    <3> QED
      BY <1>3, <1>4, <2>1, <3>2 DEF OwnBook
  <2>5. (jump => b.long + b.short = 0) => OwnBook(c, mult) = OwnBook(b, mult)
    BY <1>6, <2>4
  <2>6. c.trades = b.trades
    BY <1>3, <1>4
  <2> QED
    BY <2>3, <2>5, <2>6
<1> QED
  BY <1>5, <1>6

CleanType == clean \in [Instruments -> BOOLEAN]

LEMMA TakeColumns ==
  ASSUME StrategyInv, CleanType, takeTick, NEW i \in Instruments, ColumnsOK(i)
  PROVE  ColumnsOK(i)'
<1>1. /\ pc = "onMarketData" /\ UNCHANGED <<pc, turn, consumers, positions, logged>>
  BY DEF takeTick, brokerVars, vars, replayVars
<1>2. ~sent /\ ~sent'
  BY QuietStep DEF StrategyInv
<1>3. PICK signal \in {"down", "up", "none"}, jump \in BOOLEAN :
        /\ book' = [book EXCEPT ![tick.inst] = updateOpp(Adjusted(@, jump), signal)]
        /\ orphaned' = IF jump THEN [orphaned EXCEPT ![tick.inst] = Forgotten(tick.inst)]
                               ELSE orphaned
        /\ clean' = [clean EXCEPT ![tick.inst] =
                       @ /\ (jump => book[tick.inst].long + book[tick.inst].short = 0)]
  BY DEF takeTick
<1>4. PICK pos, b, flat, mult, z, c, still :
        /\ pos = PositionOf(i) /\ b = book[i] /\ (flat <=> clean[i]) /\ mult = multiplier[i]
        /\ z = 0 /\ c = book'[i] /\ (still <=> clean'[i])
  OBVIOUS
<1>5. MovedMoney(i) = z /\ MovedTrades(i) = z /\ MovedMoney(i)' = z /\ MovedTrades(i)' = z
  BY <1>2, <1>4, NoneMoved
<1>6. AgreeWith(pos, b, flat, mult, z, z) /\ AtOnePrice(b)
  BY <1>1, <1>4, <1>5 DEF ColumnsOK, ColumnsAt, InDay, AgreeWith
<1>7. book \in [Instruments -> Books] /\ b \in Books /\ mult \in Nat
  BY <1>4, ColumnTypes DEF StrategyInv, StrategyTypeOK
<1>8. orphaned \in [Instruments -> [long : Nat, short : Nat]]
  BY DEF StrategyInv, OrphansOK
<1>9. CASE i # tick.inst
  <2>1. c = b /\ orphaned'[i] = orphaned[i]
    BY <1>3, <1>4, <1>7, <1>8, <1>9
  <2>2. clean'[i] <=> clean[i]
    BY <1>3, <1>9
  <2>3. CleanAt(i)'
    BY <1>1, <2>1, <2>2 DEF ColumnsOK, CleanAt
  <2>4. AgreeWith(pos, c, still, mult, z, z) /\ AtOnePrice(c)
    BY <1>4, <1>6, <2>1, <2>2 DEF AgreeWith
  <2>5. InDay' /\ LineAt(i)' /\ pos = PositionOf(i)'
    BY <1>1, <1>4 DEF InDay, LineAt, Logged, PositionOf
  <2> QED
    BY <1>4, <1>5, <2>3, <2>4, <2>5, AgreeNext
<1>10. CASE i = tick.inst
  <2>1. c = updateOpp(Adjusted(b, jump), signal)
    BY <1>3, <1>4, <1>7, <1>10
  <2>2. /\ AtOnePrice(c) /\ c.trades = b.trades
        /\ (jump => b.long + b.short = 0) => OwnBook(c, mult) = OwnBook(b, mult)
    BY <1>6, <1>7, <2>1, AdjustedColumns
  <2>3. still => flat /\ (jump => b.long + b.short = 0)
    <3>1. clean'[i] => clean[i] /\ (jump => book[i].long + book[i].short = 0)
      BY <1>3, <1>10 DEF CleanType
    <3> QED
      BY <1>4, <3>1
  <2>4. AgreeWith(pos, c, still, mult, z, z)
    BY <1>6, <2>2, <2>3 DEF AgreeWith
  <2>5. CleanAt(i)'
    <3> SUFFICES ASSUME clean'[i] PROVE orphaned'[i].long = 0 /\ orphaned'[i].short = 0
      BY <1>1 DEF CleanAt
    <3>1. orphaned[i].long = 0 /\ orphaned[i].short = 0
      BY <1>4, <2>3 DEF ColumnsOK, CleanAt
    <3>2. CASE ~jump
      BY <1>3, <3>1, <3>2
    <3>3. CASE jump
      <4>1. b.long = 0 /\ b.short = 0
        BY <1>4, <1>7, <2>3, <3>3 DEF Books
      <4>2. orphaned'[i] = Forgotten(i)
        BY <1>3, <1>8, <1>10, <3>3
      <4> QED
        BY <1>4, <3>1, <4>1, <4>2 DEF Forgotten
    <3> QED
      BY <3>2, <3>3
  <2>6. InDay' /\ LineAt(i)' /\ pos = PositionOf(i)'
    BY <1>1, <1>4 DEF InDay, LineAt, Logged, PositionOf
  <2> QED
    BY <1>4, <1>5, <2>2, <2>4, <2>5, <2>6, AgreeNext
<1> QED
  BY <1>9, <1>10

\* The steps within the day that change neither position nor book.
LEMMA QuietColumns ==
  ASSUME StrategyInv, NEW i \in Instruments, ColumnsOK(i),
         skipTick \/ endOfTick \/ nextTick \/ endDay \/ positionsEndDay
  PROVE  ColumnsOK(i)'
<1>1. ~sent /\ ~sent'
  BY QuietStep DEF StrategyInv, OutsideSteps, Replay, Positions
<1>2. UNCHANGED <<book, clean, orphaned, logged, positions, consumers>>
  BY DEF skipTick, endOfTick, nextTick, endDay, positionsEndDay, brokerVars, vars, propertyVars
<1>3. /\ turn \in {1, 2} /\ consumers[1] # consumers[2]
      /\ consumers[1] = "strategy" \/ consumers[1] = "positions"
      /\ consumers[2] = "strategy" \/ consumers[2] = "positions"
  BY DEF StrategyInv, StrategyTypeOK, ConsumerOrders
<1>4. /\ InDay /\ pc' # "onStartDay" /\ (Logged' => Logged)
      /\ InDay' \/ pc' = "between"
  <2>1. CASE skipTick \/ endOfTick
    <3>1. pc' = "onMarketData" \/ pc' = "ticks"
      BY <1>1, <2>1, OrderInTick DEF skipTick, endOfTick, NextConsumer, StrategyInv
    <3>2. pc = "onMarketData"
      BY <2>1, OrderInTick DEF skipTick, endOfTick, StrategyInv
    <3> QED
      BY <3>1, <3>2 DEF InDay, Logged
  <2>2. CASE nextTick
    BY <2>2 DEF nextTick, InDay, Logged
  <2>3. CASE endDay
    BY <2>3 DEF endDay, InDay, Logged
  <2>4. CASE positionsEndDay
    <3>1. pc = "onEndDay" /\ consumers[turn] = "positions" /\ consumers' = consumers
      BY <2>4 DEF positionsEndDay, ConsumerAt
    <3>2. CASE turn = 1
      <4>1. pc' = "onEndDay" /\ turn' = 2
        BY <2>4, <3>1, <3>2 DEF positionsEndDay, NextConsumer
      <4> QED
        BY <3>1, <3>2, <4>1 DEF InDay, Logged
    <3>3. CASE turn = 2
      <4>1. pc' = "between"
        BY <2>4, <3>3 DEF positionsEndDay, NextConsumer
      <4>2. consumers[1] = "strategy"
        BY <1>3, <3>1, <3>3
      <4> QED
        BY <3>1, <3>3, <4>1, <4>2 DEF InDay, Logged
    <3> QED
      BY <1>3, <3>2, <3>3
  <2> QED
    BY <2>1, <2>2, <2>3, <2>4
<1>5. AtOnePrice(book[i])' /\ CleanAt(i)' /\ LineAt(i)'
  BY <1>2, <1>4, SameBook, SameLine
<1>6. CASE InDay'
  <2>1. PositionOf(i)' = PositionOf(i)
    BY <1>2 DEF PositionOf
  <2>2. MovedTrades(i)' = MovedTrades(i) /\ MovedMoney(i)' = MovedMoney(i)
    BY <1>1, NoneMoved
  <2> QED
    BY <1>2, <1>4, <1>6, <2>1, <2>2, StillColumns
<1>7. CASE ~InDay'
  BY <1>4, <1>5, <1>7, OutsideColumns
<1> QED
  BY <1>6, <1>7

\* The price of a tick changes what a position is worth, and not what it cost.
SameMoney(new, pos) ==
  /\ new.LongToday = pos.LongToday /\ new.LongYst = pos.LongYst
  /\ new.ShortToday = pos.ShortToday /\ new.ShortYst = pos.ShortYst
  /\ new.realizedPnL = pos.realizedPnL /\ new.tradeCount = pos.tradeCount

LEMMA PricedBook ==
  ASSUME NEW pos, NEW new, SameMoney(new, pos), NEW mult
  PROVE  new.tradeCount = pos.tradeCount /\ Book(new, mult) = Book(pos, mult)
BY DEF SameMoney, Book

LEMMA PositionsTickColumns ==
  ASSUME StrategyInv, NEW i \in Instruments, ColumnsOK(i), positionsTick
  PROVE  ColumnsOK(i)'
<1>1. ~sent /\ ~sent'
  BY QuietStep DEF StrategyInv, OutsideSteps, Positions
<1>2. UNCHANGED <<book, clean, orphaned, logged, consumers>> /\ pc = "onMarketData"
  BY DEF positionsTick, propertyVars
<1>3. pc' = "onMarketData" \/ pc' = "ticks"
  BY <1>2 DEF positionsTick, NextConsumer
<1>4. AtOnePrice(book[i])' /\ CleanAt(i)' /\ LineAt(i)' /\ InDay /\ InDay'
  <2>1. ~Logged'
    BY <1>3 DEF Logged
  <2> QED
    BY <1>2, <1>3, <2>1, SameBook DEF LineAt, InDay
<1>5. PICK pos, b, flat, mult, z, new :
        /\ pos = PositionOf(i) /\ b = book[i] /\ (flat <=> clean[i]) /\ mult = multiplier[i]
        /\ z = 0 /\ new = PositionOf(i)'
  OBVIOUS
<1>6. MovedMoney(i) = z /\ MovedTrades(i) = z /\ MovedMoney(i)' = z /\ MovedTrades(i)' = z
  BY <1>1, <1>5, NoneMoved
<1>7. AgreeWith(pos, b, flat, mult, z, z) /\ AtOnePrice(b)
  BY <1>4, <1>5, <1>6 DEF ColumnsOK, ColumnsAt, AgreeWith
<1>8. new.tradeCount = pos.tradeCount /\ Book(new, mult) = Book(pos, mult)
  <2>1. PICK ps, qs : ps = positions /\ qs = positions'
    OBVIOUS
  <2>2. PositionsOK(ps)
    BY <2>1, BooksParts DEF IInv, StrategyInv
  <2>3. /\ pos = IF i \in DOMAIN ps THEN ps[i] ELSE EmptyPosition
        /\ new = IF i \in DOMAIN qs THEN qs[i] ELSE EmptyPosition
    BY <1>5, <2>1 DEF PositionOf
  <2>4. CASE tick.inst \in DOMAIN positions
    <3>1. qs = [ps EXCEPT ![tick.inst].lastPrice = tick.last]
      BY <2>1, <2>4 DEF positionsTick, onMarketData
    <3>2. CASE i \in DOMAIN ps
      <4>1. ps[i] \in CPositions
        BY <2>2, <3>2 DEF PositionsOK
      <4>2. qs[i] = IF i = tick.inst THEN [ps[i] EXCEPT !.lastPrice = tick.last] ELSE ps[i]
        BY <3>1, <3>2
      <4>3. pos = ps[i] /\ new = qs[i]
        BY <2>3, <3>1, <3>2
      <4>4. CASE i = tick.inst
        <5>1. new = [pos EXCEPT !.lastPrice = tick.last] /\ pos \in CPositions
          BY <4>1, <4>2, <4>3, <4>4
        <5>2. SameMoney(new, pos)
          BY <5>1 DEF SameMoney, CPositions
        <5> QED
          BY <5>2, PricedBook
      <4>5. CASE i # tick.inst
        BY <4>2, <4>3, <4>5
      <4> QED
        BY <4>4, <4>5
    <3>3. CASE i \notin DOMAIN ps
      BY <2>3, <3>1, <3>3
    <3> QED
      BY <3>2, <3>3
  <2>5. CASE tick.inst \notin DOMAIN positions
    <3>1. positions' = positions
      BY <2>5 DEF positionsTick, brokerVars, vars
    <3> QED
      BY <2>1, <2>3, <3>1
  <2> QED
    BY <2>4, <2>5
<1>9. AgreeWith(new, b, flat, mult, z, z)
  BY <1>7, <1>8 DEF AgreeWith
<1>10. b = book'[i] /\ (flat <=> clean'[i])
  BY <1>2, <1>5
<1> QED
  BY <1>4, <1>5, <1>6, <1>7, <1>9, <1>10, AgreeNext

\* A day that is clean begins with nothing held and nothing forgotten.
LEMMA StartDayColumns ==
  ASSUME StrategyInv, NEW i \in Instruments, ColumnsOK(i), startDay
  PROVE  ColumnsOK(i)'
<1>1. ~sent /\ ~sent'
  BY QuietStep DEF StrategyInv, OutsideSteps, Replay
<1>2. UNCHANGED <<book, orphaned>> /\ pc' = "onStartDay" /\ turn' = 1
  BY DEF startDay
<1>3. clean'[i] => BrokerLong(i) = 0 /\ BrokerShort(i) = 0
  BY DEF startDay
<1>4. CleanAt(i)'
  <2> SUFFICES ASSUME clean'[i]
               PROVE  /\ orphaned[i].long = 0 /\ orphaned[i].short = 0
                      /\ book[i].long = 0 /\ book[i].short = 0
    BY <1>2 DEF CleanAt
  <2>1. SideQty(PositionOf(i), "long") = 0 /\ SideQty(PositionOf(i), "short") = 0
    BY <1>3, BrokerSides DEF StrategyInv
  <2>2. \A side \in Sides : SideQty(PositionOf(i), side) = book[i][side] + orphaned[i][side] + 0
    BY <1>1, NothingMoved DEF StrategyInv, Backed, BackedAt
  <2>3. \A side \in Sides : book[i][side] \in Nat /\ orphaned[i][side] \in Nat
    BY BackedTypes DEF StrategyInv
  <2>4. "long" \in Sides /\ "short" \in Sides
    BY DEF Sides
  <2>5. \A side \in Sides : book[i][side] = 0 /\ orphaned[i][side] = 0
    <3> SUFFICES ASSUME NEW side \in Sides PROVE book[i][side] = 0 /\ orphaned[i][side] = 0
      OBVIOUS
    <3>1. PICK x, y : x = book[i][side] /\ y = orphaned[i][side]
      OBVIOUS
    <3>2. SideQty(PositionOf(i), side) = 0
      BY <2>1 DEF Sides
    <3>3. x + y + 0 = 0 /\ x \in Nat /\ y \in Nat
      BY <2>2, <2>3, <3>1, <3>2
    <3> QED
      BY <3>1, <3>3
  <2>6. /\ book[i]["long"] = 0 /\ orphaned[i]["long"] = 0
        /\ book[i]["short"] = 0 /\ orphaned[i]["short"] = 0
    BY <2>4, <2>5
  <2> QED
    BY <2>6
<1>5. AtOnePrice(book[i])'
  BY <1>2 DEF ColumnsOK, AtOnePrice
<1>6. LineAt(i)' /\ ColumnsAt(i)'
  BY <1>2 DEF LineAt, Logged, ColumnsAt, InDay, Started
<1> QED
  BY <1>4, <1>5, <1>6 DEF ColumnsOK

\* What the strategy starts the day with: no trades, and no money when its book is flat.
LEMMA StartedBook ==
  ASSUME NEW b \in Books, AtOnePrice(b), NEW mult \in Nat, NEW c, c = initInstrument(b)
  PROVE  /\ c.trades = 0 /\ AtOnePrice(c)
         /\ b.long = 0 /\ b.short = 0 => c.long = 0 /\ c.short = 0 /\ OwnBook(c, mult) = 0
<1>1. /\ c.trades = 0 /\ c.pnl = 0
      /\ \/ /\ c.long = b.long /\ c.short = b.short
            /\ c.cum_long = b.cum_long /\ c.cum_short = b.cum_short
         \/ c.long = 0 /\ c.short = 0 /\ c.cum_long = 0 /\ c.cum_short = 0
  BY DEF initInstrument, Continued, EmptyBook, Books
<1>2. AtOnePrice(c)
  <2>1. CASE /\ c.long = b.long /\ c.short = b.short
             /\ c.cum_long = b.cum_long /\ c.cum_short = b.cum_short
    BY <2>1 DEF AtOnePrice
  <2>2. CASE c.long = 0 /\ c.short = 0 /\ c.cum_long = 0 /\ c.cum_short = 0
    <3>1. PICK p \in Nat : p = 0
      OBVIOUS
    <3> QED
      BY <2>2, <3>1 DEF AtOnePrice
  <2> QED
    BY <1>1, <2>1, <2>2
<1>3. ASSUME b.long = 0, b.short = 0
      PROVE  c.long = 0 /\ c.short = 0 /\ OwnBook(c, mult) = 0
  <2>1. c.long = 0 /\ c.short = 0
    BY <1>1, <1>3
  <2>2. c.cum_long = 0 /\ c.cum_short = 0
    BY <1>2, <2>1 DEF AtOnePrice
  <2>3. mult * (0 - 0) = 0
    OBVIOUS
  <2> QED
    BY <1>1, <2>1, <2>2, <2>3 DEF OwnBook
<1> QED
  BY <1>1, <1>2, <1>3

LEMMA ConsumerPair ==
  ASSUME StrategyInv
  PROVE  /\ turn = 1 \/ turn = 2
         /\ \/ consumers[1] = "strategy" /\ consumers[2] = "positions"
            \/ consumers[1] = "positions" /\ consumers[2] = "strategy"
BY DEF StrategyInv, StrategyTypeOK, ConsumerOrders

LEMMA StrategyStartColumns ==
  ASSUME StrategyInv, NEW i \in Instruments, ColumnsOK(i), strategyStartDay
  PROVE  ColumnsOK(i)'
<1>1. ~sent /\ ~sent'
  BY QuietStep DEF StrategyInv, OutsideSteps
<1>2. /\ UNCHANGED <<clean, positions, consumers>>
      /\ pc = "onStartDay" /\ consumers[turn] = "strategy"
  BY DEF strategyStartDay, brokerVars, vars, ConsumerAt
<1>3. PICK pos, b, flat, mult, z, c :
        /\ pos = PositionOf(i) /\ b = book[i] /\ (flat <=> clean[i]) /\ mult = multiplier[i]
        /\ z = 0 /\ c = initInstrument(b)
  OBVIOUS
<1>4. b \in Books /\ mult \in Nat /\ pos.tradeCount \in Int /\ Book(pos, mult) \in Int
  BY <1>3, ColumnTypes
<1>5. book'[i] = c /\ orphaned'[i] = IF para.is_over_night THEN orphaned[i] ELSE Forgotten(i)
  BY <1>3 DEF strategyStartDay
<1>6. AtOnePrice(b)
  BY <1>3 DEF ColumnsOK
<1>7. /\ c.trades = 0 /\ AtOnePrice(c)
      /\ b.long = 0 /\ b.short = 0 => c.long = 0 /\ c.short = 0 /\ OwnBook(c, mult) = 0
  BY <1>3, <1>4, <1>6, StartedBook
<1>8. flat => /\ b.long = 0 /\ b.short = 0 /\ orphaned[i].long = 0 /\ orphaned[i].short = 0
  BY <1>2, <1>3 DEF ColumnsOK, CleanAt
<1>9. flat => /\ c.long = 0 /\ c.short = 0 /\ OwnBook(c, mult) = 0
              /\ orphaned'[i].long = 0 /\ orphaned'[i].short = 0
  <2> SUFFICES ASSUME flat PROVE /\ c.long = 0 /\ c.short = 0 /\ OwnBook(c, mult) = 0
                                 /\ orphaned'[i].long = 0 /\ orphaned'[i].short = 0
    OBVIOUS
  <2>1. Forgotten(i).long = 0 /\ Forgotten(i).short = 0
    BY <1>3, <1>8 DEF Forgotten
  <2> QED
    BY <1>5, <1>7, <1>8, <2>1
<1>10. CleanAt(i)'
  BY <1>2, <1>3, <1>5, <1>9 DEF CleanAt
<1>11. CASE turn = 1
  <2>1. pc' = "onStartDay" /\ turn' = 2 /\ consumers' = consumers /\ consumers[1] = "strategy"
    BY <1>2, <1>11 DEF strategyStartDay, NextConsumer
  <2>2. OwnReset(c, flat, mult)
    BY <1>7, <1>9 DEF OwnReset
  <2>3. ~InDay' /\ ~Logged' /\ ~Started("positions")'
    BY <2>1 DEF InDay, Logged, Started
  <2>4. (flat <=> clean'[i]) /\ c = book'[i]
    BY <1>2, <1>3, <1>5
  <2>5. PICK new, n, m : new = PositionOf(i)' /\ n = MovedTrades(i)' /\ m = MovedMoney(i)'
    OBVIOUS
  <2>6. ColumnsAt(i)'
    BY <1>3, <2>2, <2>3, <2>4, <2>5, ColumnsNext
  <2>7. LineAt(i)'
    BY <2>3 DEF LineAt
  <2>8. AtOnePrice(book[i])'
    BY <1>7, <2>4 DEF AtOnePrice
  <2> QED
    BY <1>10, <2>6, <2>7, <2>8 DEF ColumnsOK
<1>12. CASE turn = 2
  <2>1. pc' = "ticks" /\ consumers' = consumers /\ consumers[1] = "positions"
    BY <1>2, <1>12, ConsumerPair DEF strategyStartDay, NextConsumer
  <2>2. PositionReset(pos, flat, mult)
    BY <1>2, <1>3, <1>12, <2>1 DEF ColumnsOK, ColumnsAt, Started, PositionReset
  <2>3. AgreeWith(pos, c, flat, mult, z, z)
    <3>1. pos.tradeCount = c.trades + z
      BY <1>3, <1>7, <2>2 DEF PositionReset
    <3>2. flat => Book(pos, mult) = OwnBook(c, mult) + z
      BY <1>3, <1>9, <2>2 DEF PositionReset
    <3> QED
      BY <3>1, <3>2 DEF AgreeWith
  <2>4. (flat <=> clean'[i]) /\ c = book'[i] /\ pos = PositionOf(i)'
    BY <1>2, <1>3, <1>5 DEF PositionOf
  <2>5. z = MovedTrades(i)' /\ z = MovedMoney(i)'
    BY <1>1, <1>3, NoneMoved
  <2>6. InDay' /\ LineAt(i)'
    BY <2>1 DEF InDay, LineAt, Logged
  <2> QED
    BY <1>3, <1>7, <1>10, <2>3, <2>4, <2>5, <2>6, AgreeNext
<1> QED
  BY <1>11, <1>12, ConsumerPair

\* The positions begin the day with no trades, and no money when nothing is held.
LEMMA StartedPosition ==
  ASSUME StrategyInv, positionsStartDay, NEW i \in Instruments
  PROVE  /\ PositionOf(i)'.tradeCount = 0 /\ PositionOf(i)'.realizedPnL = 0
         /\ PositionOf(i)' \in CPositions
<1>1. PICK ps, qs : ps = positions /\ qs = positions'
  OBVIOUS
<1>2. PositionsOK(ps)
  BY <1>1, BooksParts DEF IInv, StrategyInv
<1>3. PositionOf(i)' = IF i \in DOMAIN qs THEN qs[i] ELSE EmptyPosition
  BY <1>1 DEF PositionOf
<1>4. qs = [j \in DOMAIN ps |-> [resetPnl(ps[j], multiplier[j]) EXCEPT !.tradeCount = 0]]
  BY <1>1 DEF positionsStartDay, onStartDay, resetPositionTodayToYst
<1>5. CASE i \in DOMAIN ps
  <2>1. PICK mult, new, r : mult = multiplier[i] /\ new = qs[i] /\ r = resetPnl(ps[i], mult)
    OBVIOUS
  <2>2. mult \in Int /\ ps[i] \in CPositions
    BY <1>2, <1>5, <2>1, MoneyAssumption DEF PositionsOK
  <2>3. new = [r EXCEPT !.tradeCount = 0]
    BY <1>4, <1>5, <2>1
  <2>4. new \in CPositions /\ IsReset(new, ps[i])
    BY <2>1, <2>2, <2>3, ResetSpec
  <2>5. new.tradeCount = 0
    <3>1. "tradeCount" \in DOMAIN new
      BY <2>4 DEF CPositions
    <3> QED
      BY <2>3, <3>1
  <2> QED
    BY <1>3, <1>4, <1>5, <2>1, <2>4, <2>5 DEF IsReset
<1>6. CASE i \notin DOMAIN ps
  <2>1. PositionOf(i)' = EmptyPosition
    BY <1>3, <1>4, <1>6
  <2>2. EmptyPosition.tradeCount = 0 /\ EmptyPosition.realizedPnL = 0
    BY DEF EmptyPosition
  <2> QED
    BY <2>1, <2>2, EmptyPositionParts
<1> QED
  BY <1>5, <1>6

LEMMA PositionsStartColumns ==
  ASSUME StrategyInv, NEW i \in Instruments, ColumnsOK(i), positionsStartDay
  PROVE  ColumnsOK(i)'
<1>1. ~sent /\ ~sent'
  BY QuietStep DEF StrategyInv, OutsideSteps, Positions
<1>2. /\ UNCHANGED <<book, clean, orphaned, logged, consumers>>
      /\ pc = "onStartDay" /\ consumers[turn] = "positions"
  BY DEF positionsStartDay, propertyVars, ConsumerAt
<1>3. PICK b, flat, mult, z, new :
        /\ b = book[i] /\ (flat <=> clean[i]) /\ mult = multiplier[i] /\ z = 0
        /\ new = PositionOf(i)'
  OBVIOUS
<1>4. b \in Books /\ mult \in Nat /\ mult \in Int
  BY <1>3, ColumnTypes
<1>5. new.tradeCount = 0 /\ new.realizedPnL = 0 /\ new \in CPositions
  BY <1>3, StartedPosition
<1>6. flat => Book(new, mult) = 0
  <2> SUFFICES ASSUME flat PROVE Book(new, mult) = 0
    OBVIOUS
  <2>1. book[i].long = 0 /\ book[i].short = 0 /\ orphaned[i].long = 0 /\ orphaned[i].short = 0
    BY <1>2, <1>3 DEF ColumnsOK, CleanAt
  <2>2. \A side \in Sides : SideQty(PositionOf(i), side) = book[i][side] + orphaned[i][side] + 0
    BY <1>1, NothingMoved DEF StrategyInv, Backed, BackedAt
  <2>3. \A side \in Sides : SideQty(PositionOf(i), side) = 0
    BY <2>1, <2>2 DEF Sides
  <2>4. \A side \in Sides : SideQty(PositionOf(i)', side) = 0
    BY <2>3, SidesKept DEF StrategyInv, OutsideSteps, Positions
  <2>5. SideQty(new, "long") = 0 /\ SideQty(new, "short") = 0
    BY <1>3, <2>4 DEF Sides
  <2> QED
    BY <1>4, <1>5, <2>5, NothingHeld
<1>7. PositionReset(new, flat, mult)
  BY <1>5, <1>6 DEF PositionReset
<1>8. (flat <=> clean'[i]) /\ b = book'[i]
  BY <1>2, <1>3
<1>9. AtOnePrice(b) /\ AtOnePrice(book[i])' /\ CleanAt(i)'
  BY <1>2, <1>3, SameBook DEF ColumnsOK
<1>10. CASE turn = 1
  <2>1. pc' = "onStartDay" /\ turn' = 2 /\ consumers' = consumers /\ consumers[1] = "positions"
    BY <1>2, <1>10 DEF positionsStartDay, NextConsumer
  <2>2. ~InDay' /\ ~Logged' /\ ~Started("strategy")'
    BY <2>1 DEF InDay, Logged, Started
  <2>3. PICK n, m : n = MovedTrades(i)' /\ m = MovedMoney(i)'
    OBVIOUS
  <2>4. ColumnsAt(i)'
    BY <1>3, <1>7, <1>8, <2>2, <2>3, ColumnsNext
  <2>5. LineAt(i)'
    BY <2>2 DEF LineAt
  <2> QED
    BY <1>9, <2>4, <2>5 DEF ColumnsOK
<1>11. CASE turn = 2
  <2>1. pc' = "ticks" /\ consumers' = consumers /\ consumers[1] = "strategy"
    BY <1>2, <1>11, ConsumerPair DEF positionsStartDay, NextConsumer
  <2>2. OwnReset(b, flat, mult)
    BY <1>2, <1>3, <1>11, <2>1 DEF ColumnsOK, ColumnsAt, Started, OwnReset
  <2>3. AgreeWith(new, b, flat, mult, z, z)
    <3>1. new.tradeCount = b.trades + z
      BY <1>3, <1>5, <2>2 DEF OwnReset
    <3>2. flat => Book(new, mult) = OwnBook(b, mult) + z
      BY <1>3, <1>6, <2>2 DEF OwnReset
    <3> QED
      BY <3>1, <3>2 DEF AgreeWith
  <2>4. z = MovedTrades(i)' /\ z = MovedMoney(i)'
    BY <1>1, <1>3, NoneMoved
  <2>5. InDay' /\ LineAt(i)'
    BY <2>1 DEF InDay, LineAt, Logged
  <2> QED
    BY <1>3, <1>8, <1>9, <2>3, <2>4, <2>5, AgreeNext
<1> QED
  BY <1>10, <1>11, ConsumerPair

\* The line of the day: of a book and a position that both hold nothing, the money is
\* the profit.
LEMMA LineColumns ==
  ASSUME StrategyInv, NEW i \in Instruments, ColumnsOK(i), ~sent, InDay, pc # "onStartDay"
  PROVE  LineAgrees(ResultLine(i), book[i], clean[i])
<1>1. PICK pos, b, flat, mult, z, line :
        /\ pos = PositionOf(i) /\ b = book[i] /\ (flat <=> clean[i]) /\ mult = multiplier[i]
        /\ z = 0 /\ line = ResultLine(i)
  OBVIOUS
<1>2. /\ pos \in CPositions /\ b \in Books /\ mult \in Nat /\ mult \in Int
      /\ pos.tradeCount \in Int /\ b.trades \in Nat
      /\ Book(pos, mult) \in Int /\ OwnBook(b, mult) \in Int
  BY <1>1, ColumnTypes
<1>3. AgreeWith(pos, b, flat, mult, z, z) /\ AtOnePrice(b)
  <2>1. z = MovedTrades(i) /\ z = MovedMoney(i)
    BY <1>1, NoneMoved
  <2> QED
    BY <1>1, <2>1 DEF ColumnsOK, ColumnsAt, AgreeWith
<1>4. /\ line.trade0 = b.trades /\ line.pnl0 = b.pnl /\ line.trade = pos.tradeCount
      /\ line.pnl = getPositionPnl(pos, mult)
  BY <1>1 DEF ResultLine
<1>5. line.trade0 = line.trade
  BY <1>1, <1>2, <1>3, <1>4 DEF AgreeWith
<1>6. ASSUME flat, b.long + b.short = 0 PROVE line.pnl0 = line.pnl
  <2>1. b.long = 0 /\ b.short = 0
    BY <1>2, <1>6 DEF Books
  <2>2. orphaned[i].long = 0 /\ orphaned[i].short = 0
    BY <1>1, <1>6 DEF ColumnsOK, CleanAt
  <2>3. \A side \in Sides : SideQty(PositionOf(i), side) = book[i][side] + orphaned[i][side] + 0
    BY NothingMoved DEF StrategyInv, Backed, BackedAt
  <2>4. SideQty(pos, "long") = 0 /\ SideQty(pos, "short") = 0
    BY <1>1, <2>1, <2>2, <2>3 DEF Sides
  <2>5. Book(pos, mult) = pos.realizedPnL /\ getPositionPnl(pos, mult) = pos.realizedPnL
    BY <1>2, <2>4, NothingHeld
  <2>6. Book(pos, mult) = OwnBook(b, mult)
    BY <1>1, <1>2, <1>3, <1>6 DEF AgreeWith
  <2>7. OwnBook(b, mult) = b.pnl
    <3>1. b.cum_long = 0 /\ b.cum_short = 0
      BY <1>3, <2>1 DEF AtOnePrice
    <3>2. mult * (0 - 0) = 0 /\ b.pnl \in Int
      BY <1>2 DEF Books
    <3> QED
      BY <3>1, <3>2 DEF OwnBook
  <2> QED
    BY <1>4, <2>5, <2>6, <2>7
<1> QED
  BY <1>1, <1>5, <1>6 DEF LineAgrees

LEMMA StrategyEndColumns ==
  ASSUME StrategyInv, NEW i \in Instruments, ColumnsOK(i), strategyEndDay
  PROVE  ColumnsOK(i)'
<1>1. ~sent /\ ~sent'
  BY QuietStep DEF StrategyInv, OutsideSteps
<1>2. UNCHANGED <<book, clean, orphaned, consumers>> /\ pc = "onEndDay" /\ logged'[i] = ResultLine(i)
  BY DEF strategyEndDay, propertyVars
<1>3. LineAgrees(ResultLine(i), book[i], clean[i])
  BY <1>1, <1>2, LineColumns DEF InDay
<1>4. LineAt(i)'
  BY <1>2, <1>3 DEF LineAt, LineAgrees
<1>5. pc' = "onEndDay" \/ pc' = "between"
  BY <1>2 DEF strategyEndDay, NextConsumer
<1>6. AtOnePrice(book[i])' /\ CleanAt(i)'
  BY <1>2, <1>5, SameBook
<1>7. PositionOf(i)' = PositionOf(i)
  BY DEF strategyEndDay, PositionOf
<1>8. CASE pc' = "between"
  BY <1>4, <1>6, <1>8, OutsideColumns DEF InDay
<1>9. CASE pc' = "onEndDay"
  <2>1. PICK pos, b, flat, mult, z :
          /\ pos = PositionOf(i) /\ b = book[i] /\ (flat <=> clean[i]) /\ mult = multiplier[i]
          /\ z = 0
    OBVIOUS
  <2>2. /\ z = MovedTrades(i) /\ z = MovedMoney(i) /\ z = MovedTrades(i)' /\ z = MovedMoney(i)'
    BY <1>1, <2>1, NoneMoved
  <2>3. AgreeWith(pos, b, flat, mult, z, z) /\ AtOnePrice(b)
    BY <1>2, <2>1, <2>2 DEF ColumnsOK, ColumnsAt, AgreeWith, InDay
  <2>4. (flat <=> clean'[i]) /\ b = book'[i] /\ pos = PositionOf(i)' /\ InDay'
    BY <1>2, <1>7, <1>9, <2>1 DEF InDay
  <2> QED
    BY <1>4, <1>6, <2>1, <2>2, <2>3, <2>4, AgreeNext
<1> QED
  BY <1>5, <1>8, <1>9

\* The invariant of the two columns.
ColumnsInv == CleanType /\ \A i \in Instruments : ColumnsOK(i)

LEMMA ColumnsInit == StrategyInit => ColumnsInv
<1> SUFFICES ASSUME StrategyInit PROVE ColumnsInv
  OBVIOUS
<1>1. CleanType
  BY DEF StrategyInit, CleanType
<1>2. ASSUME NEW i \in Instruments PROVE ColumnsOK(i)
  <2>1. /\ pc = "between" /\ ~clean[i] /\ book[i] = EmptyBook /\ logged[i] = NoLine
    BY DEF StrategyInit
  <2>2. PICK p \in Nat : p = 0
    OBVIOUS
  <2>3. AtOnePrice(EmptyBook)
    BY <2>2 DEF AtOnePrice, EmptyBook
  <2>4. CleanAt(i) /\ ColumnsAt(i)
    BY <2>1 DEF CleanAt, ColumnsAt, InDay, Started
  <2>5. LineAt(i)
    BY <2>1 DEF LineAt, LineAgrees, NoLine
  <2> QED
    BY <2>1, <2>3, <2>4, <2>5 DEF ColumnsOK
<1> QED
  BY <1>1, <1>2 DEF ColumnsInv

LEMMA CleanTypeStep == CleanType /\ [StrategyNext]_allVars => CleanType'
<1> SUFFICES ASSUME CleanType, [StrategyNext]_allVars PROVE CleanType'
  OBVIOUS
<1>1. CASE startDay
  BY <1>1 DEF startDay, CleanType
<1>2. CASE takeTick
  <2>1. PICK jump \in BOOLEAN :
          clean' = [clean EXCEPT ![tick.inst] =
                      @ /\ (jump => book[tick.inst].long + book[tick.inst].short = 0)]
    BY <1>2 DEF takeTick
  <2>2. PICK x : x <=> (jump => book[tick.inst].long + book[tick.inst].short = 0)
    OBVIOUS
  <2> QED
    BY <2>1 DEF CleanType
<1>3. CASE UNCHANGED clean
  BY <1>3 DEF CleanType
<1>4. startDay \/ takeTick \/ UNCHANGED clean
  BY DEF StrategyNext, Broker, Positions, Replay, Strategy, positionsStartDay, positionsTick,
         positionsEndDay, nextTick, endDay, strategyStartDay, skipTick, giveOrder, bookOrder,
         endOfTick, strategyEndDay, allVars, strategyVars, propertyVars
<1> QED
  BY <1>1, <1>2, <1>3, <1>4

LEMMA StutterColumns ==
  ASSUME StrategyInv, NEW i \in Instruments, ColumnsOK(i), UNCHANGED allVars
  PROVE  ColumnsOK(i)'
<1>1. UNCHANGED <<pc, turn, consumers, para, tick, book, step, sent, orphaned, clean, logged,
                  calls, orders_, positions>>
  BY DEF allVars, strategyVars, replayVars, propertyVars, brokerVars, vars
<1>2. Request' = Request
  BY <1>1, SameRequestSent
<1>3. Pending' = Pending
  BY <1>1 DEF Pending, Remaining, HeadOf
<1>4. MovedTrades(i)' = MovedTrades(i) /\ MovedMoney(i)' = MovedMoney(i)
  <2>1. /\ MovedTrades(i)' = IF sent' /\ i = tick'.inst /\ Request'.open
                               THEN Request'.qty - Pending' ELSE 0
        /\ MovedMoney(i)' = IF sent' /\ i = tick'.inst
                              THEN FlowOf(Request', Request'.qty - Pending') ELSE 0
    BY DEF MovedMoney, MovedTrades, FlowOf
  <2> QED
    BY <1>1, <1>2, <1>3, <2>1 DEF MovedMoney, MovedTrades
<1>5. PositionOf(i)' = PositionOf(i)
  BY <1>1 DEF PositionOf
<1>6. AtOnePrice(book[i])' /\ CleanAt(i)' /\ LineAt(i)'
  BY <1>1, SameBook, SameLine DEF Logged
<1>7. PICK pos, b, flat, mult, n, m :
        /\ pos = PositionOf(i) /\ b = book[i] /\ (flat <=> clean[i]) /\ mult = multiplier[i]
        /\ n = MovedTrades(i) /\ m = MovedMoney(i)
  OBVIOUS
<1>8. /\ InDay => AgreeWith(pos, b, flat, mult, n, m)
      /\ Started("strategy")  => OwnReset(b, flat, mult)
      /\ Started("positions") => PositionReset(pos, flat, mult)
  BY <1>7 DEF ColumnsOK, ColumnsAt, AgreeWith, OwnReset, PositionReset
<1>9. (InDay' <=> InDay) /\ \A c : Started(c)' <=> Started(c)
  BY <1>1 DEF InDay, Started
<1>10. pos = PositionOf(i)' /\ b = book'[i] /\ (flat <=> clean'[i]) /\ n = MovedTrades(i)'
       /\ m = MovedMoney(i)'
  BY <1>1, <1>4, <1>5, <1>7
<1>11. /\ InDay' => AgreeWith(pos, b, flat, mult, n, m)
       /\ Started("strategy")'  => OwnReset(b, flat, mult)
       /\ Started("positions")' => PositionReset(pos, flat, mult)
  BY <1>8, <1>9
<1>12. ColumnsAt(i)'
  BY <1>7, <1>10, <1>11, ColumnsNext
<1> QED
  BY <1>6, <1>12 DEF ColumnsOK

LEMMA ColumnsStep ==
  ASSUME max_pos = 1
  PROVE  StrategyInv /\ ColumnsInv /\ [StrategyNext]_allVars => ColumnsInv'
<1> SUFFICES ASSUME StrategyInv, ColumnsInv, [StrategyNext]_allVars PROVE ColumnsInv'
  OBVIOUS
<1>1. CleanType /\ \A i \in Instruments : ColumnsOK(i)
  BY DEF ColumnsInv
<1>2. CleanType'
  BY <1>1, CleanTypeStep
<1>3. ASSUME NEW i \in Instruments PROVE ColumnsOK(i)'
  <2>1. ColumnsOK(i)
    BY <1>1
  <2>2. CASE Broker
    BY <2>1, <2>2, FillColumns, CallColumns DEF Broker
  <2>3. CASE giveOrder
    BY <2>1, <2>3, GiveColumns
  <2>4. CASE bookOrder
    BY <2>1, <2>4, BookColumns
  <2>5. CASE takeTick
    BY <1>1, <2>1, <2>5, TakeColumns
  <2>6. CASE skipTick \/ endOfTick \/ nextTick \/ endDay \/ positionsEndDay
    BY <2>1, <2>6, QuietColumns
  <2>7. CASE positionsTick
    BY <2>1, <2>7, PositionsTickColumns
  <2>8. CASE startDay
    BY <2>1, <2>8, StartDayColumns
  <2>9. CASE strategyStartDay
    BY <2>1, <2>9, StrategyStartColumns
  <2>10. CASE positionsStartDay
    BY <2>1, <2>10, PositionsStartColumns
  <2>11. CASE strategyEndDay
    BY <2>1, <2>11, StrategyEndColumns
  <2>12. CASE UNCHANGED allVars
    BY <2>1, <2>12, StutterColumns
  <2>13. \/ Broker \/ giveOrder \/ bookOrder \/ takeTick \/ positionsTick \/ startDay
         \/ skipTick \/ endOfTick \/ nextTick \/ endDay \/ positionsEndDay
         \/ strategyStartDay \/ positionsStartDay \/ strategyEndDay \/ UNCHANGED allVars
    BY DEF StrategyNext, Positions, Replay, Strategy
  <2> QED
    BY <2>2, <2>3, <2>4, <2>5, <2>6, <2>7, <2>8, <2>9, <2>10, <2>11, <2>12, <2>13
<1> QED
  BY <1>2, <1>3 DEF ColumnsInv

\* The strategy's columns of the day's line and the position manager's agree: the trades
\* of every day, and the profit of a day that begins and ends flat, whatever the order of
\* the two consumers and whatever the prices.  Two things make it so: the money both have
\* counted of a request differs only by what of it is still to be filled, however the
\* average price of an exit is rounded; and with one entry at a time (max_pos_) the
\* book's average price is exact, so that nothing of it stays behind when it is flat.
THEOREM ColumnsAgree ==
  ASSUME max_pos = 1 PROVE StrategySpec => []ResultLinesAgree
<1>1. StrategyInit => StrategyInv /\ ColumnsInv
  BY StrategyInvInit, ColumnsInit
<1>2. (StrategyInv /\ ColumnsInv) /\ [StrategyNext]_allVars => (StrategyInv /\ ColumnsInv)'
  BY StrategyInvStep, ColumnsStep
<1>3. StrategyInv /\ ColumnsInv => ResultLinesAgree
  BY DEF ColumnsInv, ColumnsOK, LineAt, LineAgrees, Logged, ResultLinesAgree
<1> QED
  BY <1>1, <1>2, <1>3, PTL DEF StrategySpec
=============================================================================
