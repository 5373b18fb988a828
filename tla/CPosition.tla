------------------------------ MODULE CPosition ------------------------------
(***************************************************************************)
(* The position and P&L book of one instrument (interface/                 *)
(* IPositionManager.h): four first-in-first-out queues of open positions,  *)
(* long and short, opened today and before.  Prices and money are integers *)
(* here and doubles in the program.                                        *)
(***************************************************************************)
EXTENDS Integers, SequencesExt

PositionTypes == {"LongToday", "LongYst", "ShortToday", "ShortYst"}

\* PositionItem: is_long and is_today are in the queue an item is in.
Item(price, qty) == [price |-> price, qty |-> qty]

\* TradeInfo
Trade(open, long, today, price, qty) ==
  [open |-> open, long |-> long, today |-> today, price |-> price, qty |-> qty]

\* Items whose quantity is used up leave their queue.
Items  == [price : Int, qty : Nat \ {0}]
Queues == Seq(Items)

CPositions ==
  [LongToday : Queues, LongYst : Queues, ShortToday : Queues, ShortYst : Queues,
   lastPrice : Int, realizedPnL : Int, tradeCount : Int]

EmptyPosition ==
  [LongToday |-> <<>>, LongYst |-> <<>>, ShortToday |-> <<>>, ShortYst |-> <<>>,
   lastPrice |-> 0, realizedPnL |-> 0, tradeCount |-> 0]

SumQty(q) == FoldLeft(LAMBDA s, it : s + it.qty, 0, q)

SumValue(q) == FoldLeft(LAMBDA s, it : s + it.price * it.qty, 0, q)

\* getTotalQtyAmmount(type).qty
TotalQty(pos, type) == SumQty(pos[type])

\* Mark to market: what the longs gained and the shorts lost on their way to price.
OpenPnl(pos, price, multiplier) ==
  LET long  == pos.LongToday \o pos.LongYst
      short == pos.ShortToday \o pos.ShortYst
  IN  multiplier * (  (price * SumQty(long) - SumValue(long))
                    + (SumValue(short) - price * SumQty(short)))

getPositionPnl(pos, multiplier) ==
  pos.realizedPnL + OpenPnl(pos, pos.lastPrice, multiplier)

\* The queue an opening trade goes to, and the one a closing trade takes from:
\* a long trade closes shorts.
OpenQueue(trade) ==
  IF trade.long THEN IF trade.today THEN "LongToday" ELSE "LongYst"
                ELSE IF trade.today THEN "ShortToday" ELSE "ShortYst"

CloseQueue(trade) ==
  IF trade.long THEN IF trade.today THEN "ShortToday" ELSE "ShortYst"
                ELSE IF trade.today THEN "LongToday" ELSE "LongYst"

\* Mutant: shorts and longs gain the same way.
CalcDiffSideless(trade, item) == trade.price - item.price

\* shortCalcPrice and longCalcPrice: the gain per unit when trade closes item.
CalcDiff(trade, item) ==
  IF trade.long THEN item.price - trade.price ELSE trade.price - item.price

Lesser(a, b) == IF a < b THEN a ELSE b

\* Mutant: an item used up stays in the queue.
RemainderEvenEmpty(price, qty) == <<Item(price, qty)>>

\* What is left of a matched item: nothing if it is used up.
Remainder(price, qty) == IF qty = 0 THEN <<>> ELSE <<Item(price, qty)>>

\* One pass of tradeMatchPos over the queue, oldest first: how much of the trade
\* is left, the items not used up, and what the matches realized.
tradeMatchPos(trade, queue) ==
  LET step(acc, item) ==
        LET matched == Lesser(item.qty, acc.left)
        IN  IF acc.left = 0
              THEN [acc EXCEPT !.kept = Append(@, item)]
              ELSE [left     |-> acc.left - matched,
                    kept     |-> acc.kept \o Remainder(item.price, item.qty - matched),
                    realized |-> acc.realized + matched * CalcDiff(trade, item)]
  IN  FoldLeft(step, [left |-> trade.qty, kept |-> <<>>, realized |-> 0], queue)

\* What a closing trade finds no position for; the program prints it and goes on.
Unmatched(pos, trade) ==
  IF trade.open THEN 0 ELSE tradeMatchPos(trade, pos[CloseQueue(trade)]).left

addTrade(pos, trade, multiplier) ==
  IF trade.open
    THEN [pos EXCEPT ![OpenQueue(trade)] = Append(@, Item(trade.price, trade.qty)),
                     !.tradeCount = @ + trade.qty]
    ELSE LET match == tradeMatchPos(trade, pos[CloseQueue(trade)])
         IN  [pos EXCEPT ![CloseQueue(trade)] = match.kept,
                         !.realizedPnL = @ + multiplier * match.realized]

\* resetPnl's loop over one queue: every item is closed at the last price and
\* opened again at it.  The loop walks the deque it changes, from the first to
\* the last of the items that were there when it started; in a deque too long
\* for one block of the library's (20 items or so) its iterator may dangle.
RollQueue(pos, type, multiplier) ==
  LET long  == type \in {"LongToday", "LongYst"}
      today == type \in {"LongToday", "ShortToday"}
      roll(p, item) ==
        LET closed == addTrade(p, Trade(FALSE, ~long, today, pos.lastPrice, item.qty), multiplier)
        IN  addTrade(closed, Trade(TRUE, long, today, pos.lastPrice, item.qty), multiplier)
  IN  FoldLeft(roll, pos, pos[type])

\* Mutant: the loop over yesterday's shorts is left out.
RolledQueuesNoShortYst == <<"ShortToday", "LongToday", "LongYst">>

RolledQueues == <<"ShortToday", "ShortYst", "LongToday", "LongYst">>

resetPnl(pos, multiplier) ==
  LET rolled == FoldLeft(LAMBDA p, type : RollQueue(p, type, multiplier), pos, RolledQueues)
  IN  [rolled EXCEPT !.realizedPnL = 0]
=============================================================================
