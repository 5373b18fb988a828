--------------------------- MODULE FakeOrderManager ---------------------------
(***************************************************************************)
(* The simulated broker of one strategy instance: FakeOrderManager         *)
(* (backtestbed/fakeordermanager.cpp) and the position manager it reports  *)
(* its fills to, testPositionManger (backtestbed/testpositionmanager.cpp). *)
(*                                                                         *)
(* All of it runs in the strategy's thread.  submitRequest checks the      *)
(* request against the positions, turns it into orders, and for each order *)
(* tells the subscriber it is new, fills it at once and in full, books the *)
(* fill and tells the subscriber again.  The subscriber may submit from    *)
(* within either call: `calls' is the stack of the submitRequests under    *)
(* way, each of them inside such a call.                                   *)
(***************************************************************************)
EXTENDS CPosition, FiniteSets

CONSTANTS Instruments, Prices, Quantities,
          Submitted,      \* the requests a strategy submits
          multiplier,     \* instrument -> InstrumentInfoFactory's unit multiplier
          InitialCash,    \* what AccountInfo::cash, never initialized, may hold
          Carried,        \* the books a strategy may set up before the first day
          MaxRequests,    \* bounds the number of requests
          MaxDays,        \* bounds the number of days
          MaxDepth        \* bounds the nesting of submitRequest in itself

ASSUME QuantityAssumption == Quantities \subseteq Nat \ {0} /\ Prices \subseteq Nat
ASSUME BoundAssumption    == MaxRequests \in Nat /\ MaxDays \in Nat /\ MaxDepth \in Nat
\* Nothing is opened or realized before the first day.
ASSUME CarriedAssumption  ==
  \A pos \in Carried : /\ pos \in CPositions
                       /\ pos.LongToday = <<>> /\ pos.ShortToday = <<>> /\ pos.realizedPnL = 0
ASSUME MoneyAssumption    == InitialCash \subseteq Int /\ multiplier \in [Instruments -> Int]

VARIABLES requestID_,  \* the next request number
          requests_,   \* request id -> request
          orders_,     \* order id -> order
          positions,   \* allPositions_: instrument -> CPosition
          cash,        \* accountInfo.cash
          calls,       \* the submitRequest calls under way, innermost last
          days,        \* how many days have started
          \* Kept for the properties only:
          told,        \* order id -> the statuses its subscriber was shown
          flow,        \* the money all fills moved, carried positions included
          net,         \* instrument -> what was bought less what was sold
          unmatched,   \* how much of the closing trades found no position
          reentered    \* some submitRequest ran inside another

booksVars == <<positions, cash>>
ghostVars == <<told, flow, net, unmatched, reentered>>
vars == <<requestID_, requests_, orders_, positions, cash, calls, days,
          told, flow, net, unmatched, reentered>>

\* New orders for a security, which is bought or sold, and for a future, which
\* is opened or, with any other flag, closed, long or short.  An SSE cancel or
\* modify is recorded, and that is all.  (Any other type throws, and ends the run.)
SecurityRequests ==
  {q \in [type : {"security"}, inst : Instruments, long : BOOLEAN, open : BOOLEAN,
          price : Prices, qty : Quantities] : q.open = q.long}

FutureRequests ==
  [type : {"future"}, inst : Instruments, long : BOOLEAN, open : BOOLEAN,
   price : Prices, qty : Quantities]

OtherRequests == {[type |-> "other"]}

Requests == SecurityRequests \cup FutureRequests \cup OtherRequests

ASSUME SubmittedAssumption == Submitted \subseteq Requests

\* An order of a request.
Order(id, request, flag, qty, status) ==
  [id |-> id, request |-> request, flag |-> flag, qty |-> qty, filled |-> 0, status |-> status]

PositionOf(inst) == IF inst \in DOMAIN positions THEN positions[inst] ELSE EmptyPosition

\* The map with a key set, which it may or may not have.
NoMap == [x \in {} |-> x]
Put(map, key, value) ==
  [k \in DOMAIN map \cup {key} |-> IF k = key THEN value ELSE map[k]]

\* getPosition: looking a position up creates it.
Touched(inst) == Put(positions, inst, PositionOf(inst))

\* Order ids: the +1 that gives a request's second order its id falls into the
\* low word of the 64-bit id, the request number being the high one.
RequestId(n)     == <<n, 0>>
SecondOrderId(r) == <<r[1], r[2] + 1>>

RequestIds == {RequestId(2 * k) : k \in 0 .. MaxRequests - 1}
OrderIds   == RequestIds \cup {SecondOrderId(r) : r \in RequestIds}

TypeOK ==
  /\ requestID_ \in {2 * k : k \in 0 .. MaxRequests}
  /\ DOMAIN requests_ \subseteq RequestIds
  /\ \A r \in DOMAIN requests_ : requests_[r] \in Requests
  /\ DOMAIN orders_ \subseteq OrderIds
  /\ \A o \in DOMAIN orders_ : /\ orders_[o].id = o
                               /\ orders_[o].status \in {"New", "Filled", "Rejected"}
                               /\ orders_[o].qty \in Nat /\ orders_[o].filled \in Nat
  /\ DOMAIN positions \subseteq Instruments
  /\ \A i \in DOMAIN positions : positions[i] \in CPositions
  /\ cash \in Int
  /\ Len(calls) <= MaxDepth
  /\ days \in 0 .. MaxDays

-----------------------------------------------------------------------------
(* Checking and splitting a request.                                       *)

\* Mutant: a close is only checked against a single queue's side.
CoveredWrongSide(request, pos) ==
  request.qty <= TotalQty(pos, "LongYst") + TotalQty(pos, "LongToday")

\* Is there enough of the other side to close?
Covered(request, pos) ==
  IF request.long
    THEN request.qty <= TotalQty(pos, "ShortYst") + TotalQty(pos, "ShortToday")
    ELSE request.qty <= TotalQty(pos, "LongYst") + TotalQty(pos, "LongToday")

\* checkNewOrderRequestValid: securities are bought with cash and sold from
\* yesterday's longs, futures are opened freely and closed against both queues.
Valid(request) ==
  LET pos == PositionOf(request.inst)
  IN  CASE request.type = "security" ->
             IF request.long THEN request.qty * request.price <= cash
                             ELSE request.qty <= TotalQty(pos, "LongYst")
        [] request.type = "future" -> request.open \/ Covered(request, pos)

\* Mutant: the second order of a split close asks for the full quantity.
RestToCloseFull(request, today) == request.qty

\* What a split close leaves for yesterday's positions.
RestToClose(request, today) == request.qty - Lesser(today, request.qty)

\* The two orders of a close: today's positions first.
CloseOrders(r, request) ==
  LET pos   == PositionOf(request.inst)
      today == TotalQty(pos, IF request.long THEN "ShortToday" ELSE "LongToday")
      rest  == RestToClose(request, today)
  IN  (IF today > 0
         THEN <<Order(r, r, "CloseToday", Lesser(today, request.qty), "New")>> ELSE <<>>)
      \o
      (IF rest > 0
         THEN <<Order(SecondOrderId(r), r, "CloseYst", rest, "New")>> ELSE <<>>)

\* generateSecurityOrder and generateFutureOrder.
OrdersFor(r, request) ==
  IF ~Valid(request) THEN <<Order(r, r, "None", request.qty, "Rejected")>>
  ELSE IF request.type = "future" /\ ~request.open THEN CloseOrders(r, request)
  ELSE <<Order(r, r, "Open", request.qty, "New")>>

-----------------------------------------------------------------------------
(* Booking a fill: testPositionManger::onUpdateOrder.                      *)

\* The trade of a fill.  A security is bought today and sold from yesterday's.
TradeOf(order, request) ==
  CASE request.type = "security" ->
         Trade(request.open, request.long, request.open, request.price, order.qty)
    [] request.type = "future" ->
         Trade(order.flag = "Open", request.long, order.flag \in {"Open", "CloseToday"},
               request.price, order.qty)

\* The money and the quantity a fill of qty moves, seen from the account.
FlowOf(request, qty) == (IF request.long THEN -1 ELSE 1) * qty * request.price * multiplier[request.inst]
NetOf(request, qty)  == (IF request.long THEN 1 ELSE -1) * qty

-----------------------------------------------------------------------------
CarriedNet(pos)        == SumQty(pos.LongYst) - SumQty(pos.ShortYst)
CarriedFlow(pos, mult) == mult * (SumValue(pos.ShortYst) - SumValue(pos.LongYst))

\* A strategy starts with no positions, or with some it put into yesterday's
\* queues through getPosition: the program itself never fills those.
Init ==
  /\ requestID_ = 0
  /\ requests_ = NoMap
  /\ orders_ = NoMap
  /\ cash \in InitialCash
  /\ calls = <<>>
  /\ days = 0
  /\ \E inst \in Instruments, pos \in Carried :
       /\ positions = (IF pos = EmptyPosition THEN NoMap ELSE Put(NoMap, inst, pos))
       /\ net = [i \in Instruments |-> IF i = inst THEN CarriedNet(pos) ELSE 0]
       /\ flow = cash + CarriedFlow(pos, multiplier[inst])
  /\ told = NoMap
  /\ unmatched = 0
  /\ reentered = FALSE

\* NotifyOrder: the subscriber sees the order's status.
Tell(order, status) ==
  told' = Put(told, order.id,
              Append(IF order.id \in DOMAIN told THEN told[order.id] ELSE <<>>, status))

Publish(order) == /\ orders_' = Put(orders_, order.id, order)
                  /\ Tell(order, order.status)

\* Mutant: the request number is not used up.
RequestNumberKept(n) == n

NextRequestNumber(n) == n + 2

\* submitRequest up to its first call of the subscriber, from the strategy's own
\* code or from within such a call.
submitRequest(request) ==
  LET r      == RequestId(requestID_)
      orders == OrdersFor(r, request)
  IN  /\ requestID_ < 2 * MaxRequests
      /\ Len(calls) < MaxDepth
      /\ requestID_' = NextRequestNumber(requestID_)
      /\ requests_' = Put(requests_, r, request)
      /\ reentered' = (reentered \/ calls # <<>>)
      /\ IF request.type = "other"
           THEN UNCHANGED <<orders_, positions, calls, told>>
           ELSE /\ positions' = IF request.open THEN positions ELSE Touched(request.inst)
                /\ Publish(Head(orders))
                /\ calls' = Append(calls, [request |-> request, orders |-> orders])
      /\ UNCHANGED <<cash, days, flow, net, unmatched>>

Call  == calls[Len(calls)]        \* the innermost submitRequest,
Current == Head(Call.orders).id   \* and the order its subscriber is looking at

\* The subscriber returns from the call about the new order: the order is filled
\* in full at its price, booked, and shown again.
FillOrder ==
  LET request == Call.request
      filled  == [orders_[Current] EXCEPT !.filled = orders_[Current].qty, !.status = "Filled"]
      trade   == TradeOf(filled, request)
      pos     == PositionOf(request.inst)
  IN  /\ calls # <<>>
      /\ orders_[Current].status = "New"
      /\ orders_' = [orders_ EXCEPT ![Current] = filled]
      /\ positions' = Put(positions, request.inst, addTrade(pos, trade, multiplier[request.inst]))
      /\ Tell(filled, "Filled")
      /\ flow' = flow + FlowOf(request, filled.qty)
      /\ net' = [net EXCEPT ![request.inst] = @ + NetOf(request, filled.qty)]
      /\ unmatched' = unmatched + Unmatched(pos, trade)
      /\ UNCHANGED <<requestID_, requests_, cash, calls, days, reentered>>

\* handleFutureNew goes on to the second order of a split close.
NextOrder ==
  /\ calls # <<>>
  /\ orders_[Current].status # "New"
  /\ Len(Call.orders) > 1
  /\ Publish(Call.orders[2])
  /\ calls' = [calls EXCEPT ![Len(calls)].orders = Tail(@)]
  /\ UNCHANGED <<requestID_, requests_, booksVars, days, flow, net, unmatched, reentered>>

Return ==
  /\ calls # <<>>
  /\ orders_[Current].status # "New"
  /\ Len(Call.orders) = 1
  /\ calls' = Front(calls)
  /\ UNCHANGED <<requestID_, requests_, orders_, booksVars, days, ghostVars>>

\* updatePrice: only of positions that exist.
onMarketData(inst, price) ==
  /\ calls = <<>>
  /\ inst \in DOMAIN positions
  /\ positions' = [positions EXCEPT ![inst].lastPrice = price]
  /\ UNCHANGED <<requestID_, requests_, orders_, cash, calls, days, ghostVars>>

\* The loop copies each (instrument, position) pair and moves today's longs to
\* yesterday's in the copy.
resetPositionTodayToYst(ps) == ps

SumOver(f) == FoldFunction(+, 0, f)

\* Mutant: the day's profit not banked.
DaysPnlForgotten(ps) == 0

DaysPnl(ps) == SumOver([i \in DOMAIN ps |-> getPositionPnl(ps[i], multiplier[i])])

\* testPositionManger::onStartDay: yesterday's P&L goes to cash, every position
\* is carried on at the last price.  FakeOrderManager::onStartDay, which would
\* clear orders_, is called by nobody.
onStartDay ==
  LET ps == resetPositionTodayToYst(positions)
  IN  /\ calls = <<>>
      /\ days < MaxDays
      /\ cash' = cash + DaysPnl(ps)
      /\ positions' = [i \in DOMAIN ps |->
                         [resetPnl(ps[i], multiplier[i]) EXCEPT !.tradeCount = 0]]
      /\ days' = days + 1
      /\ UNCHANGED <<requestID_, requests_, orders_, calls, ghostVars>>

Submit == \E request \in Submitted : submitRequest(request)
Tick   == \E inst \in Instruments, price \in Prices : onMarketData(inst, price)

Next == Submit \/ FillOrder \/ NextOrder \/ Return \/ Tick \/ onStartDay

Spec == Init /\ [][Next]_vars

-----------------------------------------------------------------------------
(* Properties.                                                             *)

\* The books balance: through partial first-in-first-out matching, split closes
\* and the roll at the start of a day, cash plus realized P&L plus the cost of
\* what is open is the money the fills moved, and the open quantities are what
\* was bought less what was sold.  A close that finds no position breaks it.
BookValue(inst) ==
  LET pos == positions[inst]
  IN  pos.realizedPnL
      + multiplier[inst] * (  SumValue(pos.ShortToday \o pos.ShortYst)
                            - SumValue(pos.LongToday \o pos.LongYst))

BookNet(inst) ==
  LET pos == PositionOf(inst)
  IN  SumQty(pos.LongToday \o pos.LongYst) - SumQty(pos.ShortToday \o pos.ShortYst)

Ledger ==
  unmatched = 0 =>
    /\ cash + SumOver([i \in DOMAIN positions |-> BookValue(i)]) = flow
    /\ \A i \in Instruments : BookNet(i) = net[i]

\* A checked close always finds its positions, unless the subscriber closed them
\* from inside the call that announced the order: the check is not repeated.
UnmatchedOnlyReentrant == unmatched # 0 => reentered

\* Once its submitRequest has returned, a request is rejected as one order that
\* fills nothing, or its orders together fill exactly the quantity asked for.
OrdersOf(r) == {o \in DOMAIN orders_ : orders_[o].request = r}

UnderWay(r) == \E k \in 1 .. Len(calls) : Head(calls[k].orders).request = r

FilledAsRequested ==
  \A r \in DOMAIN requests_ : requests_[r].type # "other" /\ ~UnderWay(r) =>
    \/ \E o \in OrderIds : /\ OrdersOf(r) = {o}
                           /\ orders_[o].status = "Rejected" /\ orders_[o].filled = 0
    \/ /\ \A o \in OrdersOf(r) : orders_[o].status = "Filled"
       /\ SumOver([o \in OrdersOf(r) |-> orders_[o].filled]) = requests_[r].qty

\* The subscriber sees each order once as new and once as filled, or once as
\* rejected, in that order, and no order stays new behind its back.
EveryOrderConcluded ==
  \A o \in DOMAIN orders_ :
    /\ o \in DOMAIN told /\ told[o] \in {<<"New">>, <<"New", "Filled">>, <<"Rejected">>}
    /\ Last(told[o]) = orders_[o].status
    /\ told[o] = <<"New">> => \E k \in 1 .. Len(calls) : Head(calls[k].orders).id = o

\* The start of a day leaves no P&L behind: what was banked is not counted again.
NothingBankedTwice ==
  [][days' # days =>
       \A i \in DOMAIN positions' : getPositionPnl(positions'[i], multiplier[i]) = 0]_vars

\* What the code says of itself and does not do.

\* "retrieve orders relate to the request (some request may produce many orders)"
getOrderDetailByRequestID(r) == IF r \in DOMAIN orders_ THEN {r} ELSE {}

LookupFindsAllOrders ==
  \A r \in DOMAIN requests_ : getOrderDetailByRequestID(r) = OrdersOf(r)

\* "SSE order only sell yst position": a security bought today is sold from the
\* next day on, so a sell is refused only if it asks for more than what was not
\* bought today (tradeCount is what was).
SellsYesterdaysPosition ==
  \A k \in 1 .. Len(calls) :
    LET request == calls[k].request
        order   == orders_[Head(calls[k].orders).id]
    IN  request.type = "security" /\ ~request.long /\ order.status = "Rejected" =>
          LET pos == positions[request.inst]
          IN  request.qty > SumQty(pos.LongToday \o pos.LongYst) - pos.tradeCount
=============================================================================
