-------------------------- MODULE MCFakeOrderManager --------------------------
(* One instrument of unit multiplier 2, two prices and two quantities.      *)
EXTENDS FakeOrderManager

CONSTANTS i1

MCInstruments == {i1}
MCPrices      == {1, 2}
MCQuantities  == {1, 2}
MCMultiplier  == (i1 :> 2)
MCCash        == {0, 2}

\* A future is traded two at the price 1 and one at the price 2, a security two at
\* the price 1; and one request of another kind.
MCSubmitted ==
  {q \in FutureRequests : q.qty + q.price = 3}
    \cup {q \in SecurityRequests : q.qty = 2 /\ q.price = 1}
    \cup OtherRequests

MCCarried ==
  {EmptyPosition,
   [EmptyPosition EXCEPT !.LongYst  = <<Item(1, 1), Item(2, 2)>>],
   [EmptyPosition EXCEPT !.ShortYst = <<Item(2, 2)>>]}

\* Only security trades, from nothing.
MCSecurityTrades == {q \in SecurityRequests : q.qty = 2 /\ q.price = 1}
MCNotCarried     == {EmptyPosition}
=============================================================================
