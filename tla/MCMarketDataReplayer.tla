------------------------ MODULE MCMarketDataReplayer ------------------------
(* Two consumers with one or two timers each.  A day has no tick, or three   *)
(* of two instruments, the files overlapping: two of them of one instant, or *)
(* the last after the day's last second.                                     *)
EXTENDS MarketDataReplayer

CONSTANTS i1, i2

MCEventIDs    == {1, 2}
MCDelays      == {1, 2}
MCInstruments == {i1, i2}
MCDataStores  == { [inst \in MCInstruments |-> <<>>],
                   [inst \in MCInstruments |-> IF inst = i1 THEN <<1, 3>> ELSE <<2>>],
                   [inst \in MCInstruments |-> IF inst = i1 THEN <<2>> ELSE <<2, 5>>] }
MCDays        == {<<>>, <<1, 2, 3>>, <<2, 2, 5>>}
=============================================================================
