-------------------------- MODULE MCSingleStrategy --------------------------
(* One instrument, two quotes; a day with a tick in each kind of session,   *)
(* in a pause and after the time of liquidation.                            *)
EXTENDS SingleStrategy

CONSTANTS i1

MCInstruments == {i1}
MCPrices      == {1, 2, 3}
MCQuantities  == {1, 2}
MCMultiplier  == (i1 :> 2)
MCCash        == {0}
MCNotCarried  == {EmptyPosition}

Config(ppl, overNight) ==
  [ppl |-> ppl, threshold_self |-> 1, is_over_night |-> overNight, is_equity |-> overNight,
   opp_start_time |-> 0, opening_time |-> 1, pee_time1 |-> 3, pee_time_end1 |-> 3,
   pee_time2 |-> 5, pee_time_end2 |-> 5, exit_time |-> 6, liquidate_time |-> 8]

MCConfigs   == {Config(1, TRUE), Config(2, FALSE)}
MCTickTimes == {2, 3, 7, 9}
MCQuotes    == {<<1, 2>>, <<2, 3>>}
=============================================================================
