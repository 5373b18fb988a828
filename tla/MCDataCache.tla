---------------------------- MODULE MCDataCache ----------------------------
(* Two instances, two workers and two instruments from a Sunday to a       *)
(* Wednesday; at first the directory is empty, or holds the first day in    *)
(* files of the older version, or every file but the last.                  *)
EXTENDS DataCache

CONSTANTS w1, w2, i1, i2

MCWorkers       == {w1, w2}
MCInstruments   == {i1, i2}
MCInstrumentSeq == <<i1, i2>>
MCStartDate     == 7
MCEndDate       == 11
MCFiles         == MCInstruments \X {8, 9, 10}

MCLeftFiles ==
  { [p \in MCFiles |-> "none"],
    [p \in MCFiles |-> IF p[2] = 8 THEN "old" ELSE "none"],
    [p \in MCFiles |-> IF p = <<i2, 10>> THEN "none" ELSE "whole"] }
=============================================================================
