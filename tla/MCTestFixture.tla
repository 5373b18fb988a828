--------------------------- MODULE MCTestFixture ---------------------------
(* Two instances, two or three workers and two instruments over Friday,     *)
(* Monday, Tuesday and Wednesday, at most two or three days in memory.      *)
EXTENDS TestFixture, TLC

CONSTANTS w1, w2, w3, i1, i2

MCWorkers     == {w1, w2}
MCWorkers3    == {w1, w2, w3}
MCInstruments == {i1, i2}
MCStartDate   == 5
MCEndDate     == 11

MCSymmetry    == Permutations(MCWorkers3) \cup Permutations(MCInstruments)

MCFetchable   == MCInstruments \X {5, 8, 9, 10}
=============================================================================
