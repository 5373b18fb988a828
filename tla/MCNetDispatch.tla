---------------------------- MODULE MCNetDispatch ----------------------------
(* Two servers whose shares of the request are none or two of its three      *)
(* configurations, or that report no load.                                   *)
EXTENDS NetDispatch

CONSTANTS n1, n2

MCNodes   == {n1, n2}
MCReports == {[cores |-> 1, usage |-> 50], [cores |-> 3, usage |-> 50], [cores |-> 3, usage |-> 0]}
MCConfigs == <<"c1", "c2", "c3">>
=============================================================================
