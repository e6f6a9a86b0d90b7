--------------------------- MODULE MCStreamTables ---------------------------
(* TLC instance of StreamTables: two source ids and one sink id, a short   *)
(* name and a long one that is cut to it, one multicast group and one      *)
(* unicast address, and fewer handles than streams, so that the driver     *)
(* also runs full and reuses handles.                                      *)
EXTENDS StreamTables, TLC

CONSTANTS short, long, mc, uc

MCTrunc == [n \in Names |-> short]

MCDestinations == {<<mc, mc>>, <<mc, uc>>}

Symmetry == Permutations(Handles) \cup Permutations(SourceIds)
=============================================================================
