--------------------------- MODULE MCIs12Control ---------------------------
(* TLC instance of Is12Control: a healthy condition and one in which the   *)
(* second leg brings no packets.                                           *)
EXTENDS Is12Control

Good == [link |-> <<TRUE, TRUE>>, manager |-> "absent", ptp |-> "locked",
         aligned |-> TRUE, legs |-> 2, flow |-> <<TRUE, TRUE>>,
         trouble |-> FALSE, muted |-> "none"]
HalfFlow == [Good EXCEPT !.flow = <<TRUE, FALSE>>]

MCConditions == {Good, HalfFlow}
=============================================================================
