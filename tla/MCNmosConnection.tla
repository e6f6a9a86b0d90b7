-------------------------- MODULE MCNmosConnection --------------------------
(* TLC instance of NmosConnection: two clients and two peers, so that two  *)
(* activations of one receiver overlap with different senders and with a   *)
(* scheduled one, and two changes from elsewhere.                          *)
EXTENDS NmosConnection
=============================================================================
