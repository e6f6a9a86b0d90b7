-------------------------- MODULE MCDriverChannel --------------------------
(* TLC instance of DriverChannel: two threads, one command with data and   *)
(* one without, a late and a lost reply.                                   *)
EXTENDS DriverChannel
=============================================================================
