-------------------------- MODULE MCSessionVersion --------------------------
(* TLC instance of SessionVersion: two sources, one thread of the HTTP     *)
(* server and one of an NMOS connection besides the main thread, and room  *)
(* for several versions in one second.                                     *)
EXTENDS SessionVersion
=============================================================================
