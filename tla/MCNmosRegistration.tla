------------------------- MODULE MCNmosRegistration -------------------------
(* TLC instance of NmosRegistration: one source and one sink with enough   *)
(* changes to remove and add each again while the worker is in the middle  *)
(* of a registration, a registry that comes and goes, and one fault.       *)
EXTENDS NmosRegistration
=============================================================================
