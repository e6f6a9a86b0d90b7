--------------------------- MODULE MCSapAnnouncer ---------------------------
(* TLC instance of SapAnnouncer: one redundant source whose description    *)
(* changes with its version and with the secondary interface, so that a    *)
(* text can come back while it is being withdrawn.                         *)
EXTENDS SapAnnouncer
=============================================================================
