----------------------------- MODULE MCStreamer -----------------------------
(* TLC instance of Streamer: a ring of four files, the configuration's     *)
(* minimum, and files of two chunks, so that a sink may come in the middle *)
(* of one.                                                                 *)
EXTENDS Streamer
=============================================================================
