-------------------------- MODULE MCRtspDiscovery --------------------------
(* TLC instance of RtspDiscovery: two tasks, so that one may outlive the   *)
(* removal of the service another one is started for.                      *)
EXTENDS RtspDiscovery
=============================================================================
