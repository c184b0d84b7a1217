---------------------------- MODULE MCFutexRing ----------------------------
(* FutexRing with a ring of six pages, enough calls to go round it twice   *)
(* and every failure.                                                      *)
EXTENDS FutexRing

AllFailures == {"fork", "client", "server", "signal"}
=============================================================================
