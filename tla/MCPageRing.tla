----------------------------- MODULE MCPageRing -----------------------------
(* PageRing with a ring of six pages and enough calls to go round it twice *)
(* and on.                                                                 *)
EXTENDS PageRing
=============================================================================
