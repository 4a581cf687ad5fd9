--------------------------- MODULE MCRequestContext ---------------------------
(* Two requests and a call of an event handler among them, for two tenants   *)
(* with a database and one without.                                          *)
EXTENDS RequestContext, TLC

CONSTANTS t1, t2, t3, r1, r2, h1

Symmetry == Permutations(Configured) \cup Permutations(Requests)
=============================================================================
