---------------------------- MODULE MCAggregates ----------------------------
(* A request and a call of an event handler for the same aggregate; two      *)
(* tenants have a database and one has none.                                 *)
EXTENDS Aggregates, TLC

CONSTANTS t1, t2, t3, r1, h1, T1

Symmetry == Permutations(Configured)
=============================================================================
