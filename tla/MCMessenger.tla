----------------------------- MODULE MCMessenger -----------------------------
(* A portal with two microservices in frames, one with a frame of its own. *)
EXTENDS Messenger

CONSTANTS portal, left, right, inner

MCWindows == {portal, left, right, inner}

MCParent == [w \in MCWindows |-> IF w = inner THEN left ELSE portal]
=============================================================================
