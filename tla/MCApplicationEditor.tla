------------------------ MODULE MCApplicationEditor ------------------------
(* Three microservices, so that connecting two of them may harm the third.  *)
EXTENDS ApplicationEditor, TLC

CONSTANTS m1, m2, m3, k1, k2, a1, editor, dev, t1

MCFirstTenants == {dev}
=============================================================================
