--------------------------- MODULE MCFeaturesSync ---------------------------
(* Small instances of FeaturesSync for TLC.  Pages do not act on each other: *)
(* one page sees everything a page can see, and leaves room for more edits.  *)
EXTENDS FeaturesSync

CONSTANT c1
=============================================================================
