-------------------------- MODULE MCFeaturesTooling --------------------------
EXTENDS FeaturesTooling, TLC

CONSTANTS f, g

\* One feature with a single toggle, one with two; or no file at all.
MCFirstTexts == {NoFeatures, [NoFeatures EXCEPT ![f] = <<FALSE>>, ![g] = <<FALSE, TRUE>>]}

Symmetry == Permutations(Commands)
=============================================================================
