---------------------------- MODULE MCProductStore ----------------------------
\* Two releases that agree on their first script, and one that does not.
EXTENDS LegacyImport

CONSTANTS first, second, other

BundledScripts == {<<first>>, <<first, second>>, <<other>>}
TwoMoments == {1, 2}
OldFates == {"compiled", "lost"}
OpenerSymmetry == Permutations(Openers)
=============================================================================
