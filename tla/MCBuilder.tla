----------------------------- MODULE MCBuilder -----------------------------
EXTENDS Builder, TLC

CONSTANTS d1, d2, d3

TwoDirs == {d1, d2}
ThreeDirs == {d1, d2, d3}
Flat == {}
Nested == {<<d2, d1>>}
DirSymmetry == Permutations(ThreeDirs)
=============================================================================
