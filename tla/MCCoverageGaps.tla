---------------------------- MODULE MCCoverageGaps ----------------------------
EXTENDS CoverageGaps, TLC

Symmetry == Permutations(Networks)
===============================================================================
