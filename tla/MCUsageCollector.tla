-------------------------- MODULE MCUsageCollector --------------------------
EXTENDS UsageCollector, TLC

Symmetry == Permutations(Interfaces) \cup Permutations(Networks)
=============================================================================
