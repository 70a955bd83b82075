---------------------------- MODULE MCVideoQueue ----------------------------
EXTENDS VideoQueue, TLC

\* Workers are alike, and so are web threads and items.
Symmetry == Permutations(Workers) \cup Permutations(Requests) \cup Permutations(Items)
=============================================================================
