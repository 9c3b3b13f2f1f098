---------------------------- MODULE MCIndexBuild ----------------------------
EXTENDS IndexBuild, TLC

\* Builds, files and searches are alike.
Symm == Permutations(Builds) \cup Permutations(Files) \cup Permutations(Searches)
=============================================================================
