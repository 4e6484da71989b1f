--------------------------- MODULE MCServingReleases ---------------------------
EXTENDS ServingReleases, TLC

\* Writers are interchangeable, and so are the contents of the served tables.
Symmetry == Permutations(Writers) \cup Permutations(Contents)
================================================================================
