----------------------------- MODULE MCResultCache -----------------------------
EXTENDS ResultCache, TLC

\* Requests are interchangeable, and so are keys and loads.
Symmetry == Permutations(Requests) \cup Permutations(Keys) \cup Permutations(Loads)
================================================================================
