------------------------------- MODULE MCHotSwap -------------------------------
(* HotSwap on a small cluster; requests and contents are interchangeable.  *)
EXTENDS HotSwap, TLC

Symmetry ==
    Permutations(Ops) \cup Permutations(Contents) \cup Permutations(Dbs)
    \cup Permutations(Names \ {Serving})
================================================================================
