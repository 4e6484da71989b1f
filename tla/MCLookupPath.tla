----------------------------- MODULE MCLookupPath ------------------------------
EXTENDS LookupPath, TLC

\* Requests are interchangeable, and so are keys and loads.
Symmetry == Permutations(Requests) \cup Permutations(Keys) \cup Permutations(Loads)

\* One scope of an endpoint under the global one, and the budget of the pollers.
OneOfEach == [geocode |-> 1, address |-> 2, dataset |-> 1]
================================================================================
