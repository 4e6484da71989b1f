------------------------------- MODULE MCSources -------------------------------
(***************************************************************************)
(* Sources with few groups, sets and transactions, each interchangeable.   *)
(* What a group is told of its file is the affair of that group, and what  *)
(* sets do with one another does not depend on how a group came by its     *)
(* state: an instance has a scope, which is one group and one set with     *)
(* all that can happen to the file, or all groups and sets with the        *)
(* transactions that lock a group whose structure is sound, or changes of  *)
(* the content without losses.                                             *)
(***************************************************************************)
EXTENDS Sources, TLC

VARIABLE scope

\* The groups and sets that something has happened to.
UsedSets   == {s \in Sets : set[s].state # "none"}
UsedGroups == {g \in Groups : \/ file[g].state # "available"
                                \/ group[g] # Derived(file[g], TRUE)
                                \/ \E t \in Txs : tx[t].g = g}
              \cup untold \cup UNION {set[s].items : s \in Sets}

Within ==
    CASE scope = "file" -> Cardinality(UsedSets') <= 1 /\ Cardinality(UsedGroups') <= 1
      [] scope = "sets" ->
            /\ untold' = {} /\ \A s \in UsedSets' : set'[s].items = Groups
            /\ \A t \in Txs : tx'[t].pc # "derived" /\ tx'[t].new.passed
      [] scope = "hash" -> \A t \in Txs : ~Bad(tx'[t].new.state)

MCInit == Init /\ scope \in IF MaxContent = 1 THEN {"file", "sets"} ELSE {"hash"}
MCNext == Next /\ UNCHANGED scope /\ Within
MCSpec == MCInit /\ [][MCNext]_<<vars, scope>>

Symmetry == Permutations(Groups) \cup Permutations(Sets) \cup Permutations(Txs)
================================================================================
