-------------------------- MODULE BatchPublication --------------------------
(***************************************************************************)
(* What a full-load batch promises of the data that is served, without its *)
(* children, its worker or the writers that compete with it: publication   *)
(* goes step by step and only while the batch is running, and the batch is *)
(* done only when everything was published.                                *)
(***************************************************************************)
VARIABLES
    phase,      \* the state of the batch
    serving     \* how far the publication got

vars == << phase, serving >>

(* The swap of the materialized views, the region parts, the release. *)
NextServing ==
    [s \in {"old", "swapped", "refreshed"} |->
        CASE s = "old"       -> "swapped"
          [] s = "swapped"   -> "refreshed"
          [] s = "refreshed" -> "released"]

Init == phase = "absent" /\ serving = "old"

Submit == phase = "absent" /\ phase' = "queued" /\ UNCHANGED serving

Start == phase = "queued" /\ phase' = "running" /\ UNCHANGED serving

Publish ==
    /\ phase = "running"
    /\ serving \in DOMAIN NextServing
    /\ serving' = NextServing[serving]
    /\ UNCHANGED phase

Complete ==
    /\ phase = "running"
    /\ serving = "released"
    /\ phase' = "done"
    /\ UNCHANGED serving

(* Whatever was published stays published. *)
Abandon ==
    /\ phase \in {"queued", "running"}
    /\ phase' \in {"failed", "cancelled"}
    /\ UNCHANGED serving

Next == Submit \/ Start \/ Publish \/ Complete \/ Abandon

Spec == Init /\ [][Next]_vars
=============================================================================
