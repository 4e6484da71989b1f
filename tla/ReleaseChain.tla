----------------------------- MODULE ReleaseChain ------------------------------
(***************************************************************************)
(* What the serving releases promise their consumers, without writers,     *)
(* transactions, locks, scans or caches: releases only ever get added, at  *)
(* the end of one chain; what was released before the newest one is never  *)
(* touched again; and an answer that is labelled with a release was        *)
(* computed from data no older than that release.                          *)
(***************************************************************************)
EXTENDS Naturals

CONSTANTS Requests, Tokens, Ids

VARIABLES
    version,  \* how often the served data has changed
    chain,    \* the releases by id: predecessor, token, version at the release
    answer    \* the answers given: label and version of the data they were computed from

vars == <<version, chain, answer>>

NoAnswer == [id |-> 0, seq |-> 0]

\* The newest release, 0 before the first.
Newest ==
    IF DOMAIN chain = {} THEN 0
    ELSE CHOOSE i \in DOMAIN chain : \A j \in DOMAIN chain : j <= i

Init ==
    /\ version = 0
    /\ chain = [i \in {} |-> 0]
    /\ answer = [r \in Requests |-> NoAnswer]

Change == version' = version + 1 /\ UNCHANGED <<chain, answer>>

Publish(i) ==
    /\ \A j \in DOMAIN chain : j < i
    /\ \E f \in Tokens :
          chain' = [j \in DOMAIN chain \cup {i} |->
                       IF j = i THEN [prev |-> Newest, fp |-> f, seq |-> version] ELSE chain[j]]
    /\ UNCHANGED <<version, answer>>

\* The token of the newest release may come late.
Fingerprint ==
    /\ DOMAIN chain # {}
    /\ \E f \in Tokens : chain' = [chain EXCEPT ![Newest].fp = f]
    /\ UNCHANGED <<version, answer>>

Answer(r, i) ==
    /\ answer[r] = NoAnswer
    /\ \E v \in chain[i].seq..version : answer' = [answer EXCEPT ![r] = [id |-> i, seq |-> v]]
    /\ UNCHANGED <<version, chain>>

Forget(r) ==
    /\ answer' = [answer EXCEPT ![r] = NoAnswer]
    /\ UNCHANGED <<version, chain>>

Next ==
    \/ Change
    \/ \E i \in Ids : Publish(i)
    \/ Fingerprint
    \/ \E r \in Requests : Forget(r) \/ \E i \in DOMAIN chain : Answer(r, i)

Spec == Init /\ [][Next]_vars
================================================================================
