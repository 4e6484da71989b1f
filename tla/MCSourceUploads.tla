---------------------------- MODULE MCSourceUploads -----------------------------
(***************************************************************************)
(* Everything at once is too large: an instance has a scope, which bounds  *)
(* what it may come to and says what runs beside the requests: nothing,    *)
(* the janitor, a reconciliation and deletions that have to do with        *)
(* objects without a row, or with all that may become of a file.           *)
(***************************************************************************)
EXTENDS SourceUploads, TLC

CONSTANTS
    r1, r2, u1, u2,
    single, other, multi_part,  \* two categories of one file, one of several
    archive, sido,
    Scopes

Kinds == (single :> {archive}) @@ (other :> {archive}) @@ (multi_part :> {archive, sido})

VARIABLE scope

Scope(categories, sessions, uploads, requests, with) ==
    [of |-> categories, sessions |-> sessions, uploads |-> uploads, requests |-> requests,
     with |-> with]

SmallScopes ==
    {Scope({multi_part}, 1, {u1, u2}, {r1, r2}, "nothing"),
     Scope({single}, 2, {u1}, {r1, r2}, "janitor"), Scope({single}, 1, {u1, u2}, {r1}, "janitor"),
     Scope({single}, 1, {u1, u2}, {r1}, "objects"), Scope({single}, 2, {u1}, {r1}, "objects"),
     Scope({single}, 1, {u1}, {r1}, "files")}

TwoCategories == {Scope({single, other}, 2, {u1, u2}, {r1}, "objects")}

Within ==
    /\ \A s \in Sessions : Exists(s) => s <= scope.sessions /\ session[s].category \in scope.of
    /\ \A r \in Requests : req[r].pc = "creating" => req[r].category \in scope.of
    /\ \A u \in Uploads \ scope.uploads : multi[u].st = "unused"
    /\ \A r \in Requests \ scope.requests : req[r].pc = "idle"
    /\ janitor = NoPass \/ scope.with = "janitor"
    /\ \/ scope.with = "files"
       \/ /\ scope.with = "objects"
          /\ \A key \in Keys : /\ file[key] \in {"none", "available"}
                               /\ "file" \notin item[key]
       \/ /\ scan = NoScan /\ \A o \in Operators : order[o] = NoOrder
          /\ \A key \in Keys : file[key] \in {"none", "available"}

MCInit == Init /\ scope \in Scopes
MCNext == Next /\ UNCHANGED scope /\ Within'
MCSpec == MCInit /\ [][MCNext]_<<vars, scope>>

\* Requests are interchangeable, and so are the uploads and the deletions.
Symmetry == Permutations(Requests) \cup Permutations(Uploads) \cup Permutations(Operators)
================================================================================
