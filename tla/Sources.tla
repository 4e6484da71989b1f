-------------------------------- MODULE Sources --------------------------------
(***************************************************************************)
(* Source groups and the match sets that are built from them               *)
(* (infra/source_group_service.py, infra/source_match_set_service.py,      *)
(* rollback_swap of infra/source_rebuild_service.py, the resolve actions   *)
(* of infra/source_reconcile.py; core/source_match_propagation.py and      *)
(* core/source_match_set.py decide).                                       *)
(*                                                                         *)
(* A transaction that changes a group changes a file, derives the state    *)
(* of the group from its files and propagates it: it reads the sets that   *)
(* refer to the group and then updates them by id.  A transaction that     *)
(* validates, activates or restores a set reads the states of the groups.  *)
(* Each locks the row that it works for and reads the others as they are   *)
(* committed (READ COMMITTED), so that the two kinds can miss each other.  *)
(* Some changes of a file are not taken to its group at all.               *)
(*                                                                         *)
(* A transaction's writes become visible when it commits; what it has      *)
(* written or selected FOR UPDATE is locked until then.  A group stands    *)
(* for a group of one file; a set's items are not omitted.                 *)
(***************************************************************************)
EXTENDS Naturals, FiniteSets

CONSTANTS
    Groups,        \* source_file_groups
    Sets,          \* source_match_sets
    Txs,           \* transactions that are open at the same time
    Compositions,  \* bound: the groups that a set may consist of
    MaxContent,    \* bound: contents a file can have
    NoGroup, NoSet, NoHash

ASSUME SourcesAssumption ==
    /\ IsFiniteSet(Sets)
    /\ NoGroup \notin Groups /\ NoSet \notin Sets
    /\ Compositions \subseteq (SUBSET Groups) \ {{}}
    /\ MaxContent \in Nat \ {0}
    /\ \A G \in SUBSET Groups : NoHash \notin [G -> 0..MaxContent]

VARIABLES
    file,   \* the file of each group, as committed
    group,  \* the groups, as committed
    set,    \* the match sets, as committed
    tx,     \* the open transactions
    raced,  \* ghost: sets that were read by one transaction while another that
            \* had to know of it was about to commit
    untold  \* ghost: groups whose file was changed without a word to them, or
            \* while another transaction that had read it was open

vars == <<file, group, set, tx, raced, untold>>

--------------------------------------------------------------------------------
Live        == {"available", "validating", "missing", "quarantined", "delete_failed"}
FileStates  == Live \cup {"soft_deleted", "hard_deleted"}
GroupStates == Live \cup {"soft_deleted"}
SetStates   == {"none", "draft", "validated", "active", "retired", "invalid",
                "revalidatable", "restored_from_backup"}

File    == [state : FileStates, sha : 1..MaxContent]
Group   == [state : GroupStates, passed : BOOLEAN, sha : 0..MaxContent]
Steps   == {"idle", "derived", "changed", "propagating", "checked", "judged", "weighed"}
Effects == {"keep", "alert", "invalid", "revalidatable"}

Hashes == UNION {[G -> 0..MaxContent] : G \in SUBSET Groups}

\* Of a transaction that leaves the file as it is.
NoFile == [state |-> "unwritten", sha |-> 0]

\* recompute_group_derived: a group is as good as its file, and available only if
\* its structure has passed; a deleted file has no hash.
Derived(f, passed) ==
    [state  |-> CASE f.state \notin Live -> "soft_deleted"
                  [] f.state = "available" /\ ~passed -> "validating"
                  [] OTHER -> f.state,
     passed |-> passed,
     sha    |-> IF f.state \in Live THEN f.sha ELSE 0]

\* No hash of groups that are here.
ManifestHash == [g \in {} |-> 0]

\* compute_source_set_hash, as the groups are committed.
SetHash(s) == [g \in set[s].items |-> group[g].sha]

\* _BAD_GROUP_STATES.
Bad(state) == state \in {"missing", "quarantined", "delete_failed", "soft_deleted"}

\* all_groups_available of _coverage.
Whole(s) == \A g \in set[s].items : group[g].state = "available"

Actives == {s \in Sets : set[s].state = "active"}

NoTx == [pc |-> "idle", g |-> NoGroup, s |-> NoSet, old |-> {},
         file |-> NoFile, new |-> [state |-> "available", passed |-> TRUE, sha |-> 1],
         todo |-> [s \in Sets |-> "keep"], held |-> {}, hash |-> NoHash, alert |-> FALSE]

Init ==
    /\ file = [g \in Groups |-> [state |-> "available", sha |-> 1]]
    /\ group = [g \in Groups |-> Derived(file[g], TRUE)]
    /\ set = [s \in Sets |-> [state |-> "none", items |-> {}, alert |-> FALSE,
                              hash |-> NoHash]]
    /\ tx = [t \in Txs |-> NoTx]
    /\ raced = {}
    /\ untold = {}

--------------------------------------------------------------------------------
(* Locks.                                                                  *)

GroupFree(g) == \A t \in Txs : tx[t].g = g => tx[t].pc = "derived"
FileFree(g)  == \A t \in Txs : tx[t].g = g => tx[t].file = NoFile

\* held: the sets that t has selected FOR UPDATE or updated.
RowFree(s) == \A t \in Txs : s \notin tx[t].held

Swapping == {"judged", "weighed"}

\* Faulty: the advisory lock is not taken.
NoLock == \A t \in Txs : tx[t].pc \in Steps

\* SOURCE_MATCH_ACTIVATE, for the transaction.
ActivationLockFree == \A t \in Txs : tx[t].pc \notin Swapping

\* Transactions that have read s and will not look at it again before they commit,
\* and those that have read the state of g for a set.
ReadersOfSet(s)   == {t \in Txs : tx[t].pc = "propagating" /\ tx[t].g \in set[s].items}
ReadersOfGroup(g) == {t \in Txs : /\ tx[t].pc \in {"checked", "judged", "weighed"}
                                  /\ g \in set[tx[t].s].items}

Goes(t, pc) == tx' = [tx EXCEPT ![t].pc = pc]
Done(t)     == tx' = [tx EXCEPT ![t] = NoTx]

--------------------------------------------------------------------------------
(* A group changes.                                                        *)

\* recompute_group_aggregates up to its update of the group, by a transaction that
\* has written f: the file as the transaction sees it, and the verdict on the
\* structure.
Recompute(t, g, pc, f, passed) ==
    /\ tx[t].pc = "idle"
    /\ f # NoFile => FileFree(g)
    /\ tx' = [tx EXCEPT ![t] = [NoTx EXCEPT
                 !.pc = pc, !.g = g, !.file = f,
                 !.new = Derived(IF f = NoFile THEN file[g] ELSE f, passed)]]
    /\ UNCHANGED <<file, group, set, raced, untold>>

\* The group is locked before its file is read, or only by the update.
Locked(t, g, f, passed)   == GroupFree(g) /\ Recompute(t, g, "changed", f, passed)
Unlocked(t, g, f, passed) == Recompute(t, g, "derived", f, passed)

\* UPDATE ops.source_files SET state = to WHERE state IN from.
Update(g, from, to) ==
    IF file[g].state \in from THEN [file[g] EXCEPT !.state = to] ELSE NoFile

\* The active sets, as committed, must not refer to it.
Deletable(g) == \A s \in Actives : g \notin set[s].items

SoftDelete(t, g) ==
    /\ Deletable(g)
    /\ Locked(t, g, Update(g, Live, "soft_deleted"), group[g].passed)

\* The objects have been looked at before the transaction: there and as they were
\* registered, gone, or different.
RestoredStates == {"validating", "missing", "quarantined"}

RestoreGroup(t, g) ==
    /\ group[g].state = "soft_deleted"
    /\ \E to \in RestoredStates :
          Locked(t, g, Update(g, {"soft_deleted"}, to), group[g].passed)

\* A missing or deleted file is not brought back by a validation of the structure.
Revalidate(t, g) ==
    \/ Locked(t, g, Update(g, {"validating", "quarantined"}, "available"), TRUE)
    \/ Locked(t, g, Update(g, {"available", "validating"}, "quarantined"), FALSE)

\* The integrity gate of a rebuild or of a consistency run.
Quarantine(t, g) == Locked(t, g, Update(g, Live, "quarantined"), FALSE)

\* A newer validator.  Its own update of the group leaves out an available one.
RevertValidation(t, g) ==
    IF group[g].state = "available" THEN Unlocked(t, g, NoFile, FALSE)
    ELSE Locked(t, g, NoFile, FALSE)

\* Objects found again for a stub of a restore, or not, or others; any group may be
\* a stub.
Relink(t, g) ==
    \/ file[g].state \in Live /\ Locked(t, g, Update(g, Live, "available"), TRUE)
    \/ Locked(t, g, Update(g, Live, "missing"), FALSE)
    \/ file[g].state \in Live
       /\ \E c \in 1..MaxContent :
             Locked(t, g, [state |-> "quarantined", sha |-> c], FALSE)

\* mark_db_missing, soft_delete_db_row, restore_soft_deleted, delete_object,
\* retry_delete_object and update_hash_after_verify.
Resolutions(g) ==
    {Update(g, FileStates, "missing"), Update(g, FileStates \ {"hard_deleted"}, "soft_deleted"),
     Update(g, {"soft_deleted"}, "validating"), Update(g, {"delete_failed"}, "hard_deleted")}
    \cup (IF Deletable(g) THEN {Update(g, FileStates, "hard_deleted")} ELSE {})
    \cup {[state |-> "validating", sha |-> c] : c \in 1..MaxContent}

\* Of an item that names the group.
Resolve(t, g) == \E f \in Resolutions(g) : Unlocked(t, g, f, group[g].passed)

\* A reconcile run that misses so many objects that it tells the groups.
MassLoss(t, g) ==
    Unlocked(t, g, Update(g, {"available", "validating"}, "missing"), group[g].passed)

\* Storage deletes the object, or fails.
BulkHardDelete(t, g) ==
    /\ Deletable(g) /\ file[g].state \in {"soft_deleted", "quarantined"}
    /\ \E to \in {"hard_deleted", "delete_failed"} :
          Unlocked(t, g, Update(g, FileStates, to), group[g].passed)

\* A file is changed and its group is not.
FileOnly(g, f) ==
    /\ f # NoFile /\ FileFree(g)
    /\ file' = [file EXCEPT ![g] = f]
    /\ untold' = untold \cup {g}
    /\ UNCHANGED <<group, set, tx, raced>>

\* A reconcile run that misses a few.
FileLost(g) == FileOnly(g, Update(g, {"available", "validating"}, "missing"))

\* An item for a duplicate object names a file but no group.
ResolveDuplicate(g) == \E f \in Resolutions(g) : FileOnly(g, f)

\* UPDATE of the group by one that has not locked it.
LockGroup(t) ==
    /\ tx[t].pc = "derived" /\ GroupFree(tx[t].g)
    /\ Goes(t, "changed")
    /\ UNCHANGED <<file, group, set, raced, untold>>

\* Faulty: an active set loses its state as the others do.
InvalidatesAll(s, state) ==
    IF Bad(state) /\ set[s].state \in {"validated", "active"} THEN "invalid"
    ELSE IF state = "available" /\ set[s].state = "invalid" THEN "revalidatable"
    ELSE "keep"

\* Faulty: nothing is done for a group that is soft deleted.
IgnoresDeleted(s, state) ==
    CASE Bad(state) /\ state # "soft_deleted" /\ set[s].state = "active"    -> "alert"
      [] Bad(state) /\ state # "soft_deleted" /\ set[s].state = "validated" -> "invalid"
      [] state = "available" /\ set[s].state = "invalid" -> "revalidatable"
      [] OTHER -> "keep"

\* decide_match_set_transition, for a group that will be in this state.
Effect(s, state) ==
    CASE Bad(state) /\ set[s].state = "active"    -> "alert"
      [] Bad(state) /\ set[s].state = "validated" -> "invalid"
      [] state = "available" /\ set[s].state = "invalid" -> "revalidatable"
      [] OTHER -> "keep"

\* A set of a restored backup waits until all its groups are there; its hash is
\* made before it leaves that state.
Reattached(s, g, state) ==
    /\ set[s].state = "restored_from_backup"
    /\ state = "available"
    /\ \A h \in set[s].items \ {g} : group[h].state = "available"

\* _referencing_match_sets, and what is decided for each of them.
ReadSets(t) ==
    /\ tx[t].pc = "changed"
    /\ LET g == tx[t].g
           state == tx[t].new.state
       IN  tx' = [tx EXCEPT ![t].pc = "propagating",
                    ![t].todo = [s \in Sets |->
                        IF g \notin set[s].items THEN "keep"
                        ELSE IF Reattached(s, g, state) THEN "revalidatable"
                        ELSE Effect(s, state)]]
    /\ UNCHANGED <<file, group, set, raced, untold>>

Updated(s, t) ==
    LET row == set[s]
        g   == tx[t].g
        e   == tx[t].todo[s]
    IN  [row EXCEPT
            !.state = IF e \in {"invalid", "revalidatable"} THEN e ELSE @,
            !.alert = @ \/ e = "alert",
            !.hash  = IF e = "revalidatable" /\ @ = NoHash
                      THEN [SetHash(s) EXCEPT ![g] = tx[t].new.sha] ELSE @]

\* _apply_transition, UPDATE ... WHERE source_match_set_id = s for each of them
\* as soon as its row is free, and the commit.
CommitGroup(t) ==
    /\ tx[t].pc = "propagating"
    /\ LET rows == {s \in Sets : tx[t].todo[s] # "keep"}
       IN  /\ \A s \in rows : RowFree(s)
           /\ set' = [s \in Sets |-> IF s \in rows THEN Updated(s, t) ELSE set[s]]
           /\ raced' = raced
                \cup {tx[u].s : u \in ReadersOfGroup(tx[t].g) \ {t}}
                \cup {s \in rows : ReadersOfSet(s) \ {t} # {}}
    /\ group' = [group EXCEPT ![tx[t].g] = tx[t].new]
    /\ IF tx[t].file = NoFile THEN UNCHANGED <<file, untold>>
       ELSE /\ file' = [file EXCEPT ![tx[t].g] = tx[t].file]
            /\ untold' = IF \E u \in Txs \ {t} : tx[u].g = tx[t].g
                         THEN untold \cup {tx[t].g} ELSE untold \ {tx[t].g}
    /\ Done(t)

--------------------------------------------------------------------------------
(* A match set changes.                                                    *)

CommitSet(t, rows) ==
    /\ set' = rows
    /\ raced' = raced \cup {s \in Sets : rows[s] # set[s] /\ ReadersOfSet(s) # {}}
    /\ Done(t)
    /\ UNCHANGED <<file, group, untold>>

Create(s, state, items, hash) ==
    /\ set[s].state = "none"
    /\ set' = [set EXCEPT ![s].state = state, ![s].items = items, ![s].hash = hash]
    /\ UNCHANGED <<tx, raced>>

CreateDraft(s) ==
    /\ \E items \in Compositions : Create(s, "draft", items, NoHash)
    /\ UNCHANGED <<file, group, untold>>

\* A stub of the set that a backup was taken with, of new groups whose files are
\* missing: groups that no set refers to stand for them.  A manifest may have the
\* hash of the set, which is over other groups.
CreateRestored(s) ==
    \E items \in Compositions, hash \in {NoHash, ManifestHash} :
        /\ \A t \in Txs : tx[t].g \notin items
        /\ \A r \in Sets : set[r].items \cap items = {}
        /\ Create(s, "restored_from_backup", items, hash)
        /\ file' = [g \in Groups |-> IF g \in items
                        THEN [file[g] EXCEPT !.state = "missing"] ELSE file[g]]
        /\ group' = [g \in Groups |-> IF g \in items
                        THEN [state |-> "missing", passed |-> FALSE, sha |-> 0]
                        ELSE group[g]]
        /\ untold' = untold \ items

Validatable(s) ==
    \/ set[s].state \in {"draft", "revalidatable"}
    \/ set[s].state = "active" /\ set[s].alert

\* The row is locked before the groups are read: what comes between could as well
\* have come before.
Validate(t, s) ==
    /\ tx[t].pc = "idle"
    /\ RowFree(s)
    /\ Validatable(s) /\ Whole(s)
    /\ tx' = [tx EXCEPT ![t] = [NoTx EXCEPT !.pc = "checked", !.s = s, !.held = {s},
                                            !.hash = SetHash(s)]]
    /\ UNCHANGED <<file, group, set, raced, untold>>

\* An active set stays active and loses its alert.
CommitValidated(t) ==
    /\ tx[t].pc = "checked"
    /\ LET s == tx[t].s
       IN  CommitSet(t, [set EXCEPT ![s] =
              IF @.state = "active" THEN [@ EXCEPT !.alert = FALSE, !.hash = tx[t].hash]
              ELSE [@ EXCEPT !.state = "validated", !.hash = tx[t].hash]])

\* Faulty: what has been validated is not compared with what is there.
AnyHash(s) == set[s].hash \in Hashes

\* The hash of the groups as they are now must be the one that was validated.
HashHolds(s) == set[s].hash = SetHash(s)

Activate(t, s) ==
    /\ tx[t].pc = "idle"
    /\ ActivationLockFree
    /\ \A r \in Actives \cup {s} : RowFree(r)
    /\ set[s].state = "validated" /\ HashHolds(s)
    /\ tx' = [tx EXCEPT ![t] = [NoTx EXCEPT !.pc = "judged", !.s = s, !.old = Actives,
                                            !.held = Actives \cup {s}]]
    /\ UNCHANGED <<file, group, set, raced, untold>>

Activated(t, alert) ==
    [s \in Sets |->
        IF s = tx[t].s THEN [set[s] EXCEPT !.state = "active", !.alert = alert]
        ELSE IF s \in tx[t].old THEN [set[s] EXCEPT !.state = "retired"]
        ELSE set[s]]

CommitActive(t) ==
    /\ tx[t].pc = "judged"
    /\ CommitSet(t, Activated(t, set[tx[t].s].alert))

\* recompute_rollback_integrity_alert.
RolledAlert(s) == ~Whole(s)

\* rollback_swap: a serving release is taken back to one that was built from s,
\* whatever s is by now.  Which set a release was built from is not kept: any that
\* has a hash of its own may be the one.
Rollback(t, s) ==
    /\ tx[t].pc = "idle"
    /\ ActivationLockFree
    /\ set[s].state # "restored_from_backup" /\ set[s].hash # NoHash
    /\ \A a \in Actives : RowFree(a)
    /\ tx' = [tx EXCEPT ![t] = [NoTx EXCEPT !.pc = "weighed", !.s = s, !.old = Actives,
                                            !.held = Actives, !.alert = RolledAlert(s)]]
    /\ UNCHANGED <<file, group, set, raced, untold>>

CommitRollback(t) ==
    /\ tx[t].pc = "weighed"
    /\ \A u \in Txs \ {t} : tx[t].s \notin tx[u].held
    /\ CommitSet(t, Activated(t, tx[t].alert))

Retirable(s) == set[s].state \notin {"none", "retired"}

\* The constraint on the hash refuses it for a set without one.
Retire(s) ==
    /\ RowFree(s)
    /\ Retirable(s) /\ set[s].hash # NoHash
    /\ set' = [set EXCEPT ![s].state = "retired"]
    /\ raced' = IF ReadersOfSet(s) # {} THEN raced \cup {s} ELSE raced
    /\ UNCHANGED <<file, group, tx, untold>>

\* An exception, a deadlock that the database resolves, a crash.
Abort(t) ==
    /\ tx[t].pc # "idle"
    /\ Done(t)
    /\ UNCHANGED <<file, group, set, raced, untold>>

--------------------------------------------------------------------------------
GroupStep(t) ==
    \/ \E g \in Groups :
          \/ SoftDelete(t, g) \/ RestoreGroup(t, g) \/ Revalidate(t, g)
          \/ Quarantine(t, g) \/ RevertValidation(t, g) \/ Relink(t, g)
          \/ Resolve(t, g) \/ MassLoss(t, g) \/ BulkHardDelete(t, g)
    \/ LockGroup(t)
    \/ ReadSets(t)
    \/ CommitGroup(t)

SetStep(t) ==
    \/ \E s \in Sets : Validate(t, s) \/ Activate(t, s) \/ Rollback(t, s)
    \/ CommitValidated(t) \/ CommitActive(t) \/ CommitRollback(t)

Next ==
    \/ \E t \in Txs : GroupStep(t) \/ SetStep(t) \/ Abort(t)
    \/ \E g \in Groups : FileLost(g) \/ ResolveDuplicate(g)
    \/ \E s \in Sets : CreateDraft(s) \/ CreateRestored(s) \/ Retire(s)

Spec == Init /\ [][Next]_vars

--------------------------------------------------------------------------------
(* Properties.                                                             *)

Set == [state : SetStates, items : SUBSET Groups, alert : BOOLEAN,
        hash : Hashes \cup {NoHash}]

Tx == [pc : Steps, g : Groups \cup {NoGroup}, s : Sets \cup {NoSet},
       old : SUBSET Sets, file : File \cup {NoFile}, new : Group, todo : [Sets -> Effects],
       held : SUBSET Sets, hash : Hashes \cup {NoHash}, alert : BOOLEAN]

\* The state is well typed, a row has one holder, and the constraint on
\* source_set_hash holds, which nothing in the services looks at.
TypeOK ==
    /\ file \in [Groups -> File]
    /\ group \in [Groups -> Group]
    /\ set \in [Sets -> Set]
    /\ tx \in [Txs -> Tx]
    /\ raced \subseteq Sets /\ untold \subseteq Groups
    /\ \A t, u \in Txs : tx[t].held \cap tx[u].held # {} => t = u
    /\ \A s \in Sets :
          /\ set[s].state = "draft" => set[s].hash = NoHash
          /\ set[s].state \notin {"none", "draft", "restored_from_backup"} =>
                set[s].hash # NoHash

\* The unique index on the active set is never what stops a request: activations,
\* rollbacks and retirements that overlap leave at most one active set.
OneActive == Cardinality(Actives) <= 1

Lost(f) == Bad(Derived(f, TRUE).state)

Offered(s) == set[s].state = "validated" \/ (set[s].state = "active" /\ ~set[s].alert)

\* What is lost is seen: as long as no two transactions have missed each other, a
\* set that is offered to a rebuild has no group that is missing, quarantined or
\* deleted, through any sequence of losses, repairs, validations and rollbacks; nor
\* has it such a file, but for the changes of a file that its group is not told of.
LossIsSeen ==
    \A s \in Sets \ raced :
        Offered(s) => \A g \in set[s].items :
            /\ ~Bad(group[g].state)
            /\ g \notin untold => ~Lost(file[g])

\* What the reconcile API says of a resolution (source_reconcile.py:575), and what
\* would have to hold of a run: false, FileLost and ResolveDuplicate do not tell.
FileLossIsSeen ==
    \A s \in Sets \ raced :
        Offered(s) => \A g \in set[s].items : ~Lost(file[g])

Lifecycle ==
    {<<"none", "draft">>, <<"none", "restored_from_backup">>, <<"draft", "validated">>,
     <<"restored_from_backup", "revalidatable">>, <<"revalidatable", "validated">>,
     <<"validated", "active">>, <<"validated", "invalid">>,
     <<"invalid", "revalidatable">>}
    \cup (SetStates \X {"retired"})

Rolled(s) == \E t \in Txs : tx[t].pc = "weighed" /\ tx[t].s = s

\* A set walks its documented lifecycle, except that a rollback makes any set
\* active; in particular an active set is only ever retired.
WalksLifecycle ==
    [][\A s \in Sets \ raced' :
          set'[s].state # set[s].state =>
             \/ <<set[s].state, set'[s].state>> \in Lifecycle
             \/ Rolled(s) /\ set'[s].state = "active"]_vars

\* Only what has been validated is activated, although the content of a group can
\* change without a word to the sets: the hash may only have been overtaken by a
\* transaction that was open at the same time.
ActivatesWhatWasValidated ==
    [][\A s \in Sets \ raced' :
          set[s].state = "validated" /\ set'[s].state = "active" /\ ~Rolled(s)
          => set[s].hash = SetHash(s)]_vars

\* A restored set leaves its waiting state with the last of its groups: false, since
\* two groups that come back at the same time do not see each other.
RestoredSetsReattach ==
    \A s \in Sets :
        set[s].state = "restored_from_backup" /\ (\A t \in Txs : tx[t].pc = "idle")
        => ~Whole(s)

\* ADR 049, 12: an active set keeps its state when a group is lost; only sets
\* that are not active become invalid.
ActiveIsNotInvalidated ==
    [][\A s \in Actives : set'[s].state # "invalid"]_vars
================================================================================
