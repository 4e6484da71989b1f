----------------------------- MODULE SourcesProofs ------------------------------
(***************************************************************************)
(* Groups and match sets for any number of them and of transactions: the   *)
(* locks of the services keep one set active and the hashes where the      *)
(* constraints want them, and between transactions that have not missed    *)
(* each other no loss goes unseen.                                         *)
(***************************************************************************)
EXTENDS Sources, FiniteSetTheorems, TLAPS

HasHash(s) ==
    set[s].hash # NoHash /\ set[s].state \notin {"none", "draft", "restored_from_backup"}

\* What a transaction holds and relies on, by its stage.
Shape(t) ==
    LET x == tx[t]
    IN  /\ x.pc = "idle" => x.held = {}
        /\ x.pc \in {"derived", "changed", "propagating"} => x.g \in Groups /\ x.held = {}
        /\ x.pc = "checked" =>
              /\ x.s \in Sets /\ x.held = {x.s} /\ x.hash \in Hashes
              /\ set[x.s].state \in {"draft", "revalidatable", "active"}
        /\ x.pc = "judged" =>
              /\ x.s \in Sets /\ x.old = Actives /\ x.held = Actives \cup {x.s}
              /\ set[x.s].state = "validated"
        /\ x.pc = "weighed" =>
              x.s \in Sets /\ x.old = Actives /\ x.held = Actives /\ HasHash(x.s)
        /\ x.pc = "propagating" => \A s \in Sets : x.todo[s] = "invalid" => HasHash(s)

SwapInv == \A t, u \in Txs : tx[t].pc \in Swapping /\ tx[u].pc \in Swapping => t = u

IInv ==
    /\ TypeOK
    /\ \A t \in Txs : Shape(t)
    /\ \A s \in Sets : set[s].state = "none" => set[s].hash = NoHash
    /\ SwapInv
    /\ \A a, b \in Actives : a = b

--------------------------------------------------------------------------------
LEMMA NoHashApart == NoHash \notin Hashes
  BY SourcesAssumption DEF Hashes

LEMMA NoTxType == NoTx \in Tx
  BY SourcesAssumption DEF NoTx, Tx, Steps, Effects, Group, GroupStates, Live

\* What is hashed of the groups of a set.
LEMMA SetHashType ==
    ASSUME TypeOK, NEW s \in Sets, NEW g, NEW c \in 0..MaxContent
    PROVE  SetHash(s) \in Hashes /\ [SetHash(s) EXCEPT ![g] = c] \in Hashes
<1>1. set[s].items \subseteq Groups /\ \A h \in Groups : group[h].sha \in 0..MaxContent
  BY DEF TypeOK, Set, Group
<1>2. SetHash(s) \in [set[s].items -> 0..MaxContent]
  BY <1>1 DEF SetHash
<1>3. [SetHash(s) EXCEPT ![g] = c] \in [set[s].items -> 0..MaxContent]
  BY <1>2
<1> QED
  BY <1>1, <1>2, <1>3 DEF Hashes

LEMMA SharedInit == Init => IInv
<1> SUFFICES ASSUME Init PROVE IInv
  OBVIOUS
<1>1. set \in [Sets -> Set] /\ tx \in [Txs -> Tx] /\ file \in [Groups -> File]
  BY NoTxType, SourcesAssumption DEF Init, File, FileStates, Live, Set, SetStates
<1>2. group \in [Groups -> Group]
  BY SourcesAssumption DEF Init, Derived, Group, GroupStates, Live
<1> QED
  BY <1>1, <1>2 DEF Init, IInv, TypeOK, Shape, SwapInv, NoTx, Actives, Swapping

\* A step that only opens, advances or ends a transaction.
LEMMA OneTx ==
    ASSUME IInv, NEW t \in Txs, NEW x \in Tx, tx' = [tx EXCEPT ![t] = x],
           UNCHANGED <<file, group, set, untold>>, raced' \subseteq Sets,
           Shape(t)',
           \A u \in Txs \ {t} : x.held \cap tx[u].held = {},
           x.pc \in Swapping => \A u \in Txs : tx[u].pc \notin Swapping
    PROVE  IInv'
<1>1. /\ tx \in [Txs -> Tx] /\ tx'[t] = x /\ \A u \in Txs \ {t} : tx'[u] = tx[u]
      /\ tx' \in [Txs -> Tx]
  BY DEF IInv, TypeOK
<1>2. TypeOK'
  BY <1>1 DEF IInv, TypeOK
<1>3. \A u \in Txs \ {t} : Shape(u)'
  BY <1>1 DEF IInv, Shape, Actives, HasHash
<1>4. SwapInv'
  BY <1>1 DEF IInv, SwapInv
<1> QED
  BY <1>1, <1>2, <1>3, <1>4 DEF IInv, Actives

\* A transaction that changes a group begins: what it writes is a file, and what it
\* derives a group.
Begins(t, g) ==
    \E pc \in {"derived", "changed"}, f \in File \cup {NoFile}, passed \in BOOLEAN :
        Recompute(t, g, pc, f, passed)

LEMMA DerivedType ==
    ASSUME NEW f \in File, NEW passed \in BOOLEAN PROVE Derived(f, passed) \in Group
  BY SourcesAssumption DEF Derived, File, FileStates, Group, GroupStates, Live

LEMMA UpdateType ==
    ASSUME TypeOK, NEW g \in Groups, NEW from, NEW to \in FileStates
    PROVE  Update(g, from, to) \in File \cup {NoFile}
<1>1. file[g] \in File
  BY DEF TypeOK
<1>2. [file[g] EXCEPT !.state = to] \in File
  BY <1>1 DEF File
<1> QED
  BY <1>2 DEF Update

\* What a resolution or a loss makes of a file.
LEMMA FileType ==
    ASSUME TypeOK, NEW g \in Groups
    PROVE  Resolutions(g) \cup {Update(g, {"available", "validating"}, "missing")}
              \subseteq File \cup {NoFile}
<1>1. \A from, to : to \in FileStates => Update(g, from, to) \in File \cup {NoFile}
  BY UpdateType
<1>2. \A c \in 1..MaxContent : [state |-> "validating", sha |-> c] \in File
  BY DEF File, FileStates, Live
<1> QED
  BY <1>1, <1>2 DEF Resolutions, FileStates, Live

LEMMA GroupBegins ==
    ASSUME TypeOK, NEW t \in Txs, NEW g \in Groups,
           \/ SoftDelete(t, g) \/ RestoreGroup(t, g) \/ Revalidate(t, g)
           \/ Quarantine(t, g) \/ RevertValidation(t, g) \/ Relink(t, g)
           \/ Resolve(t, g) \/ MassLoss(t, g) \/ BulkHardDelete(t, g)
    PROVE  Begins(t, g)
<1>1. group[g].passed \in BOOLEAN
  BY DEF TypeOK, Group
<1>2. \A from, to : to \in FileStates => Update(g, from, to) \in File \cup {NoFile}
  BY UpdateType
<1>3. \A f \in File \cup {NoFile}, passed \in BOOLEAN :
         Locked(t, g, f, passed) \/ Unlocked(t, g, f, passed) => Begins(t, g)
  BY DEF Locked, Unlocked, Begins
<1>4. \A c \in 1..MaxContent, state \in FileStates : [state |-> state, sha |-> c] \in File
  BY DEF File
<1>5. FileStates = {"available", "validating", "missing", "quarantined", "delete_failed",
                    "soft_deleted", "hard_deleted"}
  BY DEF FileStates, Live
<1>6. Resolutions(g) \subseteq File \cup {NoFile}
  BY FileType
<1>7. CASE Resolve(t, g) \/ MassLoss(t, g) \/ BulkHardDelete(t, g)
  BY <1>1, <1>2, <1>3, <1>5, <1>6, <1>7 DEF Resolve, MassLoss, BulkHardDelete
<1>8. CASE SoftDelete(t, g) \/ RestoreGroup(t, g) \/ Revalidate(t, g)
  BY <1>1, <1>2, <1>3, <1>5, <1>8 DEF SoftDelete, RestoreGroup, RestoredStates, Revalidate
<1>9. CASE Quarantine(t, g) \/ RevertValidation(t, g) \/ Relink(t, g)
  BY <1>2, <1>3, <1>4, <1>5, <1>9 DEF Quarantine, RevertValidation, Relink
<1> QED
  BY <1>7, <1>8, <1>9

LEMMA BeginKeeps == ASSUME IInv, NEW t \in Txs, NEW g \in Groups, Begins(t, g) PROVE IInv'
<1>1. PICK pc \in {"derived", "changed"}, f \in File \cup {NoFile}, passed \in BOOLEAN :
         Recompute(t, g, pc, f, passed)
  BY DEF Begins
<1> DEFINE new == Derived(IF f = NoFile THEN file[g] ELSE f, passed)
           x == [NoTx EXCEPT !.pc = pc, !.g = g, !.file = f, !.new = new]
<1>2. new \in Group
  BY DerivedType DEF IInv, TypeOK
<1>3. tx' = [tx EXCEPT ![t] = x] /\ UNCHANGED <<file, group, set, untold>> /\ raced' \subseteq Sets
  BY <1>1 DEF Recompute, IInv, TypeOK
<1> HIDE DEF new
<1>4. x \in Tx /\ x.pc \in {"derived", "changed"} /\ x.held = {} /\ x.g = g
  BY <1>2, NoTxType DEF Tx, Steps, NoTx
<1> HIDE DEF x
<1>5. tx'[t] = x
  BY <1>3 DEF IInv, TypeOK
<1>6. Shape(t)'
  BY <1>4, <1>5 DEF Shape
<1>7. x.pc \notin Swapping /\ \A u \in Txs \ {t} : x.held \cap tx[u].held = {}
  BY <1>4 DEF Swapping
<1> QED
  BY <1>3, <1>4, <1>6, <1>7, OneTx

LEMMA LockKeeps == ASSUME IInv, NEW t \in Txs, LockGroup(t) PROVE IInv'
<1> DEFINE x == [tx[t] EXCEPT !.pc = "changed"]
<1>1. tx[t] \in Tx /\ tx \in [Txs -> Tx] /\ tx[t].pc = "derived" /\ Shape(t) /\ TypeOK
  BY DEF IInv, TypeOK, LockGroup
<1>2. x \in Tx /\ x.pc = "changed" /\ x.g = tx[t].g /\ x.held = tx[t].held
  BY <1>1 DEF Tx, Steps
<1>3. tx' = [tx EXCEPT ![t] = x] /\ UNCHANGED <<file, group, set, untold>> /\ raced' \subseteq Sets
  BY <1>1 DEF LockGroup, Goes, TypeOK
<1> HIDE DEF x
<1>4. tx'[t] = x
  BY <1>1, <1>3
<1>5. Shape(t)'
  BY <1>1, <1>2, <1>4 DEF Shape
<1>6. x.pc \notin Swapping /\ \A u \in Txs \ {t} : x.held \cap tx[u].held = {}
  BY <1>1, <1>2 DEF Swapping, Shape
<1> QED
  BY <1>2, <1>3, <1>5, <1>6, OneTx

LEMMA ReadSetsKeeps == ASSUME IInv, NEW t \in Txs, ReadSets(t) PROVE IInv'
<1> DEFINE x == [tx[t] EXCEPT !.pc = "propagating",
                   !.todo = [s \in Sets |->
                        IF tx[t].g \notin set[s].items THEN "keep"
                        ELSE IF Reattached(s, tx[t].g, tx[t].new.state) THEN "revalidatable"
                        ELSE Effect(s, tx[t].new.state)]]
<1>1. tx[t] \in Tx /\ tx \in [Txs -> Tx] /\ tx[t].pc = "changed" /\ Shape(t) /\ TypeOK
  BY DEF IInv, TypeOK, ReadSets
<1>2. \A s \in Sets : Effect(s, tx[t].new.state) \in Effects
  BY DEF Effect, Effects
<1>3. x \in Tx /\ tx' = [tx EXCEPT ![t] = x]
  BY <1>1, <1>2 DEF ReadSets, Tx, Steps, Effects
<1>4. /\ x.pc = "propagating" /\ x.held = tx[t].held /\ x.g = tx[t].g
      /\ \A s \in Sets : x.todo[s] = "invalid" => set[s].state = "validated"
  BY <1>1 DEF Tx, Effect
<1>5. Shape(t)'
  BY <1>1, <1>3, <1>4, NoHashApart DEF ReadSets, Shape, HasHash, TypeOK
<1>6. UNCHANGED <<file, group, set, untold>> /\ raced' \subseteq Sets
  BY <1>1 DEF ReadSets, TypeOK
<1>7. x.pc \notin Swapping /\ \A u \in Txs \ {t} : x.held \cap tx[u].held = {}
  BY <1>1, <1>4 DEF Shape, Swapping
<1> HIDE DEF x
<1> QED
  BY <1>3, <1>5, <1>6, <1>7, OneTx

\* A transaction that is to validate, to activate or to roll back begins.
LEMMA OpenKeeps ==
    ASSUME IInv, NEW t \in Txs, NEW s \in Sets, Validate(t, s) \/ Activate(t, s) \/ Rollback(t, s)
    PROVE  IInv'
<1>1. TypeOK /\ set[s] \in Set /\ set \in [Sets -> Set] /\ tx \in [Txs -> Tx]
  BY DEF IInv, TypeOK
<1>2. Actives \subseteq Sets
  BY DEF Actives
<1>3. SetHash(s) \in Hashes
  <2>1. 1 \in 0..MaxContent
    BY SourcesAssumption
  <2> QED
    BY <1>1, <2>1, SetHashType
<1>4. CASE Validate(t, s)
  <2> DEFINE x == [NoTx EXCEPT !.pc = "checked", !.s = s, !.held = {s}, !.hash = SetHash(s)]
  <2>1. x \in Tx /\ x.pc = "checked" /\ x.s = s /\ x.held = {s} /\ x.hash = SetHash(s)
    BY <1>3, NoTxType DEF Tx, Steps, NoTx
  <2>2. tx' = [tx EXCEPT ![t] = x] /\ UNCHANGED <<file, group, set, raced, untold>>
        /\ set[s].state \in {"draft", "revalidatable", "active"} /\ RowFree(s)
    BY <1>4 DEF Validate, Validatable
  <2>3. Shape(t)'
    BY <1>1, <1>3, <2>1, <2>2 DEF Shape
  <2>4. \A u \in Txs \ {t} : x.held \cap tx[u].held = {}
    BY <2>1, <2>2 DEF RowFree
  <2> QED
    BY <1>1, <2>1, <2>2, <2>3, <2>4, OneTx DEF TypeOK, Swapping
<1>5. CASE Activate(t, s)
  <2> DEFINE x == [NoTx EXCEPT !.pc = "judged", !.s = s, !.old = Actives,
                               !.held = Actives \cup {s}]
  <2>1. x \in Tx /\ x.pc = "judged" /\ x.s = s /\ x.old = Actives /\ x.held = Actives \cup {s}
    BY <1>2, NoTxType DEF Tx, Steps, NoTx
  <2>2. /\ tx' = [tx EXCEPT ![t] = x] /\ UNCHANGED <<file, group, set, raced, untold>>
        /\ set[s].state = "validated" /\ (\A r \in Actives \cup {s} : RowFree(r))
        /\ \A u \in Txs : tx[u].pc \notin Swapping
    BY <1>5 DEF Activate, ActivationLockFree
  <2>3. Shape(t)'
    BY <1>1, <2>1, <2>2 DEF Shape, Actives
  <2>4. \A u \in Txs \ {t} : x.held \cap tx[u].held = {}
    BY <2>1, <2>2 DEF RowFree
  <2> QED
    BY <1>1, <2>1, <2>2, <2>3, <2>4, OneTx DEF TypeOK
<1>6. CASE Rollback(t, s)
  <2> DEFINE x == [NoTx EXCEPT !.pc = "weighed", !.s = s, !.old = Actives, !.held = Actives,
                               !.alert = RolledAlert(s)]
  <2>1. x \in Tx /\ x.pc = "weighed" /\ x.s = s /\ x.old = Actives /\ x.held = Actives
    BY <1>2, NoTxType DEF Tx, Steps, NoTx, RolledAlert
  <2>2. /\ tx' = [tx EXCEPT ![t] = x] /\ UNCHANGED <<file, group, set, raced, untold>>
        /\ set[s].state # "restored_from_backup" /\ set[s].hash # NoHash
        /\ (\A r \in Actives : RowFree(r))
        /\ \A u \in Txs : tx[u].pc \notin Swapping
    BY <1>6 DEF Rollback, ActivationLockFree
  <2>3. HasHash(s)
    BY <2>2 DEF IInv, TypeOK, HasHash
  <2>4. Shape(t)'
    BY <1>1, <2>1, <2>2, <2>3 DEF Shape, Actives, HasHash
  <2>5. \A u \in Txs \ {t} : x.held \cap tx[u].held = {}
    BY <2>1, <2>2 DEF RowFree
  <2> QED
    BY <1>1, <2>1, <2>2, <2>4, <2>5, OneTx DEF TypeOK
<1> QED
  BY <1>4, <1>5, <1>6

\* What the constraint on source_set_hash asks of a row.
HashOK(s) ==
    /\ set[s].state \in {"none", "draft"} => set[s].hash = NoHash
    /\ set[s].state \notin {"none", "draft", "restored_from_backup"} => set[s].hash # NoHash

\* A step that changes rows, and ends the transaction that it is the end of.
LEMMA RowsChange ==
    ASSUME IInv,
           tx' \in [Txs -> Tx], \A u \in Txs : tx'[u] \in {tx[u], NoTx},
           file' \in [Groups -> File], group' \in [Groups -> Group], set' \in [Sets -> Set],
           raced' \subseteq Sets, untold' \subseteq Groups,
           \A s \in Sets : HashOK(s)' /\ (HasHash(s) => HasHash(s)'),
           \A u \in Txs : tx'[u] = tx[u] =>
              /\ \A s \in tx[u].held : set'[s].state = set[s].state
              /\ tx[u].pc \in Swapping => Actives' = Actives,
           \A a, b \in Actives' : a = b
    PROVE  IInv'
<1>1. NoTx.held = {} /\ NoTx.pc = "idle"
  BY DEF NoTx
<1>2. \A u \in Txs : tx'[u].held = {} \/ tx'[u].held = tx[u].held
  BY <1>1
<1>3. TypeOK'
  <2>1. \A t, u \in Txs : tx'[t].held \cap tx'[u].held # {} => t = u
    BY <1>2 DEF IInv, TypeOK
  <2> QED
    BY <2>1 DEF TypeOK, HashOK
<1>4. ASSUME NEW u \in Txs PROVE Shape(u)'
  <2>1. CASE tx'[u] = NoTx
    BY <1>1, <2>1 DEF Shape
  <2>2. CASE tx'[u] = tx[u]
    BY <2>2 DEF IInv, Shape, Swapping
  <2> QED
    BY <2>1, <2>2
<1>5. SwapInv'
  <2>1. \A u \in Txs : tx'[u].pc \in Swapping => tx[u].pc \in Swapping
    BY <1>1 DEF Swapping
  <2> QED
    BY <2>1 DEF IInv, SwapInv
<1>6. \A s \in Sets : set'[s].state = "none" => set'[s].hash = NoHash
  BY DEF HashOK
<1> QED
  BY <1>3, <1>4, <1>5, <1>6 DEF IInv

LEMMA HashesAreOK == ASSUME IInv PROVE \A s \in Sets : HashOK(s)
  BY DEF IInv, TypeOK, HashOK

\* The end of a transaction.
LEMMA DoneEnds ==
    ASSUME IInv, NEW t \in Txs, Done(t)
    PROVE  /\ tx' \in [Txs -> Tx] /\ \A u \in Txs : tx'[u] \in {tx[u], NoTx}
           /\ tx'[t] = NoTx
  BY NoTxType DEF Done, IInv, TypeOK

LEMMA AbortKeeps == ASSUME IInv, NEW t \in Txs, Abort(t) PROVE IInv'
<1>1. UNCHANGED <<file, group, set, raced, untold>> /\ Done(t)
  BY DEF Abort
<1>2. Actives' = Actives
  BY <1>1 DEF Actives
<1>3. \A s \in Sets : HashOK(s)' /\ (HasHash(s) => HasHash(s)')
  BY <1>1, HashesAreOK DEF HashOK, HasHash
<1> QED
  BY <1>1, <1>2, <1>3, DoneEnds, RowsChange DEF IInv, TypeOK

LEMMA CommitGroupKeeps == ASSUME IInv, NEW t \in Txs, CommitGroup(t) PROVE IInv'
<1> DEFINE rows == {s \in Sets : tx[t].todo[s] # "keep"}
<1>1. /\ TypeOK /\ Shape(t) /\ tx[t] \in Tx /\ tx[t].pc = "propagating" /\ tx[t].g \in Groups
      /\ \A s \in Sets : set[s] \in Set /\ HashOK(s)
  BY HashesAreOK DEF IInv, TypeOK, CommitGroup, Shape
<1>2. /\ set' = [s \in Sets |-> IF s \in rows THEN Updated(s, t) ELSE set[s]]
      /\ \A s \in rows : RowFree(s)
      /\ group' = [group EXCEPT ![tx[t].g] = tx[t].new]
      /\ IF tx[t].file = NoFile THEN UNCHANGED <<file, untold>>
         ELSE file' = [file EXCEPT ![tx[t].g] = tx[t].file]
              /\ untold' \in {untold \cup {tx[t].g}, untold \ {tx[t].g}}
      /\ Done(t)
  BY DEF CommitGroup
<1>3. \A u \in Txs : tx[u].pc \in {"checked", "judged", "weighed"} => tx[u].s \in Sets
  BY DEF IInv, Shape
<1>4. raced' \subseteq Sets
  BY <1>1, <1>3 DEF CommitGroup, TypeOK, ReadersOfGroup
<1>5. group' \in [Groups -> Group] /\ file' \in [Groups -> File] /\ untold' \subseteq Groups
  BY <1>1, <1>2 DEF TypeOK, Tx
<1>6. ASSUME NEW s \in rows
      PROVE  /\ set'[s] = Updated(s, t) /\ set'[s] \in Set
             /\ HashOK(s)' /\ (HasHash(s) => HasHash(s)')
             /\ set'[s].state = "active" => set[s].state = "active"
  <2> DEFINE h == [SetHash(s) EXCEPT ![tx[t].g] = tx[t].new.sha]
             e == tx[t].todo[s]
             r == set[s]
  <2>1. h \in Hashes /\ h # NoHash
    <3>1. tx[t].new.sha \in 0..MaxContent
      BY <1>1 DEF Tx, Group
    <3>2. h \in Hashes
      BY <1>1, <3>1, SetHashType
    <3> QED
      BY <3>2, NoHashApart
  <2>2. r \in Set /\ e \in {"alert", "invalid", "revalidatable"}
    BY <1>1 DEF Tx, Effects
  <2>3. set'[s] = [r EXCEPT
            !.state = IF e \in {"invalid", "revalidatable"} THEN e ELSE @,
            !.alert = @ \/ e = "alert",
            !.hash  = IF e = "revalidatable" /\ @ = NoHash THEN h ELSE @]
    BY <1>2 DEF Updated
  <2>4. e = "invalid" => HasHash(s)
    BY <1>1 DEF Shape
  <2> HIDE DEF h, e
  <2>5. (r.alert \/ e = "alert") \in BOOLEAN
    OBVIOUS
  <2>6. set'[s] \in Set
    BY <2>1, <2>2, <2>3, <2>5 DEF Set, SetStates
  <2>7. /\ set'[s].state = IF e \in {"invalid", "revalidatable"} THEN e ELSE r.state
        /\ set'[s].hash = IF e = "revalidatable" /\ r.hash = NoHash THEN h ELSE r.hash
    BY <2>2, <2>3 DEF Set
  <2> QED
    BY <1>1, <1>2, <2>1, <2>2, <2>4, <2>6, <2>7 DEF HashOK, HasHash
<1>7. ASSUME NEW s \in Sets \ rows PROVE set'[s] = set[s]
  BY <1>2
<1>8. set' \in [Sets -> Set]
  BY <1>1, <1>2, <1>6, <1>7
<1>9. \A s \in Sets : HashOK(s)' /\ (HasHash(s) => HasHash(s)')
  BY <1>1, <1>6, <1>7 DEF HashOK, HasHash
<1>10. Actives' \subseteq Actives
  BY <1>6, <1>7 DEF Actives
<1>11. ASSUME NEW u \in Txs
       PROVE  /\ \A s \in tx[u].held : set'[s].state = set[s].state
              /\ tx[u].pc \in Swapping => Actives' = Actives
  <2>1. tx[u].held \subseteq Sets \ rows
    BY <1>1, <1>2 DEF RowFree, TypeOK, Tx
  <2>2. tx[u].pc \in Swapping => Actives \subseteq tx[u].held
    BY DEF IInv, Shape, Swapping
  <2> QED
    BY <1>7, <1>10, <2>1, <2>2 DEF Actives
<1>12. \A a, b \in Actives' : a = b
  BY <1>10 DEF IInv
<1> HIDE DEF rows
<1> QED
  BY <1>2, <1>4, <1>5, <1>8, <1>9, <1>11, <1>12, DoneEnds, RowsChange

\* Who may change a row that another transaction holds, and what a swap relies on.
LEMMA HeldApart ==
    ASSUME IInv, NEW t \in Txs, NEW u \in Txs \ {t}
    PROVE  tx[t].held \cap tx[u].held = {}
  BY DEF IInv, TypeOK

LEMMA CommitValidatedKeeps == ASSUME IInv, NEW t \in Txs, CommitValidated(t) PROVE IInv'
<1> DEFINE s == tx[t].s
           row == IF set[s].state = "active"
                  THEN [set[s] EXCEPT !.alert = FALSE, !.hash = tx[t].hash]
                  ELSE [set[s] EXCEPT !.state = "validated", !.hash = tx[t].hash]
<1>1. /\ TypeOK /\ s \in Sets /\ tx[t].held = {s} /\ tx[t].hash \in Hashes
      /\ set[s].state \in {"draft", "revalidatable", "active"}
      /\ set \in [Sets -> Set] /\ set[s] \in Set
  BY DEF IInv, TypeOK, CommitValidated, Shape
<1>2. /\ set' = [set EXCEPT ![s] = row] /\ Done(t) /\ UNCHANGED <<file, group, untold>>
      /\ raced' \subseteq Sets
  BY <1>1 DEF CommitValidated, CommitSet, TypeOK
<1>3. /\ row \in Set /\ row.hash \in Hashes
      /\ row.state = IF set[s].state = "active" THEN "active" ELSE "validated"
  BY <1>1 DEF Set, SetStates
<1> HIDE DEF row
<1>4. set' \in [Sets -> Set] /\ set'[s] = row /\ \A r \in Sets \ {s} : set'[r] = set[r]
  BY <1>1, <1>2, <1>3
<1>5. \A r \in Sets : HashOK(r)' /\ (HasHash(r) => HasHash(r)')
  BY <1>1, <1>3, <1>4, HashesAreOK, NoHashApart DEF HashOK, HasHash
<1>6. Actives' = Actives
  BY <1>1, <1>3, <1>4 DEF Actives
<1>7. \A u \in Txs : tx'[u] = tx[u] => \A r \in tx[u].held : set'[r].state = set[r].state
  <2> SUFFICES ASSUME NEW u \in Txs, tx'[u] = tx[u], NEW r \in tx[u].held
               PROVE  set'[r].state = set[r].state
    OBVIOUS
  <2>1. u # t
    BY <1>2, DoneEnds DEF CommitValidated, NoTx
  <2>2. r # s /\ r \in Sets
    BY <1>1, <2>1, HeldApart DEF TypeOK, Tx
  <2> QED
    BY <1>4, <2>2
<1> QED
  BY <1>1, <1>2, <1>4, <1>5, <1>6, <1>7, DoneEnds, RowsChange DEF IInv, TypeOK

\* The commit of an activation or of a rollback.
LEMMA SwapKeeps ==
    ASSUME IInv, NEW t \in Txs, tx[t].pc \in Swapping, NEW alert \in BOOLEAN,
           CommitSet(t, Activated(t, alert)),
           \A u \in Txs \ {t} : tx[t].s \notin tx[u].held
    PROVE  IInv'
<1> DEFINE s == tx[t].s
<1>1. /\ TypeOK /\ s \in Sets /\ tx[t].old = Actives /\ Actives \subseteq tx[t].held
      /\ set \in [Sets -> Set] /\ set[s].hash # NoHash
  BY DEF IInv, TypeOK, Shape, Swapping, HasHash
<1>2. /\ set' = Activated(t, alert) /\ Done(t) /\ UNCHANGED <<file, group, untold>>
      /\ raced' \subseteq Sets
  BY <1>1 DEF CommitSet, TypeOK
<1>3. ASSUME NEW r \in Sets
      PROVE  /\ set'[r] \in Set /\ set'[r].hash = set[r].hash
             /\ set'[r].state = IF r = s THEN "active"
                                ELSE IF r \in Actives THEN "retired" ELSE set[r].state
  <2> DEFINE row == set[r]
  <2>1. row \in Set
    BY <1>1
  <2>2. set'[r] = IF r = s THEN [row EXCEPT !.state = "active", !.alert = alert]
                  ELSE IF r \in Actives THEN [row EXCEPT !.state = "retired"] ELSE row
    BY <1>1, <1>2 DEF Activated
  <2> HIDE DEF row
  <2>3. /\ [row EXCEPT !.state = "active", !.alert = alert] \in Set
        /\ [row EXCEPT !.state = "retired"] \in Set
    BY <2>1 DEF Set, SetStates
  <2>4. /\ set'[r] \in Set /\ set'[r].hash = row.hash
        /\ set'[r].state = IF r = s THEN "active"
                           ELSE IF r \in Actives THEN "retired" ELSE row.state
    BY <2>1, <2>2, <2>3 DEF Set
  <2> QED
    BY <2>4 DEF row
<1>4. set' \in [Sets -> Set]
  BY <1>2, <1>3 DEF Activated
<1>5. \A r \in Sets : HashOK(r)' /\ (HasHash(r) => HasHash(r)')
  <2> SUFFICES ASSUME NEW r \in Sets PROVE HashOK(r)' /\ (HasHash(r) => HasHash(r)')
    OBVIOUS
  <2>1. HashOK(r) /\ (r \in Actives => set[r].hash # NoHash)
    BY HashesAreOK DEF Actives, HashOK
  <2> QED
    BY <1>1, <1>3, <2>1 DEF HashOK, HasHash
<1>6. Actives' = {s}
  BY <1>1, <1>3 DEF Actives
<1>7. ASSUME NEW u \in Txs, tx'[u] = tx[u]
      PROVE  /\ \A r \in tx[u].held : set'[r].state = set[r].state
             /\ tx[u].pc \notin Swapping
  <2>1. u # t
    BY <1>2, <1>7, DoneEnds DEF NoTx, Swapping
  <2>2. tx[u].pc \notin Swapping
    BY <2>1 DEF IInv, SwapInv
  <2>3. \A r \in tx[u].held : r \in Sets /\ r # s /\ r \notin Actives
    BY <1>1, <2>1, HeldApart DEF TypeOK, Tx
  <2> QED
    BY <1>3, <2>2, <2>3
<1> QED
  BY <1>1, <1>2, <1>4, <1>5, <1>6, <1>7, DoneEnds, RowsChange DEF TypeOK

LEMMA CommitActiveKeeps == ASSUME IInv, NEW t \in Txs, CommitActive(t) PROVE IInv'
<1>1. /\ tx[t].pc = "judged" /\ tx[t].s \in tx[t].held /\ tx[t].s \in Sets
      /\ set[tx[t].s].alert \in BOOLEAN
  BY DEF CommitActive, IInv, TypeOK, Shape, Set
<1>2. \A u \in Txs \ {t} : tx[t].s \notin tx[u].held
  BY <1>1, HeldApart
<1> QED
  BY <1>1, <1>2, SwapKeeps DEF CommitActive, Swapping

LEMMA CommitRollbackKeeps == ASSUME IInv, NEW t \in Txs, CommitRollback(t) PROVE IInv'
<1>1. tx[t].alert \in BOOLEAN
  BY DEF IInv, TypeOK, Tx
<1> QED
  BY <1>1, SwapKeeps DEF CommitRollback, Swapping

\* No transaction holds a set that does not exist.
LEMMA NoneIsFree ==
    ASSUME IInv, NEW s \in Sets, set[s].state = "none", NEW t \in Txs
    PROVE  s \notin tx[t].held
<1>1. Shape(t) /\ tx[t] \in Tx
  BY DEF IInv, TypeOK
<1> QED
  BY <1>1 DEF Shape, Tx, Steps, Actives

LEMMA CreateKeeps ==
    ASSUME IInv, NEW s \in Sets, NEW state \in {"draft", "restored_from_backup"},
           NEW items \in Compositions, NEW hash \in Hashes \cup {NoHash},
           state = "draft" => hash = NoHash, Create(s, state, items, hash),
           file' \in [Groups -> File], group' \in [Groups -> Group], untold' \subseteq Groups
    PROVE  IInv'
<1> DEFINE row == [set[s] EXCEPT !.state = state, !.items = items, !.hash = hash]
<1>1. TypeOK /\ set \in [Sets -> Set] /\ set[s].state = "none" /\ items \subseteq Groups
  BY SourcesAssumption DEF IInv, TypeOK, Create
<1>2. set' = [set EXCEPT ![s] = row] /\ UNCHANGED <<tx, raced>>
  BY <1>1 DEF Create
<1>3. row \in Set /\ row.state = state /\ row.hash = hash
  BY <1>1 DEF Set, SetStates
<1> HIDE DEF row
<1>4. set' \in [Sets -> Set] /\ set'[s] = row /\ \A r \in Sets \ {s} : set'[r] = set[r]
  BY <1>1, <1>2, <1>3
<1>5. \A r \in Sets : HashOK(r)' /\ (HasHash(r) => HasHash(r)')
  BY <1>1, <1>3, <1>4, HashesAreOK DEF HashOK, HasHash
<1>6. Actives' = Actives
  BY <1>1, <1>3, <1>4 DEF Actives
<1>7. \A u \in Txs : \A r \in tx[u].held : set'[r].state = set[r].state
  BY <1>1, <1>4, NoneIsFree DEF TypeOK, Tx
<1> QED
  BY <1>1, <1>2, <1>4, <1>5, <1>6, <1>7, RowsChange DEF IInv, TypeOK

LEMMA CreatedKeeps ==
    ASSUME IInv, NEW s \in Sets, CreateDraft(s) \/ CreateRestored(s)
    PROVE  IInv'
<1>1. CASE CreateDraft(s)
  BY <1>1, CreateKeeps DEF CreateDraft, IInv, TypeOK
<1>2. CASE CreateRestored(s)
  <2>1. PICK items \in Compositions, hash \in {NoHash, ManifestHash} :
           /\ Create(s, "restored_from_backup", items, hash)
           /\ file' = [g \in Groups |-> IF g \in items
                          THEN [file[g] EXCEPT !.state = "missing"] ELSE file[g]]
           /\ group' = [g \in Groups |-> IF g \in items
                           THEN [state |-> "missing", passed |-> FALSE, sha |-> 0]
                           ELSE group[g]]
           /\ untold' = untold \ items
    BY <1>2 DEF CreateRestored
  <2>2. ManifestHash \in [{} -> 0..MaxContent]
    BY DEF ManifestHash
  <2>3. hash \in Hashes \cup {NoHash}
    BY <2>1, <2>2 DEF Hashes
  <2>4. /\ [state |-> "missing", passed |-> FALSE, sha |-> 0] \in Group
        /\ \A f \in File : [f EXCEPT !.state = "missing"] \in File
    BY SourcesAssumption DEF Group, GroupStates, File, FileStates, Live
  <2>5. file' \in [Groups -> File] /\ group' \in [Groups -> Group] /\ untold' \subseteq Groups
    BY <2>1, <2>4 DEF IInv, TypeOK
  <2> QED
    BY <2>1, <2>3, <2>5, CreateKeeps
<1> QED
  BY <1>1, <1>2

LEMMA RetireKeeps == ASSUME IInv, NEW s \in Sets, Retire(s) PROVE IInv'
<1>1. /\ TypeOK /\ set \in [Sets -> Set] /\ set[s] \in Set /\ RowFree(s)
      /\ set' = [set EXCEPT ![s].state = "retired"] /\ set[s].hash # NoHash
      /\ UNCHANGED <<file, group, tx, untold>> /\ raced' \subseteq Sets
  BY DEF Retire, IInv, TypeOK
<1>2. /\ set' \in [Sets -> Set] /\ set'[s].state = "retired" /\ set'[s].hash = set[s].hash
      /\ \A r \in Sets \ {s} : set'[r] = set[r]
  BY <1>1 DEF Set, SetStates
<1>3. \A r \in Sets : HashOK(r)' /\ (HasHash(r) => HasHash(r)')
  BY <1>1, <1>2, HashesAreOK DEF HashOK, HasHash
<1>4. Actives' = Actives \ {s}
  BY <1>2 DEF Actives
<1>5. ASSUME NEW u \in Txs
      PROVE  /\ \A r \in tx[u].held : set'[r].state = set[r].state
             /\ tx[u].pc \in Swapping => Actives' = Actives
  <2>1. s \notin tx[u].held /\ tx[u].held \subseteq Sets
    BY <1>1 DEF RowFree, TypeOK, Tx
  <2>2. tx[u].pc \in Swapping => Actives \subseteq tx[u].held
    BY DEF IInv, Shape, Swapping
  <2> QED
    BY <1>2, <1>4, <2>1, <2>2
<1>6. \A a, b \in Actives' : a = b
  BY <1>4 DEF IInv
<1> QED
  BY <1>1, <1>2, <1>3, <1>5, <1>6, RowsChange DEF TypeOK

--------------------------------------------------------------------------------
LEMMA FileOnlyKeeps ==
    ASSUME IInv, NEW g \in Groups, FileLost(g) \/ ResolveDuplicate(g)
    PROVE  IInv'
<1>1. PICK f \in Resolutions(g) \cup {Update(g, {"available", "validating"}, "missing")} :
         FileOnly(g, f)
  BY DEF FileLost, ResolveDuplicate
<1>2. f \in File
  <2>1. f \in File \cup {NoFile}
    BY FileType DEF IInv
  <2> QED
    BY <1>1, <2>1 DEF FileOnly
<1>3. /\ file' \in [Groups -> File] /\ untold' \subseteq Groups
      /\ UNCHANGED <<group, set, tx, raced>>
  BY <1>1, <1>2 DEF FileOnly, IInv, TypeOK
<1> QED
  BY <1>3 DEF IInv, TypeOK, Shape, SwapInv, Actives, HasHash

LEMMA StepKeeps == IInv /\ [Next]_vars => IInv'
<1> SUFFICES ASSUME IInv, [Next]_vars PROVE IInv'
  OBVIOUS
<1>1. ASSUME NEW t \in Txs, GroupStep(t) PROVE IInv'
  BY <1>1, GroupBegins, BeginKeeps, LockKeeps, ReadSetsKeeps, CommitGroupKeeps
     DEF GroupStep, IInv
<1>2. ASSUME NEW t \in Txs, SetStep(t) PROVE IInv'
  BY <1>2, OpenKeeps, CommitValidatedKeeps, CommitActiveKeeps, CommitRollbackKeeps
     DEF SetStep
<1>3. ASSUME NEW t \in Txs, Abort(t) PROVE IInv'
  BY <1>3, AbortKeeps
<1>4. ASSUME NEW s \in Sets, CreateDraft(s) \/ CreateRestored(s) PROVE IInv'
  BY <1>4, CreatedKeeps
<1>5. ASSUME NEW s \in Sets, Retire(s) PROVE IInv'
  BY <1>5, RetireKeeps
<1>6. ASSUME NEW g \in Groups, FileLost(g) \/ ResolveDuplicate(g) PROVE IInv'
  BY <1>6, FileOnlyKeeps
<1>7. CASE UNCHANGED vars
  BY <1>7 DEF vars, IInv, TypeOK, Shape, SwapInv, Actives, HasHash
<1> QED
  BY <1>1, <1>2, <1>3, <1>4, <1>5, <1>6, <1>7 DEF Next

\* The strengthening of the two theorems below: every row that a transaction holds is
\* as the transaction read it, and only one transaction is about to swap.
THEOREM SourcesInductive == Spec => []IInv
<1>1. Init => IInv
  BY SharedInit
<1>2. IInv /\ [Next]_vars => IInv'
  BY StepKeeps
<1> QED
  BY <1>1, <1>2, PTL DEF Spec

\* Types, one holder of a row, and the constraint on source_set_hash: none of the
\* updates of the services is ever refused for it.
THEOREM SourcesTypeCorrect == Spec => []TypeOK
<1>1. IInv => TypeOK
  BY DEF IInv
<1> QED
  BY <1>1, SourcesInductive, PTL

\* Activations, rollbacks and retirements of any number of sets in any number of
\* transactions leave at most one active set.
THEOREM OneActiveHolds == Spec => []OneActive
<1>1. IInv => OneActive
  <2> SUFFICES ASSUME IInv PROVE Cardinality(Actives) <= 1
    BY DEF OneActive
  <2>1. CASE Actives = {}
    BY <2>1, FS_EmptySet
  <2>2. CASE Actives # {}
    <3>1. PICK a : a \in Actives
      BY <2>2
    <3>2. Actives = {a}
      BY <3>1 DEF IInv
    <3> QED
      BY <3>2, FS_Singleton
  <2> QED
    BY <2>1, <2>2
<1> QED
  BY <1>1, SourcesInductive, PTL

--------------------------------------------------------------------------------
(* What is lost is seen.                                                   *)

\* What is decided for the sets still is what their states ask for.
TodoInv(t) ==
    tx[t].pc = "propagating" =>
        \A s \in Sets \ raced :
            LET e     == tx[t].todo[s]
                row   == set[s]
                refer == tx[t].g \in row.items
            IN  /\ e # "keep" => refer
                /\ e = "invalid" => row.state = "validated"
                /\ e = "revalidatable" => row.state \in {"invalid", "restored_from_backup"}
                /\ refer /\ Bad(tx[t].new.state) /\ row.state = "active" => e = "alert"
                /\ refer /\ Bad(tx[t].new.state) /\ row.state = "validated" => e = "invalid"

\* What a transaction has read of the groups still is so.
ReadInv(t) ==
    LET s == tx[t].s
    IN  s \notin raced =>
          /\ tx[t].pc = "checked" => Whole(s)
          /\ tx[t].pc = "judged" => HashHolds(s)
          /\ tx[t].pc = "weighed" => tx[t].alert \/ Whole(s)

\* A set that is offered has no bad group.
SetsKnow ==
    \A s \in Sets \ raced :
        set[s].state = "validated" \/ (set[s].state = "active" /\ ~set[s].alert)
        => \A g \in set[s].items : ~Bad(group[g].state)

LInv ==
    /\ SetsKnow
    /\ \A t \in Txs : TodoInv(t) /\ ReadInv(t)
    /\ \A s \in Sets : set[s].state = "none" => set[s].items = {}

LEMMA LossInit == Init => LInv
<1> SUFFICES ASSUME Init PROVE LInv
  OBVIOUS
<1>1. \A s \in Sets : set[s].state = "none" /\ set[s].items = {}
  BY DEF Init
<1>2. \A t \in Txs : tx[t].pc = "idle"
  BY DEF Init, NoTx
<1> QED
  BY <1>1, <1>2 DEF LInv, SetsKnow, TodoInv, ReadInv

\* A step that only opens, advances or ends a transaction.
LEMMA QuietKeeps ==
    ASSUME IInv, LInv, NEW t \in Txs, UNCHANGED <<group, set, raced>>,
           \A u \in Txs \ {t} : tx'[u] = tx[u], TodoInv(t)', ReadInv(t)'
    PROVE  LInv'
<1>1. \A u \in Txs \ {t} : TodoInv(u)' /\ ReadInv(u)'
  BY DEF LInv, TodoInv, ReadInv, Whole, HashHolds, SetHash
<1>2. SetsKnow'
  BY DEF LInv, SetsKnow
<1> QED
  BY <1>1, <1>2 DEF LInv

LEMMA TxMaps == ASSUME IInv PROVE tx \in [Txs -> Tx]
  BY DEF IInv, TypeOK

LEMMA BeginSees ==
    ASSUME IInv, LInv, NEW t \in Txs, NEW g \in Groups, Begins(t, g) \/ LockGroup(t)
    PROVE  LInv'
<1>1. /\ tx'[t].pc \in {"derived", "changed"} /\ \A u \in Txs \ {t} : tx'[u] = tx[u]
      /\ UNCHANGED <<group, set, raced>>
  <2>1. CASE Begins(t, g)
    BY <2>1, TxMaps DEF Begins, Recompute, NoTx
  <2>2. CASE LockGroup(t)
    BY <2>2, TxMaps DEF LockGroup, Goes, Tx
  <2> QED
    BY <2>1, <2>2
<1>2. TodoInv(t)' /\ ReadInv(t)'
  BY <1>1 DEF TodoInv, ReadInv
<1> QED
  BY <1>1, <1>2, QuietKeeps

LEMMA AbortSees == ASSUME IInv, LInv, NEW t \in Txs, Abort(t) PROVE LInv'
<1>1. tx'[t].pc = "idle" /\ \A u \in Txs \ {t} : tx'[u] = tx[u]
  BY TxMaps DEF Abort, Done, NoTx
<1>2. TodoInv(t)' /\ ReadInv(t)'
  BY <1>1 DEF TodoInv, ReadInv
<1> QED
  BY <1>1, <1>2, QuietKeeps DEF Abort

LEMMA ReadSetsSees == ASSUME IInv, LInv, NEW t \in Txs, ReadSets(t) PROVE LInv'
<1> DEFINE g == tx[t].g
           state == tx[t].new.state
           todo == [s \in Sets |->
                       IF g \notin set[s].items THEN "keep"
                       ELSE IF Reattached(s, g, state) THEN "revalidatable"
                       ELSE Effect(s, state)]
<1>1. tx' = [tx EXCEPT ![t].pc = "propagating", ![t].todo = todo] /\ tx[t] \in Tx
      /\ tx \in [Txs -> Tx] /\ UNCHANGED <<group, set, raced>>
  BY DEF ReadSets, IInv, TypeOK
<1>2. /\ tx'[t].pc = "propagating" /\ tx'[t].todo = todo /\ tx'[t].g = g
      /\ tx'[t].new = tx[t].new /\ \A u \in Txs \ {t} : tx'[u] = tx[u]
  BY <1>1 DEF Tx
<1>3. \A s \in Sets :
         LET row == set[s]
         IN  IF g \notin row.items THEN todo[s] = "keep"
             ELSE /\ todo[s] = "invalid" => row.state = "validated"
                  /\ todo[s] = "revalidatable" =>
                        row.state \in {"invalid", "restored_from_backup"}
                  /\ Bad(state) /\ row.state = "active" => todo[s] = "alert"
                  /\ Bad(state) /\ row.state = "validated" => todo[s] = "invalid"
  BY DEF Effect, Reattached
<1> HIDE DEF todo
<1>4. TodoInv(t)' /\ ReadInv(t)'
  BY <1>1, <1>2, <1>3 DEF TodoInv, ReadInv, Bad
<1> QED
  BY <1>1, <1>2, <1>4, QuietKeeps

LEMMA OpenSees ==
    ASSUME IInv, LInv, NEW t \in Txs, NEW s \in Sets,
           Validate(t, s) \/ Activate(t, s) \/ Rollback(t, s)
    PROVE  LInv'
<1>1. /\ UNCHANGED <<group, set, raced>> /\ tx'[t].s = s
      /\ \A u \in Txs \ {t} : tx'[u] = tx[u]
      /\ \/ tx'[t].pc = "checked" /\ Whole(s)
         \/ tx'[t].pc = "judged" /\ HashHolds(s)
         \/ tx'[t].pc = "weighed" /\ (tx'[t].alert \/ Whole(s))
  <2>1. CASE Validate(t, s)
    BY <2>1, TxMaps DEF Validate, NoTx
  <2>2. CASE Activate(t, s)
    BY <2>2, TxMaps DEF Activate, NoTx
  <2>3. CASE Rollback(t, s)
    BY <2>3, TxMaps DEF Rollback, RolledAlert, NoTx
  <2> QED
    BY <2>1, <2>2, <2>3
<1>2. TodoInv(t)' /\ ReadInv(t)'
  BY <1>1 DEF TodoInv, ReadInv, Whole, HashHolds, SetHash
<1> QED
  BY <1>1, <1>2, QuietKeeps

\* A step that changes a row or a group has every transaction that relies on it in
\* raced.
RowStays(u, s) ==
    \/ set'[s] = set[s]
    \/ set'[s].items = set[s].items /\ tx[u].g \notin set[s].items
    \/ set[s].state = "none" /\ set'[s].state \in {"draft", "restored_from_backup"}

GroupsStay(s) ==
    set'[s].items = set[s].items /\ \A g \in set[s].items : group'[g] = group[g]

LEMMA ReadersStay ==
    ASSUME IInv, LInv, raced \subseteq raced',
           \A u \in Txs : \/ tx'[u] = NoTx
                          \/ /\ tx'[u] = tx[u]
                             /\ tx[u].pc = "propagating" =>
                                   \A s \in Sets \ raced' : RowStays(u, s)
                             /\ tx[u].pc \in {"checked", "judged", "weighed"}
                                /\ tx[u].s \notin raced' =>
                                   /\ GroupsStay(tx[u].s)
                                   /\ tx[u].pc = "judged" =>
                                         set'[tx[u].s].hash = set[tx[u].s].hash
    PROVE  \A u \in Txs : TodoInv(u)' /\ ReadInv(u)'
<1> SUFFICES ASSUME NEW u \in Txs PROVE TodoInv(u)' /\ ReadInv(u)'
  OBVIOUS
<1>1. CASE tx'[u] = NoTx
  BY <1>1 DEF NoTx, TodoInv, ReadInv
<1>2. CASE tx'[u] # NoTx
  <2>1. /\ tx'[u] = tx[u]
        /\ tx[u].pc = "propagating" => \A s \in Sets \ raced' : RowStays(u, s)
        /\ tx[u].pc \in {"checked", "judged", "weighed"} /\ tx[u].s \notin raced' =>
              /\ GroupsStay(tx[u].s)
              /\ tx[u].pc = "judged" => set'[tx[u].s].hash = set[tx[u].s].hash
    BY <1>2
  <2>2. TodoInv(u) /\ ReadInv(u)
    BY DEF LInv
  <2>3. TodoInv(u)'
    <3> SUFFICES ASSUME tx[u].pc = "propagating", NEW s \in Sets \ raced'
                 PROVE  LET e     == tx[u].todo[s]
                            row   == set'[s]
                            refer == tx[u].g \in row.items
                        IN  /\ e # "keep" => refer
                            /\ e = "invalid" => row.state = "validated"
                            /\ e = "revalidatable" =>
                                  row.state \in {"invalid", "restored_from_backup"}
                            /\ refer /\ Bad(tx[u].new.state) /\ row.state = "active"
                                  => e = "alert"
                            /\ refer /\ Bad(tx[u].new.state) /\ row.state = "validated"
                                  => e = "invalid"
      BY <2>1 DEF TodoInv, Bad
    <3>1. RowStays(u, s) /\ s \notin raced
      BY <2>1
    <3>2. set[s].state = "none" => tx[u].todo[s] = "keep"
      BY <2>2, <3>1 DEF TodoInv, LInv
    <3> QED
      BY <2>2, <3>1, <3>2 DEF RowStays, TodoInv
  <2>4. ReadInv(u)'
    BY <2>1, <2>2 DEF ReadInv, GroupsStay, Whole, HashHolds, SetHash
  <2> QED
    BY <2>3, <2>4
<1> QED
  BY <1>1, <1>2

LEMMA CommitGroupSees == ASSUME IInv, LInv, NEW t \in Txs, CommitGroup(t) PROVE LInv'
<1> DEFINE rows == {s \in Sets : tx[t].todo[s] # "keep"}
           g == tx[t].g
<1>1. /\ TypeOK /\ tx[t] \in Tx /\ tx[t].pc = "propagating" /\ g \in Groups /\ TodoInv(t)
      /\ set \in [Sets -> Set] /\ group \in [Groups -> Group]
  BY DEF IInv, TypeOK, CommitGroup, Shape, LInv
<1>2. /\ set' = [s \in Sets |-> IF s \in rows THEN Updated(s, t) ELSE set[s]]
      /\ \A s \in rows : RowFree(s)
      /\ raced' = raced \cup {tx[u].s : u \in ReadersOfGroup(g) \ {t}}
                        \cup {s \in rows : ReadersOfSet(s) \ {t} # {}}
      /\ group' = [group EXCEPT ![g] = tx[t].new]
      /\ Done(t)
  BY DEF CommitGroup
<1>3. group'[g] = tx[t].new /\ \A h \in Groups \ {g} : group'[h] = group[h]
  BY <1>1, <1>2
<1>4. ASSUME NEW s \in Sets
      PROVE  /\ set'[s].items = set[s].items
             /\ set'[s].state = IF tx[t].todo[s] \in {"invalid", "revalidatable"}
                                THEN tx[t].todo[s] ELSE set[s].state
             /\ set'[s].alert = (set[s].alert \/ tx[t].todo[s] = "alert")
             /\ tx[t].todo[s] = "keep" => set'[s] = set[s]
  <2> DEFINE h == [SetHash(s) EXCEPT ![g] = tx[t].new.sha]
             e == tx[t].todo[s]
             r == set[s]
  <2>1. r \in Set
    BY <1>1
  <2>2. set'[s] = IF e = "keep" THEN r
                  ELSE [r EXCEPT
                          !.state = IF e \in {"invalid", "revalidatable"} THEN e ELSE @,
                          !.alert = @ \/ e = "alert",
                          !.hash  = IF e = "revalidatable" /\ @ = NoHash THEN h ELSE @]
    BY <1>2 DEF Updated
  <2> HIDE DEF h, e, r
  <2>3. r.alert \in BOOLEAN
    BY <2>1 DEF Set
  <2>4. /\ set'[s].items = r.items
        /\ set'[s].state = IF e \in {"invalid", "revalidatable"} THEN e ELSE r.state
        /\ set'[s].alert = (r.alert \/ e = "alert")
        /\ e = "keep" => set'[s] = r
    BY <2>1, <2>2, <2>3 DEF Set
  <2> QED
    BY <2>4 DEF e, r
<1> HIDE DEF rows
<1>5. ASSUME NEW s \in Sets \ raced', NEW h \in set'[s].items,
             set'[s].state = "validated" \/ (set'[s].state = "active" /\ ~set'[s].alert)
      PROVE  ~Bad(group'[h].state)
  <2>1. /\ s \in Sets \ raced /\ h \in set[s].items /\ set'[s].state = set[s].state
        /\ \/ set[s].state = "validated" /\ tx[t].todo[s] # "invalid"
           \/ set[s].state = "active" /\ ~set[s].alert /\ tx[t].todo[s] # "alert"
    <3>1. s \in Sets /\ s \notin raced
      BY <1>2
    <3>2. set'[s].alert = (set[s].alert \/ tx[t].todo[s] = "alert")
      BY <1>4, <3>1
    <3>3. ~set'[s].alert => ~set[s].alert /\ tx[t].todo[s] # "alert"
      BY <3>2
    <3>4. /\ set'[s].items = set[s].items
          /\ set'[s].state = IF tx[t].todo[s] \in {"invalid", "revalidatable"}
                             THEN tx[t].todo[s] ELSE set[s].state
      BY <1>4, <3>1
    <3> QED
      BY <1>5, <3>1, <3>3, <3>4
  <2>2. CASE h = g
    BY <1>1, <1>3, <2>1, <2>2 DEF TodoInv
  <2>3. CASE h # g
    <3>1. h \in Groups
      BY <1>1, <2>1 DEF Set
    <3> QED
      BY <1>3, <2>1, <2>3, <3>1 DEF LInv, SetsKnow
  <2> QED
    BY <2>2, <2>3
<1>6. ASSUME NEW u \in Txs, tx'[u] # NoTx
      PROVE  /\ tx'[u] = tx[u]
             /\ tx[u].pc = "propagating" => \A s \in Sets \ raced' : RowStays(u, s)
             /\ tx[u].pc \in {"checked", "judged", "weighed"} /\ tx[u].s \notin raced' =>
                   /\ GroupsStay(tx[u].s)
                   /\ tx[u].pc = "judged" => set'[tx[u].s].hash = set[tx[u].s].hash
  <2>1. tx'[u] = tx[u] /\ u # t /\ tx[u] \in Tx
    BY <1>1, <1>2, <1>6, DoneEnds DEF TypeOK
  <2>2. ASSUME tx[u].pc = "propagating", NEW s \in Sets \ raced' PROVE RowStays(u, s)
    <3>1. CASE s \in rows
      <4>1. ReadersOfSet(s) \ {t} = {}
        BY <1>2, <3>1
      <4> QED
        BY <1>4, <2>1, <2>2, <4>1 DEF ReadersOfSet, RowStays
    <3>2. CASE s \notin rows
      BY <1>4, <3>2 DEF RowStays, rows
    <3> QED
      BY <3>1, <3>2
  <2>3. ASSUME tx[u].pc \in {"checked", "judged", "weighed"}, tx[u].s \notin raced'
        PROVE  /\ GroupsStay(tx[u].s)
               /\ tx[u].pc = "judged" => set'[tx[u].s].hash = set[tx[u].s].hash
    <3>1. tx[u].s \in Sets /\ (tx[u].pc = "judged" => tx[u].s \in tx[u].held)
      BY <2>3 DEF IInv, Shape
    <3>2. g \notin set[tx[u].s].items
      BY <1>2, <2>1, <2>3 DEF ReadersOfGroup
    <3>3. set[tx[u].s].items \subseteq Groups
      BY <1>1, <3>1 DEF Set
    <3>4. tx[u].pc = "judged" => tx[u].s \notin rows
      BY <1>2, <3>1 DEF RowFree
    <3> QED
      BY <1>3, <1>4, <3>1, <3>2, <3>3, <3>4 DEF GroupsStay, rows
  <2> QED
    BY <2>1, <2>2, <2>3
<1>7. \A u \in Txs : TodoInv(u)' /\ ReadInv(u)'
  BY <1>2, <1>6, ReadersStay
<1>8. SetsKnow'
  BY <1>5 DEF SetsKnow, Bad
<1>9. \A s \in Sets : set'[s].state = "none" => set'[s].items = {}
  BY <1>4 DEF LInv
<1> QED
  BY <1>7, <1>8, <1>9 DEF LInv

\* The end of a transaction that validates, activates or rolls back.
LEMMA SetCommitSees ==
    ASSUME IInv, LInv, NEW t \in Txs, NEW rows, CommitSet(t, rows),
           \A s \in Sets : rows[s].items = set[s].items
                           /\ (rows[s].state = "none" => set[s].state = "none"),
           \A u \in Txs \ {t} : tx[u].pc = "judged" =>
                                   rows[tx[u].s].hash = set[tx[u].s].hash,
           SetsKnow'
    PROVE  LInv'
<1>1. /\ set' = rows /\ group' = group /\ Done(t) /\ raced \subseteq raced'
      /\ \A s \in Sets \ raced' : rows[s] = set[s] \/ ReadersOfSet(s) = {}
  BY DEF CommitSet
<1>2. ASSUME NEW u \in Txs, tx'[u] # NoTx
      PROVE  /\ tx'[u] = tx[u]
             /\ tx[u].pc = "propagating" => \A s \in Sets \ raced' : RowStays(u, s)
             /\ tx[u].pc \in {"checked", "judged", "weighed"} /\ tx[u].s \notin raced' =>
                   /\ GroupsStay(tx[u].s)
                   /\ tx[u].pc = "judged" => set'[tx[u].s].hash = set[tx[u].s].hash
  <2>1. tx'[u] = tx[u] /\ u # t
    BY <1>1, <1>2, DoneEnds
  <2>2. tx[u].pc = "propagating" => \A s \in Sets \ raced' : RowStays(u, s)
    BY <1>1 DEF RowStays, ReadersOfSet
  <2>3. tx[u].pc \in {"checked", "judged", "weighed"} => tx[u].s \in Sets
    BY DEF IInv, Shape
  <2> QED
    BY <1>1, <2>1, <2>2, <2>3 DEF GroupsStay
<1>3. \A u \in Txs : TodoInv(u)' /\ ReadInv(u)'
  BY <1>1, <1>2, ReadersStay
<1> QED
  BY <1>1, <1>3 DEF LInv

LEMMA CommitValidatedSees ==
    ASSUME IInv, LInv, NEW t \in Txs, CommitValidated(t) PROVE LInv'
<1> DEFINE s == tx[t].s
           row == IF set[s].state = "active"
                  THEN [set[s] EXCEPT !.alert = FALSE, !.hash = tx[t].hash]
                  ELSE [set[s] EXCEPT !.state = "validated", !.hash = tx[t].hash]
           rows == [set EXCEPT ![s] = row]
<1>1. /\ s \in Sets /\ tx[t].held = {s} /\ set \in [Sets -> Set] /\ set[s] \in Set
      /\ tx[t].pc = "checked" /\ ReadInv(t)
  BY DEF IInv, TypeOK, CommitValidated, Shape, LInv
<1>2. CommitSet(t, rows)
  BY DEF CommitValidated
<1>3. row.items = set[s].items /\ row.state \in {"active", "validated"}
  BY <1>1 DEF Set
<1> HIDE DEF row
<1>4. rows[s] = row /\ \A r \in Sets \ {s} : rows[r] = set[r]
  BY <1>1
<1>5. /\ set' = rows /\ group' = group /\ raced \subseteq raced'
  BY <1>2 DEF CommitSet
<1> HIDE DEF rows
<1>6. SetsKnow'
  <2>1. s \notin raced' => \A g \in set[s].items : group[g].state = "available"
    BY <1>1, <1>5 DEF ReadInv, Whole
  <2> QED
    BY <1>3, <1>4, <1>5, <2>1 DEF SetsKnow, LInv, Bad
<1>7. \A u \in Txs \ {t} : tx[u].pc = "judged" => rows[tx[u].s].hash = set[tx[u].s].hash
  <2> SUFFICES ASSUME NEW u \in Txs \ {t}, tx[u].pc = "judged"
               PROVE  rows[tx[u].s].hash = set[tx[u].s].hash
    OBVIOUS
  <2>1. tx[u].s \in Sets /\ tx[u].s \in tx[u].held
    BY DEF IInv, Shape
  <2>2. tx[u].s # s
    BY <1>1, <2>1, HeldApart
  <2> QED
    BY <1>4, <2>1, <2>2
<1>8. \A r \in Sets : rows[r].items = set[r].items
                      /\ (rows[r].state = "none" => set[r].state = "none")
  BY <1>3, <1>4
<1> QED
  BY <1>2, <1>6, <1>7, <1>8, SetCommitSees

\* The rows after an activation or a rollback.
LEMMA ActivatedRows ==
    ASSUME IInv, NEW t \in Txs, tx[t].pc \in Swapping, NEW alert \in BOOLEAN, NEW r \in Sets
    PROVE  LET row == Activated(t, alert)[r]
           IN  /\ row.items = set[r].items /\ row.hash = set[r].hash
               /\ row.state = IF r = tx[t].s THEN "active"
                              ELSE IF r \in Actives THEN "retired" ELSE set[r].state
               /\ row.alert = IF r = tx[t].s THEN alert ELSE set[r].alert
<1> DEFINE old == set[r]
<1>1. tx[t].old = Actives /\ set[r] \in Set
  BY DEF IInv, TypeOK, Shape, Swapping
<1>2. Activated(t, alert)[r] =
         IF r = tx[t].s THEN [old EXCEPT !.state = "active", !.alert = alert]
         ELSE IF r \in Actives THEN [old EXCEPT !.state = "retired"] ELSE old
  BY <1>1 DEF Activated
<1> HIDE DEF old
<1>3. LET row == Activated(t, alert)[r]
      IN  /\ row.items = old.items /\ row.hash = old.hash
          /\ row.state = IF r = tx[t].s THEN "active"
                         ELSE IF r \in Actives THEN "retired" ELSE old.state
          /\ row.alert = IF r = tx[t].s THEN alert ELSE old.alert
  BY <1>1, <1>2 DEF Set, old
<1> QED
  BY <1>3 DEF old

LEMMA SwapSees ==
    ASSUME IInv, LInv, NEW t \in Txs, tx[t].pc \in Swapping, NEW alert \in BOOLEAN,
           CommitSet(t, Activated(t, alert)),
           ~alert /\ tx[t].s \notin raced =>
              \A g \in set[tx[t].s].items : ~Bad(group[g].state)
    PROVE  LInv'
<1> DEFINE s == tx[t].s
           rows == Activated(t, alert)
<1>1. s \in Sets
  BY DEF IInv, Shape, Swapping
<1>2. \A r \in Sets :
         /\ rows[r].items = set[r].items /\ rows[r].hash = set[r].hash
         /\ rows[r].state = IF r = s THEN "active"
                            ELSE IF r \in Actives THEN "retired" ELSE set[r].state
         /\ rows[r].alert = IF r = s THEN alert ELSE set[r].alert
  BY ActivatedRows
<1>3. CommitSet(t, rows)
  OBVIOUS
<1>4. /\ set' = rows /\ group' = group /\ raced \subseteq raced'
  BY <1>3 DEF CommitSet
<1> HIDE DEF rows
<1>5. SetsKnow'
  <2> SUFFICES ASSUME NEW r \in Sets \ raced', NEW g \in rows[r].items,
                      rows[r].state = "validated"
                      \/ (rows[r].state = "active" /\ ~rows[r].alert)
               PROVE  ~Bad(group[g].state)
    BY <1>4 DEF SetsKnow, Bad
  <2>1. r \in Sets \ raced /\ g \in set[r].items
    BY <1>2, <1>4
  <2>2. CASE r = s
    BY <1>2, <2>1, <2>2
  <2>3. CASE r # s
    BY <1>2, <2>1, <2>3 DEF LInv, SetsKnow
  <2> QED
    BY <2>2, <2>3
<1>6. \A u \in Txs : tx[u].pc = "judged" => tx[u].s \in Sets
  BY DEF IInv, Shape
<1>7. \A r \in Sets : rows[r].state = "none" => set[r].state = "none"
  BY <1>2
<1> QED
  BY <1>2, <1>3, <1>5, <1>6, <1>7, SetCommitSees

LEMMA CommitActiveSees == ASSUME IInv, LInv, NEW t \in Txs, CommitActive(t) PROVE LInv'
<1>1. /\ tx[t].pc = "judged" /\ tx[t].s \in Sets /\ set[tx[t].s].alert \in BOOLEAN
      /\ set[tx[t].s].state = "validated"
  BY DEF CommitActive, IInv, TypeOK, Shape, Set
<1>2. tx[t].s \notin raced => \A g \in set[tx[t].s].items : ~Bad(group[g].state)
  BY <1>1 DEF LInv, SetsKnow
<1> QED
  BY <1>1, <1>2, SwapSees DEF CommitActive, Swapping

LEMMA CommitRollbackSees ==
    ASSUME IInv, LInv, NEW t \in Txs, CommitRollback(t) PROVE LInv'
<1>1. tx[t].pc = "weighed" /\ tx[t].alert \in BOOLEAN /\ tx[t].s \in Sets /\ ReadInv(t)
  BY DEF CommitRollback, IInv, TypeOK, Tx, Shape, LInv
<1>2. ~tx[t].alert /\ tx[t].s \notin raced =>
         \A g \in set[tx[t].s].items : ~Bad(group[g].state)
  BY <1>1 DEF ReadInv, Whole, Bad
<1> QED
  BY <1>1, <1>2, SwapSees DEF CommitRollback, Swapping

\* No transaction works for a set that does not exist.
LEMMA NoneIsUnread ==
    ASSUME IInv, NEW s \in Sets, set[s].state = "none", NEW t \in Txs,
           tx[t].pc \in {"checked", "judged", "weighed"}
    PROVE  tx[t].s # s /\ tx[t].s \in Sets
  BY DEF IInv, Shape, HasHash

LEMMA CreateSees ==
    ASSUME IInv, LInv, NEW s \in Sets, NEW state \in {"draft", "restored_from_backup"},
           NEW items, NEW hash, Create(s, state, items, hash),
           \A r \in Sets \ {s} : \A g \in set[r].items : group'[g] = group[g]
    PROVE  LInv'
<1> DEFINE row == [set[s] EXCEPT !.state = state, !.items = items, !.hash = hash]
<1>1. set \in [Sets -> Set] /\ set[s].state = "none"
  BY DEF IInv, TypeOK, Create
<1>2. set' = [set EXCEPT ![s] = row] /\ UNCHANGED <<tx, raced>>
  BY <1>1 DEF Create
<1>3. row.state = state
  BY <1>1 DEF Set
<1> HIDE DEF row
<1>4. set'[s] = row /\ \A r \in Sets \ {s} : set'[r] = set[r]
  BY <1>1, <1>2
<1>5. ASSUME NEW u \in Txs
      PROVE  /\ tx'[u] = tx[u]
             /\ tx[u].pc = "propagating" => \A r \in Sets \ raced' : RowStays(u, r)
             /\ tx[u].pc \in {"checked", "judged", "weighed"} /\ tx[u].s \notin raced' =>
                   /\ GroupsStay(tx[u].s)
                   /\ tx[u].pc = "judged" => set'[tx[u].s].hash = set[tx[u].s].hash
  <2>1. \A r \in Sets : RowStays(u, r)
    BY <1>1, <1>3, <1>4 DEF RowStays
  <2>2. tx[u].pc \in {"checked", "judged", "weighed"} => tx[u].s \in Sets \ {s}
    BY <1>1, NoneIsUnread
  <2> QED
    BY <1>2, <1>4, <2>1, <2>2 DEF GroupsStay
<1>6. \A u \in Txs : TodoInv(u)' /\ ReadInv(u)'
  BY <1>2, <1>5, ReadersStay
<1>7. SetsKnow'
  <2> SUFFICES ASSUME NEW r \in Sets \ raced', NEW g \in set'[r].items,
                      set'[r].state = "validated"
                      \/ (set'[r].state = "active" /\ ~set'[r].alert)
               PROVE  ~Bad(group'[g].state)
    BY DEF SetsKnow, Bad
  <2>1. r \in Sets \ raced /\ r # s
    BY <1>2, <1>3, <1>4
  <2> QED
    BY <1>4, <2>1 DEF LInv, SetsKnow
<1>8. \A r \in Sets : set'[r].state = "none" => set'[r].items = {}
  BY <1>3, <1>4 DEF LInv
<1> QED
  BY <1>6, <1>7, <1>8 DEF LInv

LEMMA CreatedSees ==
    ASSUME IInv, LInv, NEW s \in Sets, CreateDraft(s) \/ CreateRestored(s)
    PROVE  LInv'
<1>1. CASE CreateDraft(s)
  BY <1>1, CreateSees DEF CreateDraft
<1>2. CASE CreateRestored(s)
  <2>1. PICK items \in Compositions, hash \in {NoHash, ManifestHash} :
           /\ \A r \in Sets : set[r].items \cap items = {}
           /\ Create(s, "restored_from_backup", items, hash)
           /\ group' = [g \in Groups |-> IF g \in items
                           THEN [state |-> "missing", passed |-> FALSE, sha |-> 0]
                           ELSE group[g]]
    BY <1>2 DEF CreateRestored
  <2>2. \A r \in Sets : set[r].items \subseteq Groups
    BY DEF IInv, TypeOK, Set
  <2>3. \A r \in Sets \ {s} : \A g \in set[r].items : group'[g] = group[g]
    BY <2>1, <2>2
  <2> QED
    BY <2>1, <2>3, CreateSees
<1> QED
  BY <1>1, <1>2

LEMMA RetireSees == ASSUME IInv, LInv, NEW s \in Sets, Retire(s) PROVE LInv'
<1>1. /\ set \in [Sets -> Set] /\ set' = [set EXCEPT ![s].state = "retired"]
      /\ UNCHANGED <<group, tx>> /\ raced \subseteq raced'
      /\ s \in raced' \/ ReadersOfSet(s) = {}
  BY DEF Retire, IInv, TypeOK
<1>2. /\ set'[s].state = "retired" /\ set'[s].items = set[s].items
      /\ set'[s].hash = set[s].hash /\ \A r \in Sets \ {s} : set'[r] = set[r]
  BY <1>1 DEF Set
<1>3. ASSUME NEW u \in Txs
      PROVE  /\ tx'[u] = tx[u]
             /\ tx[u].pc = "propagating" => \A r \in Sets \ raced' : RowStays(u, r)
             /\ tx[u].pc \in {"checked", "judged", "weighed"} /\ tx[u].s \notin raced' =>
                   /\ GroupsStay(tx[u].s)
                   /\ tx[u].pc = "judged" => set'[tx[u].s].hash = set[tx[u].s].hash
  <2>1. tx[u].pc = "propagating" => \A r \in Sets \ raced' : RowStays(u, r)
    BY <1>1, <1>2 DEF RowStays, ReadersOfSet
  <2>2. tx[u].pc \in {"checked", "judged", "weighed"} => tx[u].s \in Sets
    BY DEF IInv, Shape
  <2> QED
    BY <1>1, <1>2, <2>1, <2>2 DEF GroupsStay
<1>4. \A u \in Txs : TodoInv(u)' /\ ReadInv(u)'
  BY <1>1, <1>3, ReadersStay
<1>5. SetsKnow'
  BY <1>1, <1>2 DEF SetsKnow, LInv, Bad
<1>6. \A r \in Sets : set'[r].state = "none" => set'[r].items = {}
  BY <1>2 DEF LInv
<1> QED
  BY <1>4, <1>5, <1>6 DEF LInv

LEMMA StepSees == IInv /\ LInv /\ [Next]_vars => LInv'
<1> SUFFICES ASSUME IInv, LInv, [Next]_vars PROVE LInv'
  OBVIOUS
<1>1. ASSUME NEW t \in Txs, GroupStep(t) PROVE LInv'
  <2>1. TypeOK /\ (LockGroup(t) => tx[t].g \in Groups)
    BY DEF IInv, LockGroup, Shape
  <2> QED
    BY <1>1, <2>1, GroupBegins, BeginSees, ReadSetsSees, CommitGroupSees DEF GroupStep
<1>2. ASSUME NEW t \in Txs, SetStep(t) PROVE LInv'
  BY <1>2, OpenSees, CommitValidatedSees, CommitActiveSees, CommitRollbackSees
     DEF SetStep
<1>3. ASSUME NEW t \in Txs, Abort(t) PROVE LInv'
  BY <1>3, AbortSees
<1>4. ASSUME NEW s \in Sets, CreateDraft(s) \/ CreateRestored(s) PROVE LInv'
  BY <1>4, CreatedSees
<1>5. ASSUME NEW s \in Sets, Retire(s) PROVE LInv'
  BY <1>5, RetireSees
<1>6. ASSUME NEW g \in Groups, FileLost(g) \/ ResolveDuplicate(g) PROVE LInv'
  BY <1>6 DEF FileLost, ResolveDuplicate, FileOnly, LInv, SetsKnow, TodoInv, ReadInv, Whole,
              HashHolds, SetHash
<1>7. CASE UNCHANGED vars
  BY <1>7 DEF vars, LInv, SetsKnow, TodoInv, ReadInv, Whole, HashHolds, SetHash
<1> QED
  BY <1>1, <1>2, <1>3, <1>4, <1>5, <1>6, <1>7 DEF Next

\* What a transaction has decided or read of a set still holds for every set that no
\* other transaction has missed.
THEOREM ReadsHold == Spec => [](IInv /\ LInv)
<1>1. Init => IInv /\ LInv
  BY SharedInit, LossInit
<1>2. IInv /\ LInv /\ [Next]_vars => (IInv /\ LInv)'
  BY StepKeeps, StepSees
<1> QED
  BY <1>1, <1>2, PTL DEF Spec

\* A group is bad when its file is lost, unless it was not told.
GroupsKnow == \A g \in Groups \ untold : Lost(file[g]) => Bad(group[g].state)

\* So is the group that a transaction is about to write.
TxKnows(t) ==
    LET x == tx[t]
    IN  x.pc \in {"derived", "changed", "propagating"} =>
            IF x.file = NoFile THEN x.g \notin untold /\ Lost(file[x.g]) => Bad(x.new.state)
            ELSE Lost(x.file) => Bad(x.new.state)

KInv == GroupsKnow /\ \A t \in Txs : TxKnows(t)

\* Whether a derived state is bad is a matter of the file alone.
LEMMA DerivedBad == ASSUME NEW f, NEW passed PROVE Bad(Derived(f, passed).state) <=> Lost(f)
  BY DEF Bad, Derived, Lost, Live

LEMMA KnowsInit == Init => KInv
<1> SUFFICES ASSUME Init PROVE KInv
  OBVIOUS
<1>1. \A g \in Groups : group[g] = Derived(file[g], TRUE)
  BY DEF Init
<1>2. \A t \in Txs : tx[t].pc = "idle"
  BY DEF Init, NoTx
<1> QED
  BY <1>1, <1>2 DEF KInv, GroupsKnow, TxKnows, Lost

\* A step that only opens, advances or ends a transaction.
LEMMA QuietKnows ==
    ASSUME KInv, NEW t \in Txs, UNCHANGED <<file, group, untold>>,
           \A u \in Txs \ {t} : tx'[u] = tx[u], TxKnows(t)'
    PROVE  KInv'
<1>1. \A u \in Txs \ {t} : TxKnows(u)'
  BY DEF KInv, TxKnows, Lost, Bad, Derived
<1>2. GroupsKnow'
  BY DEF KInv, GroupsKnow, Lost, Bad, Derived
<1> QED
  BY <1>1, <1>2 DEF KInv

LEMMA BeginKnows ==
    ASSUME IInv, KInv, NEW t \in Txs, NEW g \in Groups, Begins(t, g) PROVE KInv'
<1>1. PICK pc \in {"derived", "changed"}, f \in File \cup {NoFile}, passed \in BOOLEAN :
         Recompute(t, g, pc, f, passed)
  BY DEF Begins
<1> DEFINE seen == IF f = NoFile THEN file[g] ELSE f
           new == Derived(seen, passed)
<1>2. Bad(new.state) <=> Lost(seen)
  BY DerivedBad
<1>3. /\ tx' = [tx EXCEPT ![t] = [NoTx EXCEPT !.pc = pc, !.g = g, !.file = f, !.new = new]]
      /\ UNCHANGED <<file, group, untold>> /\ tx \in [Txs -> Tx]
  BY <1>1 DEF Recompute, IInv, TypeOK
<1> HIDE DEF new
<1>4. /\ tx'[t].g = g /\ tx'[t].file = f /\ tx'[t].new = new
      /\ \A u \in Txs \ {t} : tx'[u] = tx[u]
  BY <1>3 DEF NoTx
<1>5. TxKnows(t)'
  BY <1>2, <1>3, <1>4 DEF TxKnows, Lost, Bad, Derived
<1> QED
  BY <1>3, <1>4, <1>5, QuietKnows

\* A transaction goes on.
LEMMA GoesKnows ==
    ASSUME IInv, KInv, NEW t \in Txs, LockGroup(t) \/ ReadSets(t) PROVE KInv'
<1>1. /\ tx[t].pc \in {"derived", "changed"} /\ TxKnows(t)
      /\ UNCHANGED <<file, group, untold>> /\ tx \in [Txs -> Tx]
  BY DEF LockGroup, ReadSets, KInv, IInv, TypeOK
<1>2. /\ tx'[t].g = tx[t].g /\ tx'[t].file = tx[t].file /\ tx'[t].new = tx[t].new
      /\ \A u \in Txs \ {t} : tx'[u] = tx[u]
  <2>1. CASE LockGroup(t)
    BY <1>1, <2>1 DEF LockGroup, Goes, Tx
  <2>2. CASE ReadSets(t)
    <3>1. PICK todo : tx' = [tx EXCEPT ![t].pc = "propagating", ![t].todo = todo]
      BY <2>2 DEF ReadSets
    <3> QED
      BY <1>1, <3>1 DEF Tx
  <2> QED
    BY <2>1, <2>2
<1>3. TxKnows(t)'
  BY <1>1, <1>2 DEF TxKnows, Lost, Bad, Derived
<1> QED
  BY <1>1, <1>2, <1>3, QuietKnows

\* A transaction that has written no file ends.
LEMMA DoneKnows ==
    ASSUME IInv, KInv, NEW t \in Txs, Done(t), UNCHANGED <<file, group, untold>> PROVE KInv'
<1>1. tx'[t] = NoTx /\ \A u \in Txs \ {t} : tx'[u] = tx[u]
  BY TxMaps DEF Done
<1>2. TxKnows(t)'
  BY <1>1 DEF TxKnows, NoTx
<1> QED
  BY <1>1, <1>2, QuietKnows

LEMMA CommitGroupKnows == ASSUME IInv, KInv, NEW t \in Txs, CommitGroup(t) PROVE KInv'
<1> DEFINE g == tx[t].g
<1>1. /\ tx[t].pc = "propagating" /\ g \in Groups /\ TxKnows(t) /\ TypeOK
      /\ group' = [group EXCEPT ![g] = tx[t].new] /\ Done(t)
      /\ IF tx[t].file = NoFile THEN UNCHANGED <<file, untold>>
         ELSE /\ file' = [file EXCEPT ![g] = tx[t].file]
              /\ untold' = IF \E u \in Txs \ {t} : tx[u].g = g THEN untold \cup {g}
                           ELSE untold \ {g}
  BY DEF CommitGroup, IInv, Shape, KInv
<1>2. /\ group'[g] = tx[t].new /\ \A h \in Groups \ {g} : group'[h] = group[h]
      /\ \A h \in Groups \ {g} : file'[h] = file[h] /\ (h \in untold' <=> h \in untold)
      /\ tx[t].file # NoFile => file'[g] = tx[t].file
      /\ tx'[t] = NoTx /\ \A u \in Txs \ {t} : tx'[u] = tx[u]
  BY <1>1 DEF Done, TypeOK
<1>3. GroupsKnow'
  <2> SUFFICES ASSUME NEW h \in Groups \ untold', Lost(file'[h]) PROVE Bad(group'[h].state)
    BY DEF GroupsKnow, Lost, Bad, Derived
  <2>1. CASE h = g
    BY <1>1, <1>2, <2>1 DEF TxKnows
  <2>2. CASE h # g
    BY <1>2, <2>2 DEF KInv, GroupsKnow
  <2> QED
    BY <2>1, <2>2
<1>4. ASSUME NEW u \in Txs PROVE TxKnows(u)'
  <2>1. CASE u = t
    BY <1>2, <2>1 DEF TxKnows, NoTx
  <2>2. CASE u # t
    <3>1. TxKnows(u) /\ Shape(u) /\ tx'[u] = tx[u]
      BY <1>2, <2>2 DEF KInv, IInv
    <3>2. CASE tx[u].g = g /\ tx[t].file # NoFile
      BY <1>1, <2>2, <3>1, <3>2 DEF TxKnows, Bad
    <3>3. CASE tx[u].g = g /\ tx[t].file = NoFile
      BY <1>1, <3>1, <3>3 DEF TxKnows, Lost, Bad, Derived
    <3>4. CASE tx[u].g # g
      BY <1>2, <3>1, <3>4 DEF TxKnows, Shape, Lost, Bad, Derived
    <3> QED
      BY <3>2, <3>3, <3>4
  <2> QED
    BY <2>1, <2>2
<1> QED
  BY <1>3, <1>4 DEF KInv

LEMMA FileOnlyKnows ==
    ASSUME IInv, KInv, NEW g \in Groups, NEW f, FileOnly(g, f) PROVE KInv'
<1>1. /\ UNCHANGED <<group, tx>> /\ untold' = untold \cup {g}
      /\ \A h \in Groups \ {g} : file'[h] = file[h]
  BY DEF FileOnly, IInv, TypeOK
<1>2. GroupsKnow'
  BY <1>1 DEF KInv, GroupsKnow, Lost, Bad, Derived
<1>3. \A u \in Txs : TxKnows(u)'
  <2> SUFFICES ASSUME NEW u \in Txs PROVE TxKnows(u)'
    OBVIOUS
  <2>1. TxKnows(u) /\ Shape(u)
    BY DEF KInv, IInv
  <2> QED
    BY <1>1, <2>1 DEF TxKnows, Shape, Lost, Bad, Derived
<1> QED
  BY <1>2, <1>3 DEF KInv

LEMMA CreatedKnows ==
    ASSUME IInv, KInv, NEW s \in Sets, CreateDraft(s) \/ CreateRestored(s) PROVE KInv'
<1>1. CASE CreateDraft(s)
  BY <1>1 DEF CreateDraft, Create, KInv, GroupsKnow, TxKnows, Lost, Bad, Derived
<1>2. CASE CreateRestored(s)
  <2>1. PICK items \in Compositions :
           /\ \A t \in Txs : tx[t].g \notin items
           /\ file' = [g \in Groups |-> IF g \in items
                          THEN [file[g] EXCEPT !.state = "missing"] ELSE file[g]]
           /\ group' = [g \in Groups |-> IF g \in items
                           THEN [state |-> "missing", passed |-> FALSE, sha |-> 0]
                           ELSE group[g]]
           /\ untold' = untold \ items /\ tx' = tx
    BY <1>2 DEF CreateRestored, Create
  <2>2. GroupsKnow'
    BY <2>1 DEF KInv, GroupsKnow, Lost, Bad, Derived
  <2>3. \A u \in Txs : TxKnows(u)'
    <3> SUFFICES ASSUME NEW u \in Txs PROVE TxKnows(u)'
      OBVIOUS
    <3>1. TxKnows(u) /\ Shape(u) /\ tx[u].g \notin items
      BY <2>1 DEF KInv, IInv
    <3> QED
      BY <2>1, <3>1 DEF TxKnows, Shape, Lost, Bad, Derived
  <2> QED
    BY <2>2, <2>3 DEF KInv
<1> QED
  BY <1>1, <1>2

LEMMA StepKnows == IInv /\ KInv /\ [Next]_vars => KInv'
<1> SUFFICES ASSUME IInv, KInv, [Next]_vars PROVE KInv'
  OBVIOUS
<1>1. ASSUME NEW t \in Txs, GroupStep(t) PROVE KInv'
  BY <1>1, GroupBegins, BeginKnows, GoesKnows, CommitGroupKnows DEF GroupStep, IInv
<1>2. ASSUME NEW t \in Txs, SetStep(t) PROVE KInv'
  <2>1. ASSUME NEW s \in Sets, Validate(t, s) \/ Activate(t, s) \/ Rollback(t, s) PROVE KInv'
    <3>1. /\ UNCHANGED <<file, group, untold>> /\ \A u \in Txs \ {t} : tx'[u] = tx[u]
          /\ tx'[t].pc \in {"checked", "judged", "weighed"}
      BY <2>1, TxMaps DEF Validate, Activate, Rollback, NoTx
    <3>2. TxKnows(t)'
      BY <3>1 DEF TxKnows
    <3> QED
      BY <3>1, <3>2, QuietKnows
  <2>2. CASE CommitValidated(t) \/ CommitActive(t) \/ CommitRollback(t)
    BY <2>2, DoneKnows DEF CommitValidated, CommitActive, CommitRollback, CommitSet
  <2> QED
    BY <1>2, <2>1, <2>2 DEF SetStep
<1>3. ASSUME NEW t \in Txs, Abort(t) PROVE KInv'
  BY <1>3, DoneKnows DEF Abort
<1>4. ASSUME NEW g \in Groups, FileLost(g) \/ ResolveDuplicate(g) PROVE KInv'
  BY <1>4, FileOnlyKnows DEF FileLost, ResolveDuplicate
<1>5. ASSUME NEW s \in Sets, CreateDraft(s) \/ CreateRestored(s) PROVE KInv'
  BY <1>5, CreatedKnows
<1>6. CASE (\E s \in Sets : Retire(s)) \/ UNCHANGED vars
  BY <1>6 DEF vars, Retire, KInv, GroupsKnow, TxKnows, Lost, Bad, Derived
<1> QED
  BY <1>1, <1>2, <1>3, <1>4, <1>5, <1>6 DEF Next

\* Whatever the order in which files are lost, restored and repaired and sets are
\* validated, activated and rolled back to: a set that is offered to a rebuild has no
\* bad group unless two transactions have missed each other about it, and no lost
\* file unless the file's group was not told.
THEOREM LossIsSeenHolds == Spec => []LossIsSeen
<1>1. Init => KInv
  BY KnowsInit
<1>2. IInv /\ KInv /\ [Next]_vars => KInv'
  BY StepKnows
<1>3. IInv /\ LInv /\ KInv => LossIsSeen
  <2> SUFFICES ASSUME IInv, LInv, KInv, NEW s \in Sets \ raced, Offered(s),
                      NEW g \in set[s].items
               PROVE  ~Bad(group[g].state) /\ (g \notin untold => ~Lost(file[g]))
    BY DEF LossIsSeen
  <2>1. ~Bad(group[g].state)
    BY DEF LInv, SetsKnow, Offered
  <2>2. g \in Groups
    BY DEF IInv, TypeOK, Set
  <2> QED
    BY <2>1, <2>2 DEF KInv, GroupsKnow
<1> QED
  BY <1>1, <1>2, <1>3, ReadsHold, PTL DEF Spec

--------------------------------------------------------------------------------
(* What a step may do to a set.                                            *)

Walks(s) ==
    set'[s].state # set[s].state =>
        \/ <<set[s].state, set'[s].state>> \in Lifecycle
        \/ Rolled(s) /\ set'[s].state = "active"

LEMMA UpdatedState ==
    ASSUME IInv, NEW t \in Txs, CommitGroup(t), NEW s \in Sets
    PROVE  set'[s].state = IF tx[t].todo[s] \in {"invalid", "revalidatable"}
                           THEN tx[t].todo[s] ELSE set[s].state
<1> DEFINE r == set[s]
           e == tx[t].todo[s]
           h == [SetHash(s) EXCEPT ![tx[t].g] = tx[t].new.sha]
<1>1. r \in Set
  BY DEF IInv, TypeOK
<1>2. set'[s] = IF e = "keep" THEN r
                ELSE [r EXCEPT
                        !.state = IF e \in {"invalid", "revalidatable"} THEN e ELSE @,
                        !.alert = @ \/ e = "alert",
                        !.hash  = IF e = "revalidatable" /\ @ = NoHash THEN h ELSE @]
  BY DEF CommitGroup, Updated
<1> HIDE DEF h, e, r
<1>3. set'[s].state = IF e \in {"invalid", "revalidatable"} THEN e ELSE r.state
  BY <1>1, <1>2 DEF Set
<1> QED
  BY <1>3 DEF e, r

LEMMA CommitGroupWalks ==
    ASSUME IInv, LInv, NEW t \in Txs, CommitGroup(t), NEW s \in Sets \ raced
    PROVE  Walks(s)
<1>1. tx[t].pc = "propagating" /\ TodoInv(t)
  BY DEF CommitGroup, LInv
<1> QED
  BY <1>1, UpdatedState DEF TodoInv, Walks, Lifecycle

LEMMA SwapWalks ==
    ASSUME IInv, NEW t \in Txs, NEW s \in Sets, CommitActive(t) \/ CommitRollback(t)
    PROVE  Walks(s)
<1>1. /\ tx[t].pc \in Swapping /\ tx[t].s \in Sets /\ set[s].state \in SetStates
      /\ tx[t].pc = "judged" => set[tx[t].s].state = "validated"
  BY DEF CommitActive, CommitRollback, Swapping, IInv, TypeOK, Set, Shape
<1>2. PICK alert \in BOOLEAN : CommitSet(t, Activated(t, alert))
  BY <1>1 DEF CommitActive, CommitRollback, IInv, TypeOK, Set, Tx
<1>3. set'[s].state = IF s = tx[t].s THEN "active"
                      ELSE IF s \in Actives THEN "retired" ELSE set[s].state
  BY <1>1, <1>2, ActivatedRows DEF CommitSet
<1>4. CASE s = tx[t].s
  <2>1. tx[t].pc = "weighed" => Rolled(s)
    BY <1>4 DEF Rolled
  <2> QED
    BY <1>1, <1>3, <1>4, <2>1 DEF Swapping, Walks, Lifecycle
<1>5. CASE s # tx[t].s
  BY <1>1, <1>3, <1>5 DEF Walks, Lifecycle
<1> QED
  BY <1>4, <1>5

LEMMA StepWalks ==
    IInv /\ LInv /\ Next => \A s \in Sets \ raced' : Walks(s)
<1> SUFFICES ASSUME IInv, LInv, Next, NEW s \in Sets \ raced' PROVE Walks(s)
  OBVIOUS
<1>1. set \in [Sets -> Set] /\ \A r \in Sets : set[r].state \in SetStates
  BY DEF IInv, TypeOK, Set
<1>2. ASSUME NEW t \in Txs, CommitGroup(t) PROVE Walks(s)
  <2>1. raced \subseteq raced'
    BY <1>2 DEF CommitGroup
  <2> QED
    BY <1>2, <2>1, CommitGroupWalks
<1>3. ASSUME NEW t \in Txs, GroupStep(t) \/ Abort(t), ~CommitGroup(t) PROVE Walks(s)
  <2>1. set' = set
    BY <1>3, GroupBegins
       DEF IInv, GroupStep, Abort, ReadSets, LockGroup, Begins, Recompute
  <2> QED
    BY <2>1 DEF Walks
<1>4. ASSUME NEW t \in Txs, NEW r \in Sets, Validate(t, r) \/ Activate(t, r) \/ Rollback(t, r)
      PROVE  Walks(s)
  BY <1>4 DEF Validate, Activate, Rollback, Walks
<1>5. ASSUME NEW t \in Txs, CommitValidated(t) PROVE Walks(s)
  <2> DEFINE w == tx[t].s
             row == IF set[w].state = "active"
                    THEN [set[w] EXCEPT !.alert = FALSE, !.hash = tx[t].hash]
                    ELSE [set[w] EXCEPT !.state = "validated", !.hash = tx[t].hash]
  <2>1. /\ w \in Sets /\ set[w] \in Set
        /\ set[w].state \in {"draft", "revalidatable", "active"}
    BY <1>5 DEF CommitValidated, IInv, TypeOK, Shape
  <2>2. set' = [set EXCEPT ![w] = row]
    BY <1>1, <2>1, <1>5 DEF CommitValidated, CommitSet
  <2>3. row.state = IF set[w].state = "active" THEN "active" ELSE "validated"
    BY <2>1 DEF Set
  <2> HIDE DEF row
  <2> QED
    BY <1>1, <2>1, <2>2, <2>3 DEF Walks, Lifecycle
<1>6. ASSUME NEW t \in Txs, CommitActive(t) \/ CommitRollback(t) PROVE Walks(s)
  BY <1>6, SwapWalks
<1>7. ASSUME NEW r \in Sets, NEW state \in {"draft", "restored_from_backup"}, NEW items,
             NEW hash, Create(r, state, items, hash)
      PROVE  Walks(s)
  <2>1. set[r].state = "none" /\ set[r] \in Set
        /\ set' = [set EXCEPT ![r] = [set[r] EXCEPT !.state = state, !.items = items,
                                                    !.hash = hash]]
    BY <1>1, <1>7 DEF Create
  <2>2. set'[s].state = IF s = r THEN state ELSE set[s].state
    BY <1>1, <2>1 DEF Set
  <2> QED
    BY <2>1, <2>2 DEF Walks, Lifecycle
<1>8. ASSUME NEW r \in Sets, CreateDraft(r) \/ CreateRestored(r) PROVE Walks(s)
  BY <1>7, <1>8 DEF CreateDraft, CreateRestored
<1>9. ASSUME NEW r \in Sets, Retire(r) PROVE Walks(s)
  <2>1. set'[s].state = IF s = r THEN "retired" ELSE set[s].state
    BY <1>1, <1>9 DEF Retire, Set
  <2> QED
    BY <1>1, <2>1 DEF Walks, Lifecycle
<1>10. ASSUME NEW g \in Groups, FileLost(g) \/ ResolveDuplicate(g) PROVE Walks(s)
  BY <1>10 DEF FileLost, ResolveDuplicate, FileOnly, Walks
<1> QED
  BY <1>2, <1>3, <1>4, <1>5, <1>6, <1>8, <1>9, <1>10 DEF Next, SetStep

\* Every set walks its lifecycle: an active set is only ever retired, a validated one
\* only activated, invalidated or retired, and nothing but a rollback makes a set
\* active that is not validated.
THEOREM WalksLifecycleHolds == Spec => WalksLifecycle
<1>1. IInv /\ LInv /\ [Next]_vars =>
         [\A s \in Sets \ raced' :
             set'[s].state # set[s].state =>
                \/ <<set[s].state, set'[s].state>> \in Lifecycle
                \/ Rolled(s) /\ set'[s].state = "active"]_vars
  BY StepWalks DEF Walks
<1> QED
  BY <1>1, ReadsHold, PTL DEF Spec, WalksLifecycle

LEMMA StepActivates ==
    IInv /\ LInv /\ Next =>
        \A s \in Sets \ raced' :
            set[s].state = "validated" /\ set'[s].state = "active" /\ ~Rolled(s)
            => HashHolds(s)
<1> SUFFICES ASSUME IInv, LInv, Next, NEW s \in Sets \ raced',
                    set[s].state = "validated", set'[s].state = "active", ~Rolled(s)
             PROVE  HashHolds(s)
  OBVIOUS
<1>1. set \in [Sets -> Set] /\ set'[s] # set[s]
  BY DEF IInv, TypeOK, Set
<1>2. ASSUME NEW t \in Txs, CommitActive(t) \/ CommitRollback(t) PROVE HashHolds(s)
  <2>1. tx[t].pc \in Swapping /\ ReadInv(t) /\ raced \subseteq raced'
    BY <1>2 DEF CommitActive, CommitRollback, CommitSet, Swapping, LInv
  <2>2. PICK alert \in BOOLEAN : CommitSet(t, Activated(t, alert))
    <3>1. tx[t].alert \in BOOLEAN /\ tx[t].s \in Sets
      BY <2>1 DEF IInv, TypeOK, Tx, Shape, Swapping
    <3> QED
      BY <1>1, <1>2, <3>1 DEF CommitActive, CommitRollback, Set
  <2>3. s = tx[t].s
    BY <2>1, <2>2, ActivatedRows DEF CommitSet
  <2>4. tx[t].pc = "judged"
    BY <2>1, <2>3 DEF Swapping, Rolled
  <2> QED
    BY <2>1, <2>3, <2>4 DEF ReadInv
<1>3. ASSUME NEW t \in Txs, CommitGroup(t) PROVE FALSE
  BY <1>3, UpdatedState
<1>4. ASSUME NEW t \in Txs, GroupStep(t) \/ Abort(t), ~CommitGroup(t) PROVE FALSE
  <2>1. set' = set
    BY <1>4, GroupBegins
       DEF IInv, GroupStep, Abort, ReadSets, LockGroup, Begins, Recompute
  <2> QED
    BY <1>1, <2>1
<1>5. ASSUME NEW t \in Txs, NEW r \in Sets, Validate(t, r) \/ Activate(t, r) \/ Rollback(t, r)
      PROVE  FALSE
  BY <1>1, <1>5 DEF Validate, Activate, Rollback
<1>6. ASSUME NEW t \in Txs, CommitValidated(t) PROVE FALSE
  <2> DEFINE w == tx[t].s
             row == IF set[w].state = "active"
                    THEN [set[w] EXCEPT !.alert = FALSE, !.hash = tx[t].hash]
                    ELSE [set[w] EXCEPT !.state = "validated", !.hash = tx[t].hash]
  <2>1. /\ w \in Sets /\ set[w] \in Set
        /\ set[w].state \in {"draft", "revalidatable", "active"}
    BY <1>6 DEF CommitValidated, IInv, TypeOK, Shape
  <2>2. set' = [set EXCEPT ![w] = row]
    BY <2>1, <1>6 DEF CommitValidated, CommitSet
  <2> HIDE DEF row
  <2> QED
    BY <1>1, <2>1, <2>2
<1>7. ASSUME NEW r \in Sets, CreateDraft(r) \/ CreateRestored(r) PROVE FALSE
  <2>1. set[r].state = "none" /\ \A q \in Sets \ {r} : set'[q] = set[q]
    BY <1>1, <1>7 DEF CreateDraft, CreateRestored, Create
  <2> QED
    BY <1>1, <2>1
<1>8. ASSUME NEW r \in Sets, Retire(r) PROVE FALSE
  <2>1. set'[s].state = IF s = r THEN "retired" ELSE set[s].state
    BY <1>1, <1>8 DEF Retire, Set
  <2> QED
    BY <2>1
<1>9. ASSUME NEW g \in Groups, FileLost(g) \/ ResolveDuplicate(g) PROVE FALSE
  BY <1>1, <1>9 DEF FileLost, ResolveDuplicate, FileOnly
<1> QED
  BY <1>2, <1>3, <1>4, <1>5, <1>6, <1>7, <1>8, <1>9 DEF Next, SetStep

\* An activation takes the set as it was validated: unless another transaction has
\* missed it, the hash is that of its groups at the moment of the commit.
THEOREM ActivatesWhatWasValidatedHolds == Spec => ActivatesWhatWasValidated
<1>1. IInv /\ LInv /\ [Next]_vars =>
         [\A s \in Sets \ raced' :
             set[s].state = "validated" /\ set'[s].state = "active" /\ ~Rolled(s)
             => set[s].hash = SetHash(s)]_vars
  BY StepActivates DEF HashHolds
<1> QED
  BY <1>1, ReadsHold, PTL DEF Spec, ActivatesWhatWasValidated
================================================================================
