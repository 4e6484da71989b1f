----------------------------- MODULE HotSwapProofs ------------------------------
(***************************************************************************)
(* What a swap guarantees for any number of databases, names, requests and *)
(* releases.  That the serving name is not lost needs no lock at all; the  *)
(* rest does, and holds when all requests take it in one database.         *)
(***************************************************************************)
EXTENDS HotSwap, FiniteSetTheorems, TLAPS

Pcs == {"idle", "planned", "locked", "ready", "moved", "undoing", "renamed",
        "smoked", "failing", "back", "undone", "rolledback"}

\* No rename loses a database: part of TypeOK.
Named == \A d \in Dbs : \E n \in Names : catalog[n] = d

--------------------------------------------------------------------------------
(* Type correctness.                                                       *)

LEMMA IdleOpType == IdleOp \in Op
<1>1. (CHOOSE m \in Maint : TRUE) \in Maint
  BY HotSwapAssumption
<1>2. [n \in Names |-> NoDb] \in [Names -> Dbs \cup {NoDb}]
  OBVIOUS
<1> QED
  BY <1>1, <1>2, HotSwapAssumption DEF IdleOp, Op, Token

\* What Goes does to the request and to the lock.
LEMMA GoesType ==
    ASSUME TypeOK, NEW o \in Ops, NEW pc \in Pcs, Goes(o, pc)
    PROVE  op' \in [Ops -> Op] /\ lock' \in [Maint -> Ops \cup {NoOp}]
<1>1. op[o] \in Op /\ op[o].maint \in Maint
  BY DEF TypeOK, Op
<1>2. [op[o] EXCEPT !.pc = pc] \in Op
  BY <1>1 DEF Op, Pcs
<1>3. op' \in [Ops -> Op]
  BY <1>2, IdleOpType DEF TypeOK, Goes
<1>4. lock' \in [Maint -> Ops \cup {NoOp}]
  BY <1>1 DEF TypeOK, Goes
<1> QED
  BY <1>3, <1>4

\* A rename keeps every database under some name.
LEMMA RenamedType ==
    ASSUME TypeOK, NEW a \in Names, NEW b \in Names, CanRename(a, b),
           catalog' = Renamed(a, b)
    PROVE  catalog' \in [Names -> Dbs \cup {NoDb}] /\ Named'
<1>1. /\ catalog[a] # NoDb /\ catalog[b] = NoDb /\ a # b
      /\ catalog' \in [Names -> Dbs \cup {NoDb}]
      /\ catalog'[b] = catalog[a]
      /\ \A n \in Names \ {a, b} : catalog'[n] = catalog[n]
  BY DEF TypeOK, CanRename, Bound, Renamed
<1>2. ASSUME NEW d \in Dbs PROVE \E n \in Names : catalog'[n] = d
  <2>1. PICK n \in Names : catalog[n] = d
    BY DEF TypeOK
  <2>2. n # b
    BY <1>1, <2>1, HotSwapAssumption
  <2>3. CASE n = a
    BY <1>1, <2>1, <2>3
  <2>4. CASE n # a
    BY <1>1, <2>1, <2>2, <2>4
  <2> QED
    BY <2>3, <2>4
<1> QED
  BY <1>1, <1>2 DEF Named

LEMMA TypeInit == Init => TypeOK
<1> SUFFICES ASSUME Init PROVE TypeOK
  OBVIOUS
<1>1. catalog \in [Names -> Dbs \cup {NoDb}]
  BY DEF Init
<1>2. ASSUME NEW d \in Dbs PROVE \E n \in Names : catalog[n] = d
  <2>1. Cardinality({n \in Names : catalog[n] = d}) = 1
    BY DEF Init
  <2>2. {n \in Names : catalog[n] = d} # {}
    BY <2>1, FS_EmptySet
  <2> QED
    BY <2>2
<1>3. 1 \in Ids /\ 2 \in Ids /\ released = 2
  BY HotSwapAssumption DEF Init, Ids
<1>4. db \in [Dbs -> Db]
  <2> DEFINE live(v) == [content |-> v, active |-> 2, fp |-> v, owes |-> FALSE]
             none    == {[content |-> c, active |-> a, fp |-> f, owes |-> FALSE] :
                            c \in Contents, a \in {0, 1}, f \in {NoFp}}
             known   == {[content |-> c, active |-> 1, fp |-> c, owes |-> FALSE] : c \in Contents}
  <2>1. PICK v \in Contents : db \in [Dbs -> Restored(live(v))]
    BY DEF Init
  <2>2. {0, 1, 2} \subseteq {0} \cup Ids /\ NoFp \in Token /\ Contents \subseteq Token
    BY <1>3 DEF Token
  <2>3. live(v) \in Db /\ none \subseteq Db /\ known \subseteq Db
    <3>1. \A c \in Contents, a \in {0, 1, 2}, f \in Token :
             [content |-> c, active |-> a, fp |-> f, owes |-> FALSE] \in Db
      BY <2>2 DEF Db
    <3>2. live(v) \in Db
      BY <2>2, <3>1
    <3>3. none \subseteq Db
      BY <2>2, <3>1
    <3>4. known \subseteq Db
      BY <2>2, <3>1
    <3> QED
      BY <3>2, <3>3, <3>4
  <2>4. Restored(live(v)) = {live(v)} \cup none \cup known
    BY DEF Restored
  <2>5. Restored(live(v)) \subseteq Db
    <3> HIDE DEF live, none, known
    <3> QED
      BY <2>3, <2>4
  <2> QED
    BY <2>1, <2>5
<1>5. lock \in [Maint -> Ops \cup {NoOp}] /\ op \in [Ops -> Op] /\ accident \in BOOLEAN
  BY IdleOpType DEF Init
<1> QED
  BY <1>1, <1>2, <1>3, <1>4, <1>5 DEF TypeOK

\* The steps of one request.
LEMMA TypeOp == ASSUME TypeOK, NEW o \in Ops, Step(o) PROVE TypeOK'
<1> DEFINE p == op[o]
<1>1. /\ p \in Op /\ p.source \in Names /\ p.aside \in Names /\ p.maint \in Maint
      /\ Serving \in Names /\ catalog \in [Names -> Dbs \cup {NoDb}] /\ Named
  BY HotSwapAssumption DEF TypeOK, Op, Named
<1>2. CASE Plan(o)
  <2>1. PICK k \in {"swap", "rollback"}, m \in Maint, source, aside \in Names :
          op' = [op EXCEPT ![o] = [IdleOp EXCEPT !.pc = "planned", !.kind = k,
                              !.maint = m, !.source = source, !.aside = aside]]
    BY <1>2 DEF Plan
  <2>2. [IdleOp EXCEPT !.pc = "planned", !.kind = k, !.maint = m, !.source = source,
                       !.aside = aside] \in Op
    BY IdleOpType DEF Op
  <2> QED
    BY <1>2, <2>1, <2>2 DEF TypeOK, Plan
<1>3. CASE Lock(o)
  <2>1. [p EXCEPT !.pc = "locked", !.was = catalog] \in Op
    BY <1>1 DEF Op
  <2>2. op' = [op EXCEPT ![o] = [p EXCEPT !.pc = "locked", !.was = catalog]]
    BY <1>3 DEF Lock, TypeOK
  <2> QED
    BY <1>1, <1>3, <2>1, <2>2 DEF TypeOK, Lock
<1>4. CASE FingerprintSource(o)
  <2>1. PICK a \in Attempts(catalog[p.source]) :
          op' = [op EXCEPT ![o].pc = "ready", ![o].fp = a.fp, ![o].before = a.before]
    BY <1>4 DEF FingerprintSource
  <2>2. a.fp \in Token /\ a.before \in {0} \cup Ids
    <3>1. CASE catalog[p.source] = NoDb
      BY <2>1, <3>1 DEF Attempts, Token
    <3>2. CASE catalog[p.source] # NoDb
      <4>1. db[catalog[p.source]] \in Db
        BY <1>1, <3>2 DEF TypeOK
      <4> QED
        BY <2>1, <3>2, <4>1 DEF Attempts, Token, Db
    <3> QED
      BY <3>1, <3>2
  <2>3. [p EXCEPT !.pc = "ready", !.fp = a.fp, !.before = a.before] \in Op
    BY <1>1, <2>2 DEF Op
  <2>4. op' = [op EXCEPT ![o] = [p EXCEPT !.pc = "ready", !.fp = a.fp, !.before = a.before]]
    BY <2>1 DEF TypeOK
  <2> QED
    BY <1>4, <2>3, <2>4 DEF TypeOK, FingerprintSource
<1>5. CASE TakeName(o)
  <2>1. [p EXCEPT !.pc = "renamed", !.db = catalog[p.source]] \in Op
    BY <1>1 DEF Op
  <2>2. op' = [op EXCEPT ![o] = [p EXCEPT !.pc = "renamed", !.db = catalog[p.source]]]
    BY <1>5 DEF TakeName, TypeOK
  <2>3. catalog' \in [Names -> Dbs \cup {NoDb}] /\ Named'
    BY <1>1, <1>5, RenamedType DEF TakeName
  <2> QED
    BY <1>5, <2>1, <2>2, <2>3 DEF TypeOK, TakeName, Named
<1>6. CASE StepAside(o) \/ Undo(o) \/ GiveNameBack(o) \/ ComeBack(o)
  <2>1. /\ \E pc \in Pcs : Goes(o, pc)
        /\ UNCHANGED <<db, released, accident>>
        /\ \E a, b \in Names : CanRename(a, b) /\ catalog' = Renamed(a, b)
    BY <1>1, <1>6 DEF StepAside, Undo, GiveNameBack, ComeBack, FormerOne, Pcs
  <2>2. catalog' \in [Names -> Dbs \cup {NoDb}] /\ Named'
    BY <2>1, RenamedType
  <2> QED
    BY <2>1, <2>2, GoesType DEF TypeOK, Named
<1>7. CASE Record(o)
  <2>1. ServingDb \in Dbs /\ db[ServingDb] \in Db /\ released + 1 \in Ids
    BY <1>1, <1>7, HotSwapAssumption DEF TypeOK, Record, Bound, ServingDb, Ids
  <2>2. Judged(o, ServingDb) \in Token
    BY <1>1 DEF Judged, Token, Op
  <2>3. [db[ServingDb] EXCEPT !.active = released + 1, !.fp = Judged(o, ServingDb)] \in Db
    BY <2>1, <2>2 DEF Db
  <2>4. db' \in [Dbs -> Db]
    BY <1>7, <2>1, <2>3 DEF TypeOK, Record
  <2>5. Goes(o, "idle") /\ "idle" \in Pcs
    BY <1>7 DEF Record, Pcs
  <2> QED
    BY <1>7, <2>1, <2>4, <2>5, GoesType DEF TypeOK, Record
<1>8. CASE \/ GiveUp(o) \/ StepAsideFails(o) \/ TakeNameFails(o) \/ UndoFails(o)
           \/ Smoke(o) \/ SmokeFails(o) \/ RollbackFails(o) \/ Return(o)
           \/ RecordFails(o) \/ Crash(o)
  <2>1. /\ \E pc \in Pcs : Goes(o, pc)
        /\ UNCHANGED <<catalog, db, released>> /\ accident' \in BOOLEAN
    BY <1>8 DEF GiveUp, StepAsideFails, TakeNameFails, AfterFailure, UndoFails, Smoke,
                SmokeFails, RollbackFails, Return, RecordFails, Crash, Pcs, TypeOK
  <2> QED
    BY <2>1, GoesType DEF TypeOK
<1> QED
  BY <1>2, <1>3, <1>4, <1>5, <1>6, <1>7, <1>8 DEF Step

\* The loads and releases of the serving database.
LEMMA TypeServing == ASSUME TypeOK, Load \/ Publish PROVE TypeOK'
<1>1. ServingDb \in Dbs /\ db[ServingDb] \in Db
  BY HotSwapAssumption DEF TypeOK, Load, Publish, Bound, ServingDb
<1>2. CASE Load
  <2>1. PICK c \in Contents :
          db' = [db EXCEPT ![ServingDb] = [db[ServingDb] EXCEPT !.content = c, !.owes = TRUE]]
    BY <1>2 DEF Load
  <2>2. [db[ServingDb] EXCEPT !.content = c, !.owes = TRUE] \in Db
    BY <1>1 DEF Db
  <2> QED
    BY <1>1, <1>2, <2>1, <2>2 DEF TypeOK, Load
<1>3. CASE Publish
  <2>1. released + 1 \in Ids
    BY <1>3, HotSwapAssumption DEF TypeOK, Publish, Ids
  <2> QED
    BY <1>1, <1>3, <2>1 DEF TypeOK, Publish, Db, Token
<1> QED
  BY <1>2, <1>3

\* The state of a swap is well typed, and no database is without a name at any time
\* (_rename_database).
THEOREM HotSwapTypeCorrect == Spec => []TypeOK
<1>1. TypeOK /\ [Next]_vars => TypeOK'
  <2> SUFFICES ASSUME TypeOK, [Next]_vars PROVE TypeOK'
    OBVIOUS
  <2>1. CASE UNCHANGED vars
    BY <2>1 DEF TypeOK, vars
  <2> QED
    BY <2>1, TypeOp, TypeServing DEF Next
<1> QED
  BY <1>1, TypeInit, PTL DEF Spec
--------------------------------------------------------------------------------
(* The serving name.                                                       *)

\* What a request keeps when it goes on, and that it ends as it began.
LEMMA GoesShape ==
    ASSUME TypeOK, NEW o \in Ops, NEW pc \in Pcs, Goes(o, pc)
    PROVE  /\ \A q \in Ops \ {o} : op'[q] = op[q]
           /\ op'[o].pc = pc
           /\ pc # "idle" =>
                 /\ op'[o].maint = op[o].maint /\ op'[o].kind = op[o].kind
                 /\ op'[o].source = op[o].source /\ op'[o].aside = op[o].aside
                 /\ op'[o].fp = op[o].fp /\ op'[o].before = op[o].before
                 /\ op'[o].db = op[o].db /\ op'[o].was = op[o].was
<1>1. op \in [Ops -> Op] /\ op[o] \in Op
  BY DEF TypeOK
<1>2. op' = [op EXCEPT ![o] = IF pc = "idle" THEN IdleOp ELSE [op[o] EXCEPT !.pc = pc]]
  BY DEF Goes
<1>3. /\ \A q \in Ops \ {o} : op'[q] = op[q]
      /\ op'[o] = IF pc = "idle" THEN IdleOp ELSE [op[o] EXCEPT !.pc = pc]
  BY <1>1, <1>2
<1>4. CASE pc = "idle"
  BY <1>3, <1>4 DEF IdleOp
<1>5. CASE pc # "idle"
  BY <1>1, <1>3, <1>5 DEF Op
<1> QED
  BY <1>3, <1>4, <1>5

\* Every step of a request is its own, and most of them only lead on.
LEMMA StepShape ==
    ASSUME TypeOK, NEW o \in Ops, Step(o)
    PROVE  \A q \in Ops \ {o} : op'[q] = op[q]
<1>1. CASE \E pc \in Pcs : Goes(o, pc)
  BY <1>1, GoesShape
<1>2. CASE Plan(o) \/ Lock(o) \/ FingerprintSource(o) \/ TakeName(o)
  BY <1>2 DEF Plan, Lock, FingerprintSource, TakeName, TypeOK
<1>3. \/ Plan(o) \/ Lock(o) \/ FingerprintSource(o) \/ TakeName(o)
      \/ \E pc \in Pcs : Goes(o, pc)
  BY DEF Step, GiveUp, StepAside, StepAsideFails, TakeNameFails, AfterFailure, Undo, UndoFails,
         Smoke, SmokeFails, GiveNameBack, ComeBack, RollbackFails, Return, Record, RecordFails,
         Crash, Pcs
<1> QED
  BY <1>1, <1>2, <1>3

LEMMA NameStep ==
    ASSUME TypeOK, ServingNameKept, [Next]_vars
    PROVE  ServingNameKept'
<1> SUFFICES ASSUME catalog'[Serving] = NoDb, ~accident'
             PROVE  \E o \in Ops : op'[o].pc \in HalfDone
  BY DEF ServingNameKept, Bound
<1>1. Serving \in Names /\ catalog \in [Names -> Dbs \cup {NoDb}] /\ op \in [Ops -> Op]
  BY HotSwapAssumption DEF TypeOK
<1>2. CASE UNCHANGED vars \/ Load \/ Publish
  BY <1>2 DEF ServingNameKept, Bound, vars, Load, Publish
<1>3. ASSUME NEW o \in Ops, Step(o) PROVE \E q \in Ops : op'[q].pc \in HalfDone
  <2>1. op[o] \in Op /\ op[o].source \in Names /\ op[o].aside \in Names
    BY <1>1 DEF Op
  <2>3. CASE StepAside(o) \/ GiveNameBack(o) \/ TakeNameFails(o)
    <3>1. Goes(o, "moved") \/ Goes(o, "back") \/ Goes(o, "undoing")
      BY <2>3 DEF StepAside, GiveNameBack, TakeNameFails, AfterFailure
    <3>2. op'[o].pc \in {"moved", "back", "undoing"}
      BY <3>1, GoesShape DEF Pcs
    <3> QED
      BY <3>2 DEF HalfDone
  <2>4. CASE TakeName(o) \/ Undo(o) \/ ComeBack(o)
    <3>1. PICK a \in Names : CanRename(a, Serving) /\ catalog' = Renamed(a, Serving)
      BY <2>1, <2>4 DEF TakeName, Undo, ComeBack, FormerOne
    <3>2. catalog'[Serving] = catalog[a] /\ catalog[a] # NoDb
      BY <1>1, <3>1 DEF CanRename, Renamed, Bound
    <3> QED
      BY <3>2
  <2>5. CASE \/ Plan(o) \/ Lock(o) \/ GiveUp(o) \/ FingerprintSource(o) \/ StepAsideFails(o)
             \/ UndoFails(o) \/ Smoke(o) \/ SmokeFails(o) \/ RollbackFails(o) \/ Return(o)
             \/ Record(o) \/ RecordFails(o) \/ Crash(o)
    <3>1. catalog' = catalog
      BY <2>5 DEF Plan, Lock, GiveUp, FingerprintSource, StepAsideFails, UndoFails, Smoke,
                  SmokeFails, RollbackFails, Return, Record, RecordFails, Crash
    <3>2. ~accident /\ op[o].pc \notin HalfDone
      BY <1>1, <2>5 DEF Plan, Lock, GiveUp, FingerprintSource, StepAsideFails, UndoFails, Smoke,
                  SmokeFails, RollbackFails, Return, Record, RecordFails, Crash, HalfDone, TypeOK
    <3>3. PICK q \in Ops : op[q].pc \in HalfDone
      BY <3>1, <3>2 DEF ServingNameKept, Bound
    <3>4. op'[q] = op[q]
      BY <1>3, <3>2, <3>3, StepShape
    <3> QED
      BY <3>3, <3>4
  <2> QED
    BY <1>3, <2>3, <2>4, <2>5 DEF Step
<1> QED
  BY <1>2, <1>3 DEF Next

\* The application finds a database under the serving name except between two renames
\* of a live request, unless a crash or a failed repair hit just there (_execute_swap).
\* No lock is needed for it: a rename only takes a name that is free.
THEOREM ServingNameIsKept == Spec => []ServingNameKept
<1>1. Init => ServingNameKept
  BY DEF Init, ServingNameKept, Bound
<1> QED
  BY <1>1, NameStep, HotSwapTypeCorrect, PTL DEF Spec
--------------------------------------------------------------------------------
(* The walk of a swap, when every request takes the lock in one database.  *)

OneLockDb == \A m, n \in Maint : m = n

\* The catalog as it was, but for the database that has stepped aside; and with the
\* source in its place.
Aside(p)   == [p.was EXCEPT ![Serving] = NoDb, ![p.aside] = p.was[Serving]]
Swapped(p) == [p.was EXCEPT ![p.source] = NoDb, ![Serving] = p.was[p.source],
                            ![p.aside] = p.was[Serving]]

Distinct(p) == p.source # Serving /\ p.aside # Serving /\ p.source # p.aside

\* The token that was read of the source is true, or a load or a release of the
\* source makes it worth nothing.
TokenHolds(p) ==
    /\ p.before <= released
    /\ p.fp # NoFp =>
          /\ p.was[p.source] \in Dbs
          /\ LET d == db[p.was[p.source]]
             IN  d.active # p.before \/ d.owes \/ d.content = p.fp

Walk(o) ==
    LET p == op[o]
    IN  /\ p.pc \in Section \cup {"planned"} => Distinct(p)
        /\ p.pc \in Section => lock[p.maint] = o
        /\ p.pc \in {"locked", "ready"} => catalog = p.was
        /\ p.pc \in HalfDone =>
              catalog = Aside(p) /\ p.was[Serving] # NoDb /\ p.was[p.aside] = NoDb
        /\ p.pc \in {"renamed", "smoked", "failing"} =>
              /\ catalog = Swapped(p) /\ p.was[Serving] # NoDb /\ p.was[p.aside] = NoDb
              /\ p.db = p.was[p.source]
        /\ p.pc \in {"ready", "moved", "renamed", "smoked"} => TokenHolds(p)

WalkInv == \A o \in Ops : Walk(o)

LedgerInv == \A d \in Dbs : db[d].active <= released

IInv == TypeOK /\ WalkInv /\ LedgerInv /\ HonestToken

LEMMA DistinctNames ==
    ASSUME NEW a, NEW b, NEW c, Cardinality({a, b, c}) = 3
    PROVE  a # b /\ a # c /\ b # c
<1>1. ASSUME NEW x, NEW y, {a, b, c} = {x, y} PROVE FALSE
  <2>1. Cardinality({x}) = 1 /\ IsFiniteSet({x})
    BY FS_Singleton
  <2>2. Cardinality({x} \cup {y}) = 1 \/ Cardinality({x} \cup {y}) = 2
    BY <2>1, FS_AddElement
  <2>3. {x} \cup {y} = {a, b, c}
    BY <1>1
  <2> QED
    BY <2>2, <2>3
<1>2. CASE a = b
  BY <1>1, <1>2
<1>3. CASE a = c
  BY <1>1, <1>3
<1>4. CASE b = c
  BY <1>1, <1>4
<1> QED
  BY <1>2, <1>3, <1>4

\* A request in its section is there alone.
LEMMA Alone ==
    ASSUME TypeOK, WalkInv, OneLockDb, NEW o \in Ops, NEW q \in Ops \ {o},
           op[o].pc \in Section \/ lock[op[o].maint] = NoOp
    PROVE  op[q].pc \notin Section
<1>1. op[o].maint \in Maint /\ op[q].maint \in Maint
  BY DEF TypeOK, Op
<1>2. op[o].maint = op[q].maint
  BY <1>1 DEF OneLockDb
<1> QED
  BY <1>2, HotSwapAssumption DEF WalkInv, Walk

\* The steps of a request leave the walks of the others as they are.
LEMMA OthersKeep ==
    ASSUME TypeOK, WalkInv, OneLockDb, NEW o \in Ops, Step(o), NEW q \in Ops \ {o}
    PROVE  Walk(q)'
<1>1. op'[q] = op[q]
  BY StepShape
<1>2. CASE op[q].pc \notin Section
  BY <1>1, <1>2 DEF WalkInv, Walk, Section, HalfDone, Distinct
<1>3. CASE op[q].pc \in Section
  <2>1. op[o].pc \notin Section /\ lock[op[o].maint] # NoOp
    BY <1>3, Alone
  <2>2. Plan(o) \/ GiveUp(o) \/ Return(o)
    BY <2>1 DEF Step, Lock, LockFree, FingerprintSource, StepAside, StepAsideFails, TakeName,
                TakeNameFails, Undo, UndoFails, Smoke, SmokeFails, GiveNameBack, ComeBack,
                RollbackFails, Record, RecordFails, Crash, Section
  <2>3. UNCHANGED <<catalog, db, released, lock>>
    BY <2>1, <2>2 DEF Plan, GiveUp, Return, Goes
  <2> QED
    BY <1>1, <2>3 DEF WalkInv, Walk, Distinct, Aside, Swapped, TokenHolds
<1> QED
  BY <1>2, <1>3

\* The renames, on the catalogs that a walk goes through.
LEMMA Renames ==
    ASSUME TypeOK, NEW p \in Op, Distinct(p)
    PROVE  /\ catalog = p.was => Renamed(Serving, p.aside) = Aside(p)
           /\ catalog = Aside(p) /\ p.was[p.aside] = NoDb =>
                 /\ Renamed(p.aside, Serving) = p.was
                 /\ Renamed(p.source, Serving) = Swapped(p)
                 /\ catalog[p.source] = p.was[p.source]
           /\ catalog = Swapped(p) /\ p.was[p.aside] = NoDb =>
                 /\ Renamed(Serving, p.source) = Aside(p)
                 /\ catalog[Serving] = p.was[p.source]
<1>1. /\ p.was \in [Names -> Dbs \cup {NoDb}] /\ p.source \in Names /\ p.aside \in Names
      /\ Serving \in Names
  BY HotSwapAssumption DEF Op
<1>2. p.source # Serving /\ p.aside # Serving /\ p.source # p.aside
  BY DEF Distinct
<1>3. ASSUME catalog = p.was PROVE Renamed(Serving, p.aside) = Aside(p)
  BY <1>1, <1>2, <1>3 DEF Aside, Renamed
<1>4. ASSUME catalog = Aside(p), p.was[p.aside] = NoDb
      PROVE  /\ Renamed(p.aside, Serving) = p.was
             /\ Renamed(p.source, Serving) = Swapped(p)
             /\ catalog[p.source] = p.was[p.source]
  BY <1>1, <1>2, <1>4 DEF Aside, Renamed, Swapped
<1>5. ASSUME catalog = Swapped(p), p.was[p.aside] = NoDb
      PROVE  /\ Renamed(Serving, p.source) = Aside(p)
             /\ catalog[Serving] = p.was[p.source]
  BY <1>1, <1>2, <1>5 DEF Aside, Renamed, Swapped
<1> QED
  BY <1>3, <1>4, <1>5

\* What a request does to its own walk, to the ledgers and to the tokens.
LEMMA OwnStep ==
    ASSUME IInv, OneLockDb, NEW o \in Ops, Step(o)
    PROVE  Walk(o)' /\ LedgerInv' /\ HonestToken'
<1> DEFINE p == op[o]
<1>1. /\ p \in Op /\ op \in [Ops -> Op] /\ Walk(o) /\ LedgerInv /\ HonestToken
      /\ TypeOK /\ WalkInv /\ p.maint \in Maint /\ p.source \in Names
      /\ lock \in [Maint -> Ops \cup {NoOp}] /\ db \in [Dbs -> Db] /\ released \in Nat
  BY HotSwapAssumption DEF IInv, WalkInv, TypeOK, Op, Ids
<1>2. ASSUME UNCHANGED <<db, released>> PROVE LedgerInv' /\ HonestToken'
  BY <1>1, <1>2 DEF LedgerInv, HonestToken
<1>3. CASE Plan(o)
  <2>1. PICK k \in {"swap", "rollback"}, m \in Maint, source, aside \in Names :
          /\ ~Blocked(source, aside)
          /\ op' = [op EXCEPT ![o] = [IdleOp EXCEPT !.pc = "planned", !.kind = k,
                              !.maint = m, !.source = source, !.aside = aside]]
    BY <1>3 DEF Plan
  <2>2. source # Serving /\ aside # Serving /\ source # aside
    BY <2>1, DistinctNames DEF Blocked
  <2>3. op'[o].pc = "planned" /\ op'[o].source = source /\ op'[o].aside = aside
    BY <1>1, <2>1 DEF IdleOp
  <2> QED
    BY <1>2, <1>3, <2>2, <2>3 DEF Plan, Walk, Distinct, Section, HalfDone
<1>4. CASE Lock(o)
  <2>1. /\ op'[o].pc = "locked" /\ op'[o].was = catalog /\ op'[o].maint = p.maint
        /\ op'[o].source = p.source /\ op'[o].aside = p.aside
        /\ lock'[p.maint] = o /\ catalog' = catalog /\ p.pc = "planned"
    BY <1>1, <1>4 DEF Lock, Op
  <2> QED
    BY <1>1, <1>2, <1>4, <2>1 DEF Lock, Walk, Distinct, HalfDone
<1>5. CASE FingerprintSource(o)
  <2>1. PICK a \in Attempts(catalog[p.source]) :
          op' = [op EXCEPT ![o].pc = "ready", ![o].fp = a.fp, ![o].before = a.before]
    BY <1>5 DEF FingerprintSource
  <2>2. /\ op'[o].pc = "ready" /\ op'[o].fp = a.fp /\ op'[o].before = a.before
        /\ op'[o].was = p.was /\ op'[o].maint = p.maint
        /\ op'[o].source = p.source /\ op'[o].aside = p.aside
    BY <1>1, <2>1 DEF Op
  <2>3. p.pc = "locked" /\ catalog = p.was /\ Distinct(p) /\ lock[p.maint] = o
    BY <1>1, <1>5 DEF FingerprintSource, Walk, Section
  <2>4. /\ a.before <= released
        /\ a.fp # NoFp =>
              /\ catalog[p.source] \in Dbs
              /\ LET d == db[catalog[p.source]]
                 IN  d.active # a.before \/ d.owes \/ d.content = a.fp
    <3>1. CASE catalog[p.source] = NoDb
      BY <1>1, <2>1, <3>1 DEF Attempts
    <3>2. CASE catalog[p.source] # NoDb
      <4>1. catalog[p.source] \in Dbs
        BY <1>1, <3>2 DEF TypeOK
      <4> QED
        BY <1>1, <2>1, <3>2, <4>1 DEF Attempts, LedgerInv, HonestToken
    <3> QED
      BY <3>1, <3>2
  <2>5. TokenHolds(op[o])'
    BY <1>5, <2>2, <2>3, <2>4 DEF TokenHolds, FingerprintSource
  <2> QED
    BY <1>2, <1>5, <2>2, <2>3, <2>5 DEF FingerprintSource, Walk, Distinct, HalfDone
<1>6. ASSUME NEW pc \in Pcs, Goes(o, pc), pc # "idle", UNCHANGED <<db, released>>,
             p.pc \in Section
      PROVE  /\ op'[o].pc = pc /\ Distinct(op[o])'
             /\ pc \in Section => lock'[op'[o].maint] = o
             /\ Aside(op[o])' = Aside(p) /\ Swapped(op[o])' = Swapped(p)
             /\ op'[o].source = p.source /\ op'[o].aside = p.aside
             /\ op'[o].was = p.was /\ op'[o].db = p.db
             /\ TokenHolds(p) => TokenHolds(op[o])'
  <2>1. /\ op'[o].pc = pc
        /\ op'[o].maint = p.maint /\ op'[o].source = p.source /\ op'[o].aside = p.aside
        /\ op'[o].fp = p.fp /\ op'[o].before = p.before
        /\ op'[o].db = p.db /\ op'[o].was = p.was
    BY <1>1, <1>6, GoesShape
  <2>2. pc \in Section => lock' = lock
    BY <1>6 DEF Goes
  <2> QED
    BY <1>1, <1>6, <2>1, <2>2 DEF Walk, Distinct, Aside, Swapped, TokenHolds
<1>7. CASE StepAside(o)
  <2>1. /\ p.pc = "ready" /\ Goes(o, "moved") /\ UNCHANGED <<db, released>>
        /\ catalog' = Renamed(Serving, p.aside) /\ CanRename(Serving, p.aside)
    BY <1>7 DEF StepAside
  <2>2. Distinct(p) /\ catalog = p.was /\ TokenHolds(p)
    BY <1>1, <2>1 DEF Walk, Section
  <2>3. catalog' = Aside(p) /\ p.was[Serving] # NoDb /\ p.was[p.aside] = NoDb
    BY <1>1, <2>1, <2>2, Renames DEF CanRename, Bound
  <2> QED
    BY <1>2, <1>6, <2>1, <2>2, <2>3 DEF Walk, Section, HalfDone, Pcs
<1>8. CASE TakeName(o)
  <2>1. /\ p.pc = "moved" /\ catalog' = Renamed(p.source, Serving)
        /\ UNCHANGED <<db, released, lock>>
        /\ op' = [op EXCEPT ![o].pc = "renamed", ![o].db = catalog[p.source]]
    BY <1>8 DEF TakeName
  <2>2. /\ op'[o].pc = "renamed" /\ op'[o].db = catalog[p.source]
        /\ op'[o].maint = p.maint /\ op'[o].source = p.source /\ op'[o].aside = p.aside
        /\ op'[o].fp = p.fp /\ op'[o].before = p.before /\ op'[o].was = p.was
    BY <1>1, <2>1 DEF Op
  <2>3. /\ Distinct(p) /\ lock[p.maint] = o /\ catalog = Aside(p) /\ p.was[Serving] # NoDb
        /\ p.was[p.aside] = NoDb /\ TokenHolds(p)
    BY <1>1, <2>1 DEF Walk, Section, HalfDone
  <2>4. catalog' = Swapped(p) /\ catalog[p.source] = p.was[p.source]
    BY <1>1, <2>1, <2>3, Renames
  <2>5. TokenHolds(op[o])' /\ Distinct(op[o])' /\ Swapped(op[o])' = Swapped(p)
    BY <2>1, <2>2, <2>3 DEF TokenHolds, Distinct, Swapped
  <2> QED
    BY <1>2, <2>1, <2>2, <2>3, <2>4, <2>5 DEF Walk, Section, HalfDone
<1>9. CASE TakeNameFails(o) \/ Smoke(o) \/ SmokeFails(o)
  <2>1. PICK pc \in {"undoing", "smoked", "failing"} :
          /\ Goes(o, pc) /\ UNCHANGED <<catalog, db, released>>
          /\ pc = "undoing" => p.pc = "moved"
          /\ pc # "undoing" => p.pc = "renamed"
    BY <1>9 DEF TakeNameFails, AfterFailure, Smoke, SmokeFails
  <2>2. pc \in Pcs /\ pc # "idle" /\ pc \in Section /\ p.pc \in Section
    BY <2>1 DEF Pcs, Section
  <2>3. CASE pc = "undoing"
    BY <1>1, <1>2, <1>6, <2>1, <2>2, <2>3 DEF Walk, HalfDone
  <2>4. CASE pc # "undoing"
    BY <1>1, <1>2, <1>6, <2>1, <2>2, <2>4 DEF Walk, HalfDone
  <2> QED
    BY <2>3, <2>4
<1>10. CASE GiveNameBack(o)
  <2>1. /\ p.pc = "failing" /\ Goes(o, "back") /\ UNCHANGED <<db, released>>
        /\ catalog' = Renamed(Serving, p.source)
    BY <1>10 DEF GiveNameBack
  <2>2. /\ Distinct(p) /\ catalog = Swapped(p) /\ p.was[Serving] # NoDb
        /\ p.was[p.aside] = NoDb
    BY <1>1, <2>1 DEF Walk, Section
  <2>3. catalog' = Aside(p)
    BY <1>1, <2>1, <2>2, Renames
  <2> QED
    BY <1>2, <1>6, <2>1, <2>2, <2>3 DEF Walk, Section, HalfDone, Pcs
<1>11. ASSUME NEW pc \in {"idle", "undone", "rolledback"}, Goes(o, pc) PROVE Walk(o)'
  BY <1>1, <1>11, GoesShape DEF Walk, Section, HalfDone, Pcs
<1>12. CASE \/ GiveUp(o) \/ StepAsideFails(o) \/ Undo(o) \/ UndoFails(o) \/ ComeBack(o)
            \/ RollbackFails(o) \/ Return(o) \/ RecordFails(o) \/ Crash(o)
  <2>1. /\ \E pc \in {"idle", "undone", "rolledback"} : Goes(o, pc)
        /\ UNCHANGED <<db, released>>
    BY <1>12 DEF GiveUp, StepAsideFails, Undo, UndoFails, ComeBack, RollbackFails, Return,
                 RecordFails, Crash
  <2> QED
    BY <1>2, <1>11, <2>1
<1>13. CASE Record(o)
  <2>1. /\ p.pc = "smoked" /\ Goes(o, "idle") /\ released' = released + 1
        /\ db' = [db EXCEPT ![ServingDb] = [db[ServingDb] EXCEPT !.active = released + 1,
                                                   !.fp = Judged(o, ServingDb)]]
    BY <1>13 DEF Record
  <2>2. Distinct(p) /\ catalog = Swapped(p) /\ p.was[p.aside] = NoDb /\ TokenHolds(p)
    BY <1>1, <2>1 DEF Walk, Section
  <2>3. ServingDb = p.was[p.source]
    BY <1>1, <2>2, Renames DEF ServingDb
  <2>4. ServingDb \in Dbs /\ db[ServingDb] \in Db
    BY <1>1, <1>13, HotSwapAssumption DEF TypeOK, Record, Bound, ServingDb
  <2>5. db[ServingDb].owes \/ Judged(o, ServingDb) \in {db[ServingDb].content, NoFp}
    BY <2>2, <2>3 DEF Judged, TokenHolds
  <2>6. /\ \A d \in Dbs \ {ServingDb} : db'[d] = db[d]
        /\ db'[ServingDb].active = released + 1
        /\ db'[ServingDb].fp = Judged(o, ServingDb)
        /\ db'[ServingDb].content = db[ServingDb].content
        /\ db'[ServingDb].owes = db[ServingDb].owes
    BY <1>1, <2>1, <2>4 DEF Db
  <2>7. \A d \in Dbs : db'[d].active <= released + 1
    <3>1. \A d \in Dbs : db[d].active \in Int /\ db[d].active <= released
      BY <1>1, HotSwapAssumption DEF LedgerInv, Db, Ids
    <3> QED
      BY <1>1, <2>6, <3>1
  <2>8. HonestToken'
    BY <1>1, <2>5, <2>6 DEF HonestToken
  <2> QED
    BY <1>11, <2>1, <2>7, <2>8 DEF LedgerInv
<1> QED
  BY <1>3, <1>4, <1>5, <1>7, <1>8, <1>9, <1>10, <1>12, <1>13 DEF Step

\* Loads and releases of the serving database: a release makes any token that was
\* read before it worth nothing.
LEMMA ServingStep == ASSUME IInv, Load \/ Publish PROVE WalkInv' /\ LedgerInv' /\ HonestToken'
<1>1. /\ ServingDb \in Dbs /\ db[ServingDb] \in Db /\ db \in [Dbs -> Db] /\ released \in Nat
      /\ UNCHANGED <<catalog, lock, op>>
      /\ \A d \in Dbs : db[d].active \in Int /\ db[d].active <= released
  <2>1. Serving \in Names /\ catalog \in [Names -> Dbs \cup {NoDb}] /\ catalog[Serving] # NoDb
    BY HotSwapAssumption DEF IInv, TypeOK, Load, Publish, Bound
  <2>2. db \in [Dbs -> Db] /\ released \in Nat /\ UNCHANGED <<catalog, lock, op>>
    <3>1. db \in [Dbs -> Db] /\ released \in Ids
      BY DEF IInv, TypeOK
    <3>2. released \in Nat
      BY <3>1, HotSwapAssumption DEF Ids
    <3> QED
      BY <3>1, <3>2 DEF Load, Publish
  <2>3. \A d \in Dbs : db[d].active \in Int /\ db[d].active <= released
    BY <2>2, HotSwapAssumption DEF IInv, LedgerInv, Db, Ids
  <2> QED
    BY <2>1, <2>2, <2>3 DEF ServingDb
<1>2. \A d \in Dbs \ {ServingDb} : db'[d] = db[d]
  BY <1>1 DEF Load, Publish
<1>3. /\ released' \in Nat /\ released <= released'
      /\ db'[ServingDb].active = db[ServingDb].active \/ db'[ServingDb].active = released + 1
      /\ db'[ServingDb].active <= released'
      /\ db'[ServingDb].owes \/ db'[ServingDb].fp \in {db'[ServingDb].content, NoFp}
      /\ db'[ServingDb].owes \/ db'[ServingDb].active = released + 1
  <2>1. CASE Load
    <3>1. PICK c \in Contents :
            db' = [db EXCEPT ![ServingDb] = [db[ServingDb] EXCEPT !.content = c, !.owes = TRUE]]
      BY <2>1 DEF Load
    <3>2. db'[ServingDb].owes /\ db'[ServingDb].active = db[ServingDb].active
      BY <1>1, <3>1 DEF Db
    <3>3. released' = released
      BY <2>1 DEF Load
    <3>4. db[ServingDb].active \in Int /\ db[ServingDb].active <= released
      BY <1>1
    <3> QED
      BY <1>1, <3>2, <3>3, <3>4
  <2>2. CASE Publish
    <3>1. PICK f \in {db[ServingDb].content, NoFp} :
            db' = [db EXCEPT ![ServingDb] =
                     [db[ServingDb] EXCEPT !.active = released + 1, !.fp = f, !.owes = FALSE]]
      BY <2>2 DEF Publish
    <3>2. /\ db'[ServingDb].active = released + 1 /\ db'[ServingDb].fp = f
          /\ db'[ServingDb].content = db[ServingDb].content
      BY <1>1, <3>1 DEF Db
    <3> QED
      BY <1>1, <2>2, <3>2 DEF Publish
  <2> QED
    BY <2>1, <2>2
<1>4. LedgerInv'
  BY <1>1, <1>2, <1>3 DEF LedgerInv
<1>5. HonestToken'
  BY <1>2, <1>3 DEF IInv, HonestToken
<1>6. ASSUME NEW o \in Ops PROVE Walk(o)'
  <2>1. Walk(o) /\ op[o].before \in Int
    BY HotSwapAssumption DEF IInv, WalkInv, TypeOK, Op, Ids
  <2>2. ASSUME TokenHolds(op[o]) PROVE TokenHolds(op[o])'
    <3> DEFINE d == op[o].was[op[o].source]
    <3>1. op[o].before <= released'
      BY <1>1, <1>3, <2>1, <2>2 DEF TokenHolds
    <3>2. CASE op[o].fp = NoFp
      BY <1>1, <3>1, <3>2 DEF TokenHolds
    <3>3. CASE op[o].fp # NoFp /\ d # ServingDb
      BY <1>1, <1>2, <2>2, <3>1, <3>3 DEF TokenHolds
    <3>4. CASE op[o].fp # NoFp /\ d = ServingDb
      <4>1. op[o].before <= released
        BY <2>2 DEF TokenHolds
      <4>2. db'[ServingDb].owes \/ db'[ServingDb].active # op[o].before
        BY <1>1, <1>3, <2>1, <4>1
      <4> QED
        BY <1>1, <3>1, <3>4, <4>2 DEF TokenHolds
    <3> QED
      BY <3>2, <3>3, <3>4
  <2> QED
    BY <1>1, <2>1, <2>2 DEF Walk, Distinct, Aside, Swapped
<1> QED
  BY <1>4, <1>5, <1>6 DEF WalkInv

LEMMA WalkInit == Init => IInv
<1> SUFFICES ASSUME Init PROVE IInv
  OBVIOUS
<1>1. TypeOK
  BY TypeInit
<1>2. WalkInv
  BY DEF Init, WalkInv, Walk, IdleOp, Section, HalfDone
<1>3. ASSUME NEW d \in Dbs
      PROVE  db[d].active <= released /\ (~db[d].owes => db[d].fp \in {db[d].content, NoFp})
  <2>1. PICK v \in Contents : db[d] \in Restored([content |-> v, active |-> 2, fp |-> v,
                                                  owes |-> FALSE])
    BY DEF Init
  <2> QED
    BY <2>1 DEF Init, Restored
<1> QED
  BY <1>1, <1>2, <1>3 DEF IInv, LedgerInv, HonestToken

LEMMA WalkStep == ASSUME IInv, OneLockDb, [Next]_vars PROVE IInv'
<1>1. TypeOK'
  <2>1. CASE UNCHANGED vars
    BY <2>1 DEF IInv, TypeOK, vars
  <2> QED
    BY <2>1, TypeOp, TypeServing DEF IInv, Next
<1>2. CASE UNCHANGED vars
  BY <1>1, <1>2 DEF IInv, vars, WalkInv, Walk, LedgerInv, HonestToken, Distinct, Aside, Swapped,
                    TokenHolds
<1>3. ASSUME NEW o \in Ops, Step(o) PROVE WalkInv' /\ LedgerInv' /\ HonestToken'
  <2>1. \A q \in Ops \ {o} : Walk(q)'
    BY <1>3, OthersKeep DEF IInv
  <2>2. Walk(o)' /\ LedgerInv' /\ HonestToken'
    BY <1>3, OwnStep
  <2> QED
    BY <2>1, <2>2 DEF WalkInv
<1> QED
  BY <1>1, <1>2, <1>3, ServingStep DEF IInv, Next

\* The inductive invariant of the walk: who is in the section is there alone, and the
\* names are where its last step has put them.
THEOREM WalkInductive == ASSUME OneLockDb PROVE Spec => []IInv
<1>1. IInv /\ [Next]_vars => IInv'
  BY WalkStep
<1> QED
  BY <1>1, WalkInit, PTL DEF Spec

\* A database whose loads are all released has a true token or none, although a swap
\* takes its token from a ledger that came with the backup (record_hot_swap_release).
THEOREM HonestTokenHolds == ASSUME OneLockDb PROVE Spec => []HonestToken
<1>1. IInv => HonestToken
  BY DEF IInv
<1> QED
  BY <1>1, WalkInductive, PTL

\* The comment at the lock: a second call fails fast without touching anything.
THEOREM OneSwapHolds == ASSUME OneLockDb PROVE Spec => []OneSwapAtATime
<1>1. IInv => OneSwapAtATime
  <2> SUFFICES ASSUME IInv, NEW o1 \in Ops, NEW o2 \in Ops,
                      op[o1].pc \in Section, op[o2].pc \in Section
               PROVE  o1 = o2
    BY DEF OneSwapAtATime
  <2> QED
    BY Alone DEF IInv
<1> QED
  BY <1>1, WalkInductive, PTL

\* What comes back after a failure is the catalog of before, unless the way back has
\* failed as well (the compensations of _execute_swap).
THEOREM RolledBackHolds == ASSUME OneLockDb PROVE Spec => RolledBackAsBefore
<1>1. ASSUME IInv, [Next]_vars, NEW o \in Ops, op[o].pc \in {"undoing", "back"},
             op'[o].pc \in {"undone", "rolledback"}
      PROVE  catalog' = op[o].was \/ accident'
  <2>1. op'[o] # op[o]
    BY <1>1
  <2>2. Step(o)
    BY <1>1, <2>1, StepShape DEF IInv, Next, vars, Load, Publish
  <2>3. op[o] \in Op /\ Distinct(op[o]) /\ catalog = Aside(op[o])
        /\ op[o].was[op[o].aside] = NoDb
    BY <1>1 DEF IInv, TypeOK, WalkInv, Walk, Section, HalfDone
  <2>4. CASE Undo(o) \/ ComeBack(o)
    BY <1>1, <2>3, <2>4, Renames DEF IInv, Undo, ComeBack, FormerOne
  <2>5. CASE UndoFails(o)
    BY <2>5 DEF UndoFails
  <2>6. CASE RollbackFails(o) \/ Crash(o)
    <3>1. Goes(o, "idle")
      BY <2>6 DEF RollbackFails, Crash
    <3>2. op'[o].pc = "idle"
      BY <1>1, <3>1, GoesShape DEF IInv, Pcs
    <3> QED
      BY <1>1, <3>2
  <2> QED
    BY <1>1, <2>2, <2>4, <2>5, <2>6
       DEF Step, Plan, Lock, GiveUp, FingerprintSource, StepAside, StepAsideFails, TakeName,
           TakeNameFails, Smoke, SmokeFails, GiveNameBack, Return, Record, RecordFails
<1>2. IInv /\ [Next]_vars =>
        [\A o \in Ops :
            op[o].pc \in {"undoing", "back"} /\ op'[o].pc \in {"undone", "rolledback"}
            => catalog' = op[o].was \/ accident']_vars
  BY <1>1
<1> QED
  BY <1>2, WalkInductive, PTL DEF RolledBackAsBefore, Spec

\* The release of a swap goes into the ledger of the database that the swap has put
\* into service, although that ledger is found by name (record_hot_swap_release).
THEOREM RecordedHolds == ASSUME OneLockDb PROVE Spec => RecordedWhereSwapped
<1>1. ASSUME IInv, NEW o \in Ops, op[o].pc = "smoked" PROVE ServingDb = op[o].db
  <2>1. /\ op[o] \in Op /\ Distinct(op[o]) /\ catalog = Swapped(op[o])
        /\ op[o].was[op[o].aside] = NoDb /\ op[o].db = op[o].was[op[o].source]
    BY <1>1 DEF IInv, TypeOK, WalkInv, Walk, Section
  <2> QED
    BY <1>1, <2>1, Renames DEF IInv, ServingDb
<1>2. IInv /\ [Next]_vars =>
        [\A o \in Ops :
            op[o].pc = "smoked" /\ released' # released /\ op'[o].pc = "idle"
            => ServingDb = op[o].db]_vars
  BY <1>1
<1> QED
  BY <1>2, WalkInductive, PTL DEF RecordedWhereSwapped, Spec
================================================================================
