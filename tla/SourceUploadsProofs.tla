-------------------------- MODULE SourceUploadsProofs --------------------------
(***************************************************************************)
(* Uploads for any number of sessions, slots, uploads and requests: what   *)
(* a session says of its progress is true, one session collects at a time, *)
(* the janitor ends nothing that has been registered, and a deletion that  *)
(* nobody chose for a registered file is one without its row from before.  *)
(***************************************************************************)
EXTENDS SourceUploads, FiniteSetTheorems, TLAPS

PartType == [upload : Content, etag : Content, done : BOOLEAN]
MultiType == [st : {"unused", "open", "closed"}, key : Keys, chunk : BOOLEAN]
FileType == {"none"} \cup RowStates
OrderType == [pc : {"idle", "planned", "done"}, key : Keys \cup {NoKey},
              report : Reports \cup {"none"}, rows : SUBSET RowStates,
              to : {"hard_deleted", "delete_failed"}]
SessionType == [state : SessionStates, category : Categories,
                count : 0..Cardinality(Slots), registered : BOOLEAN]
ReqType == [pc : Pcs, s : 0..MaxSessions, k : Slots, u : Content, row : PartType,
            count : 0..Cardinality(Slots), category : Categories,
            hashed : SUBSET Slots]
ScanType == [pc : {"idle", "listed", "loaded"}, key : Keys \cup {NoKey},
             listed : BOOLEAN, live : BOOLEAN]
Fates == {"registration_expired", "cancelled", "expired"}
PassType == [s : 0..MaxSessions, fate : Fates \cup {"skip"}, aborts : SUBSET Content]

TInv ==
    /\ session \in [Sessions -> SessionType]
    /\ part \in [Keys -> PartType]
    /\ multi \in [Uploads -> MultiType]
    /\ object \in [Keys -> Content]
    /\ req \in [Requests -> ReqType]
    /\ janitor # NoPass => janitor.s \in Sessions /\ janitor.fate \in Fates
    /\ janitor \in PassType
    /\ revived \subseteq Sessions

\* What a request is about exists; an upload that is completed is one.
Works(x) ==
    /\ x.pc \notin {"idle", "creating"} =>
          x.s \in Sessions /\ Exists(x.s) /\ x.k \in Required(x.s)
    /\ x.pc \in {"read", "listed", "mismatch", "stored", "recording"} => x.u \in Uploads
    /\ x.pc = "recording" => x.count = Cardinality(DoneSlots(x.s) \cup {x.k})
    /\ x.pc = "creating" =>
          \A s \in Sessions \ revived : Live(s) => session[s].category # x.category

\* The locks.
Apart(x, y) ==
    /\ x.pc = "recording" /\ y.pc = "recording" => x.s # y.s
    /\ x.pc = "creating" /\ y.pc = "creating" => x.category # y.category

WInv ==
    /\ \A r \in Requests : Works(req[r])
    /\ \A q, r \in Requests : q # r => Apart(req[q], req[r])
    /\ \A u \in Uploads : multi[u].st # "unused" =>
          Exists(multi[u].key[1]) /\ multi[u].key[2] \in Required(multi[u].key[1])
    /\ \A s \in Sessions : ~Exists(s) =>
          /\ session[s].count = 0 /\ ~session[s].registered /\ DoneSlots(s) = {}
          /\ \A k \in Slots : ~part[<<s, k>>].done
    /\ janitor # NoPass => Exists(janitor.s)

\* The uploads that anybody knows of have been begun.
Known(u) == u \in Uploads => multi[u].st # "unused"

UInv ==
    /\ \A key \in Keys : Known(part[key].upload)
    /\ \A r \in Requests : Known(req[r].u)
    /\ \A u \in janitor.aborts : Known(u)

\* What is registered stays so, and has its state unless somebody took it up again.
EInv ==
    /\ \A key \in Keys : file[key] # "none" =>
          session[key[1]].registered /\ key[2] \in Required(key[1])
    /\ \A s \in Sessions :
          session[s].registered => session[s].state = "registered" \/ s \in revived

\* What may take the object of a registered file away has been chosen for the file, or is
\* from before it was registered or restored; a report with a row, and a run that has
\* loaded it, have one.
KInv ==
    /\ file \in [Keys -> FileType] /\ item \in [Keys -> SUBSET Reports]
    /\ order \in [Operators -> OrderType]
    /\ \A o \in Operators : order[o].pc # "idle" => order[o].key \in Keys
    /\ scan \in ScanType /\ (scan.pc # "idle" => scan.key \in Keys)
    /\ early \subseteq Keys /\ ordered \subseteq Keys
    /\ scan.live => scan.pc = "loaded" /\ file[scan.key] # "none"
    /\ \A key \in Keys : "file" \in item[key] => file[key] # "none"
    /\ \A key \in Registered : Doomed(key) => key \in early \cup ordered

IInv == TInv /\ WInv /\ UInv /\ ProgressIsTrue /\ OneLiveSession /\ EInv /\ KInv

--------------------------------------------------------------------------------
LEMMA Sizes == Cardinality(Slots) \in Nat /\ Cardinality({}) = 0
  BY UploadsAssumption, FS_CardinalityType, FS_EmptySet

LEMMA NoReqType ==
    /\ NoReq \in ReqType /\ NoReq.pc = "idle" /\ NoReq.k \in Slots
    /\ NoReq.category \in Categories /\ NoPart \in PartType
<1>1. \E c \in Categories : SlotsOf[c] # {} /\ SlotsOf[c] \subseteq Slots
  BY UploadsAssumption
<1>2. (CHOOSE k \in Slots : TRUE) \in Slots
  BY <1>1
<1>3. (CHOOSE c \in Categories : TRUE) \in Categories
  BY <1>1
<1>4. NoPart \in PartType
  BY DEF NoPart, PartType, Content
<1>5. 0 \in 0..MaxSessions /\ 0 \in 0..Cardinality(Slots)
  BY UploadsAssumption, Sizes
<1> QED
  BY <1>2, <1>3, <1>4, <1>5 DEF NoReq, ReqType, Pcs, Content

LEMMA RequiredType ==
    ASSUME TInv, NEW s \in Sessions
    PROVE  /\ Required(s) \subseteq Slots /\ Required(s) # {} /\ IsFiniteSet(Required(s))
           /\ Cardinality(Required(s)) \in Nat
<1>1. session[s].category \in Categories
  BY DEF TInv, SessionType
<1>2. Required(s) \subseteq Slots /\ Required(s) # {}
  BY <1>1, UploadsAssumption DEF Required
<1> QED
  BY <1>2, UploadsAssumption, FS_Subset, FS_CardinalityType

\* The number of some of the slots.
LEMMA CountType ==
    ASSUME NEW D \in SUBSET Slots
    PROVE  Cardinality(D) \in 0..Cardinality(Slots)
<1>1. IsFiniteSet(D) /\ Cardinality(D) <= Cardinality(Slots)
  BY UploadsAssumption, FS_Subset
<1>2. Cardinality(D) \in Nat
  BY <1>1, FS_CardinalityType
<1> QED
  BY <1>1, <1>2, Sizes

LEMMA NoPassType == NoPass \in PassType
<1>1. 0 \in 0..MaxSessions
  BY UploadsAssumption
<1> QED
  BY <1>1 DEF NoPass, PassType

LEMMA NoOrderType == NoOrder \in OrderType /\ NoOrder.pc = "idle"
  BY DEF NoOrder, OrderType

LEMMA InitIInv == Init => IInv
<1> SUFFICES ASSUME Init PROVE IInv
  OBVIOUS
<1>1. 1 \in Sessions /\ 0 \in 0..Cardinality(Slots)
  BY UploadsAssumption, Sizes DEF Sessions
<1>2. TInv
  <2>1. session \in [Sessions -> SessionType]
    BY <1>1, NoReqType DEF Init, SessionType, SessionStates
  <2>2. part \in [Keys -> PartType] /\ req \in [Requests -> ReqType]
    BY NoReqType DEF Init
  <2>3. multi \in [Uploads -> MultiType]
    BY <1>1, NoReqType DEF Init, MultiType, Keys
  <2>4. object \in [Keys -> Content]
    BY DEF Init, Content
  <2> QED
    BY <2>1, <2>2, <2>3, <2>4, NoPassType DEF Init, TInv
<1>3. \A s \in Sessions : ~Exists(s) /\ ~Live(s) /\ \A k \in Slots : ~part[<<s, k>>].done
  BY DEF Init, Exists, Live, Keys, NoPart
<1>4. \A s \in Sessions : DoneSlots(s) = {}
  BY <1>2, <1>3, RequiredType DEF DoneSlots
<1>5. WInv
  BY <1>3, <1>4, NoReqType DEF Init, WInv, Works, Apart
<1>6. ProgressIsTrue /\ OneLiveSession
  BY <1>3 DEF Init, ProgressIsTrue, OneLiveSession
<1>7. EInv
  BY DEF Init, EInv, Keys
<1>9. KInv
  <2>1. scan \in ScanType /\ scan.pc = "idle" /\ ~scan.live
    BY DEF Init, NoScan, ScanType
  <2>2. order \in [Operators -> OrderType] /\ \A o \in Operators : order[o].pc = "idle"
    BY NoOrderType DEF Init
  <2> QED
    BY <2>1, <2>2 DEF Init, KInv, FileType, Registered
<1>8. UInv
  BY UploadsAssumption DEF Init, UInv, Known, NoPart, NoReq, NoPass, Keys
<1> QED
  BY <1>2, <1>5, <1>6, <1>7, <1>8, <1>9 DEF IInv

--------------------------------------------------------------------------------
(* Steps of a request that leave the sessions and the registry alone.      *)

\* Sessions as they are, and files that are as complete as they were.
LEMMA SameSlots ==
    ASSUME session' = session, \A key \in Keys : part'[key].done = part[key].done, TInv
    PROVE  \A s \in Sessions :
              /\ Exists(s)' = Exists(s) /\ Live(s)' = Live(s) /\ Required(s)' = Required(s)
              /\ DoneSlots(s)' = DoneSlots(s) /\ Stored(s)' = Stored(s)
<1> SUFFICES ASSUME NEW s \in Sessions
             PROVE  /\ Exists(s)' = Exists(s) /\ Live(s)' = Live(s)
                    /\ Required(s)' = Required(s) /\ DoneSlots(s)' = DoneSlots(s)
                    /\ Stored(s)' = Stored(s)
  OBVIOUS
<1>1. Exists(s)' = Exists(s) /\ Live(s)' = Live(s) /\ Required(s)' = Required(s)
  BY DEF Exists, Live, Required
<1>2. \A k \in Required(s) : <<s, k>> \in Keys
  BY RequiredType DEF Keys
<1>3. DoneSlots(s)' = DoneSlots(s)
  BY <1>1, <1>2 DEF DoneSlots
<1> QED
  BY <1>1, <1>3 DEF Stored

LEMMA WorksSame ==
    ASSUME session' = session, revived' = revived,
           \A key \in Keys : part'[key].done = part[key].done, TInv, NEW y, Works(y)
    PROVE  Works(y)'
<1>1. \A s \in Sessions :
         /\ Exists(s)' = Exists(s) /\ Live(s)' = Live(s) /\ Required(s)' = Required(s)
         /\ DoneSlots(s)' = DoneSlots(s)
  BY SameSlots
<1> QED
  BY <1>1 DEF Works

\* As long as no object goes away, the registry and the reconciliation keep their promise.
LEMMA RegistryKept ==
    ASSUME KInv, UNCHANGED <<file, early, reconcileVars>>,
           \A key \in Keys : object'[key] = NoUpload => object[key] = NoUpload
    PROVE  KInv'
<1>1. Registered' = Registered /\ Registered \subseteq Keys
  BY DEF Registered
<1>2. \A key \in Keys : Doomed(key)' => Doomed(key)
  BY DEF Doomed, reconcileVars
<1> QED
  BY <1>1, <1>2 DEF KInv, reconcileVars

LEMMA RequestKeeps ==
    ASSUME IInv, NEW r \in Requests, NEW x \in ReqType, req' = [req EXCEPT ![r] = x],
           UNCHANGED <<session, file, revived, early, reconcileVars, janitor>>,
           part' \in [Keys -> PartType], \A key \in Keys : part'[key].done = part[key].done,
           multi' \in [Uploads -> MultiType],
           \A u \in Uploads : multi'[u].st # "unused" =>
              Exists(multi'[u].key[1]) /\ multi'[u].key[2] \in Required(multi'[u].key[1]),
           \A u \in Uploads : multi'[u].st = "unused" => multi[u].st = "unused",
           x.u \in Uploads => multi'[x.u].st # "unused",
           \A key \in Keys : part'[key].upload \in Uploads =>
              multi'[part'[key].upload].st # "unused",
           object' \in [Keys -> Content],
           \A key \in Keys : object'[key] = NoUpload => object[key] = NoUpload,
           Works(x), \A q \in Requests \ {r} : Apart(x, req[q]) /\ Apart(req[q], x)
    PROVE  IInv'
<1>1. TInv /\ WInv /\ UInv /\ ProgressIsTrue /\ OneLiveSession /\ EInv /\ KInv
  BY DEF IInv
<1>2. req' \in [Requests -> ReqType] /\ req'[r] = x /\ \A q \in Requests \ {r} : req'[q] = req[q]
  BY <1>1 DEF TInv
<1>3. TInv'
  BY <1>1, <1>2 DEF TInv
<1>4. \A s \in Sessions :
         /\ Exists(s)' = Exists(s) /\ Live(s)' = Live(s) /\ Required(s)' = Required(s)
         /\ DoneSlots(s)' = DoneSlots(s) /\ Stored(s)' = Stored(s)
  BY <1>1, SameSlots
<1>6. WInv'
  <2>1. \A q \in Requests : Works(req[q]) /\ req[q] \in ReqType
    BY <1>1 DEF WInv, TInv
  <2>2. ASSUME NEW q \in Requests PROVE Works(req[q])'
    <3>1. PICK y \in ReqType : y = req'[q] /\ Works(y)
      BY <1>2, <2>1
    <3>2. Works(y)'
      BY <1>1, <3>1, WorksSame
    <3> QED
      BY <3>1, <3>2 DEF Works
  <2>3. \A p, q \in Requests : p # q => Apart(req'[p], req'[q])
    BY <1>1, <1>2 DEF WInv
  <2>4. (\A u \in Uploads : multi[u].st # "unused" =>
            Exists(multi[u].key[1]) /\ multi[u].key[2] \in Required(multi[u].key[1]))'
    BY DEF Exists, Required
  <2>5. \A s \in Sessions : ~Exists(s)' =>
           /\ session[s].count = 0 /\ ~session[s].registered /\ DoneSlots(s)' = {}
           /\ \A k \in Slots : ~part'[<<s, k>>].done
    BY <1>1, <1>4 DEF WInv, Keys
  <2>6. janitor # NoPass => Exists(janitor.s)'
    BY <1>1 DEF WInv, Exists
  <2> QED
    BY <2>2, <2>3, <2>4, <2>5, <2>6 DEF WInv
<1>7. ProgressIsTrue' /\ OneLiveSession'
  BY <1>1, <1>4 DEF ProgressIsTrue, OneLiveSession
<1>8. EInv'
  BY <1>1 DEF EInv, Required
<1>9. KInv'
  BY <1>1, RegistryKept
<1>10. UInv'
  BY <1>1, <1>2 DEF UInv, Known
<1> QED
  BY <1>3, <1>6, <1>7, <1>8, <1>9, <1>10 DEF IInv

LEMMA QuietKeeps ==
    ASSUME IInv, NEW r \in Requests, NEW x \in ReqType, req' = [req EXCEPT ![r] = x],
           UNCHANGED <<session, part, multi, object, file, revived, early, reconcileVars,
                       janitor>>,
           Works(x), Known(x.u),
           \A q \in Requests \ {r} : Apart(x, req[q]) /\ Apart(req[q], x)
    PROVE  IInv'
<1>1. TInv /\ WInv /\ UInv
  BY DEF IInv
<1>2. /\ part' \in [Keys -> PartType] /\ multi' \in [Uploads -> MultiType]
      /\ object' \in [Keys -> Content]
      /\ \A u \in Uploads : multi'[u].st # "unused" =>
            Exists(multi'[u].key[1]) /\ multi'[u].key[2] \in Required(multi'[u].key[1])
  BY <1>1 DEF TInv, WInv
<1>3. /\ x.u \in Uploads => multi'[x.u].st # "unused"
      /\ \A key \in Keys : part'[key].upload \in Uploads =>
            multi'[part'[key].upload].st # "unused"
  BY <1>1 DEF UInv, Known
<1> QED
  BY <1>2, <1>3, RequestKeeps

\* A request that has not come to its lock.
LEMMA NoLockApart ==
    ASSUME NEW x, x.pc \notin {"recording", "creating"}
    PROVE  \A y : Apart(x, y) /\ Apart(y, x)
  BY DEF Apart

LEMMA NoReqWorks ==
    Works(NoReq) /\ NoReq.pc \notin {"recording", "creating"} /\ NoReq.u \notin Uploads
  BY NoReqType, UploadsAssumption DEF Works, NoReq

LEMMA Contents == NoUpload \in Content /\ Uploads \subseteq Content
  BY DEF Content

LEMMA Begun ==
    ASSUME IInv, NEW pc \in {"initiated", "put", "replacing", "registering"},
           NEW s \in Sessions, NEW k \in Slots, NEW u \in Content, NEW r \in Requests,
           Starts(r, pc, s, k, u)
    PROVE  \E x \in ReqType : /\ req' = [req EXCEPT ![r] = x] /\ Works(x)
                              /\ x.pc \notin {"recording", "creating"} /\ x.u = u
<1> DEFINE x == [NoReq EXCEPT !.pc = pc, !.s = s, !.k = k, !.u = u]
<1>1. x.pc = pc /\ x.s = s /\ x.k = k /\ x.u = u /\ x \in ReqType
  <2>1. pc \in Pcs /\ s \in 0..MaxSessions
    BY UploadsAssumption DEF Pcs, Sessions
  <2> QED
    BY <2>1, NoReqType DEF ReqType
<1>2. req' = [req EXCEPT ![r] = x] /\ Exists(s) /\ k \in Required(s)
  BY DEF Starts
<1> HIDE DEF x
<1> QED
  BY <1>1, <1>2 DEF Works

LEMMA Gone ==
    ASSUME IInv, NEW r \in Requests, NEW pc \in {"mismatch", "listed", "unregistering"},
           pc \in {"mismatch", "listed"} => req[r].pc = "read",
           req[r].pc \notin {"idle", "creating"}, Goes(r, pc)
    PROVE  \E x \in ReqType : /\ req' = [req EXCEPT ![r] = x] /\ Works(x)
                              /\ x.pc \notin {"recording", "creating"} /\ Known(x.u)
<1> DEFINE x == [req[r] EXCEPT !.pc = pc]
<1>1. req[r] \in ReqType /\ Works(req[r]) /\ Known(req[r].u)
  BY DEF IInv, TInv, WInv, UInv
<1>2. /\ x.pc = pc /\ x.s = req[r].s /\ x.k = req[r].k /\ x.u = req[r].u
      /\ x \in ReqType /\ req' = [req EXCEPT ![r] = x]
  BY <1>1 DEF ReqType, Pcs, Goes
<1> HIDE DEF x
<1>3. Works(x)
  BY <1>1, <1>2 DEF Works
<1> QED
  BY <1>1, <1>2, <1>3

LEMMA UploadWorks ==
    ASSUME IInv, NEW u \in Uploads
    PROVE  /\ multi[u] \in MultiType /\ multi[u].key \in Keys
           /\ multi[u].key[1] \in Sessions /\ multi[u].key[2] \in Slots
           /\ multi[u].key = <<multi[u].key[1], multi[u].key[2]>>
           /\ multi[u].st # "unused" =>
                 Exists(multi[u].key[1]) /\ multi[u].key[2] \in Required(multi[u].key[1])
  BY DEF IInv, TInv, WInv, MultiType, Keys

LEMMA ClosedKeeps ==
    ASSUME IInv, NEW u \in Uploads, multi[u].st # "unused"
    PROVE  /\ Closed(u) \in [Uploads -> MultiType]
           /\ \A v \in Uploads : Closed(u)[v].st # "unused" =>
                 Exists(Closed(u)[v].key[1])
                 /\ Closed(u)[v].key[2] \in Required(Closed(u)[v].key[1])
           /\ \A v \in Uploads : Closed(u)[v].st = "unused" => multi[v].st = "unused"
<1>1. multi \in [Uploads -> MultiType]
  BY DEF IInv, TInv
<1>2. /\ Closed(u) \in [Uploads -> MultiType]
      /\ \A v \in Uploads : Closed(u)[v].key = multi[v].key
                            /\ (v # u => Closed(u)[v].st = multi[v].st)
                            /\ (v = u => Closed(u)[v].st = "closed")
  BY <1>1 DEF Closed, MultiType
<1> QED
  BY <1>2, UploadWorks

--------------------------------------------------------------------------------
LEMMA OpenKeeps ==
    ASSUME IInv, NEW r \in Requests, UNCHANGED <<reconcileVars, janitor>>,
           \/ \E c \in Categories : FindSession(r, c)
           \/ \E s \in Sessions, k \in Slots : Initiate(r, s, k) \/ Replace(r, s, k)
           \/ \E u \in Uploads : UploadPart(r, u) \/ Complete(r, u) \/ AbortUpload(r, u)
           \/ \E s \in Sessions : BeginRegister(r, s)
    PROVE  IInv'
<1>1. ASSUME NEW c \in Categories, FindSession(r, c) PROVE IInv'
  <2> DEFINE x == [NoReq EXCEPT !.pc = "creating", !.category = c]
  <2>1. x \in ReqType /\ x.pc = "creating" /\ x.category = c /\ x.u = NoReq.u
    BY NoReqType DEF ReqType, Pcs
  <2>2. /\ req' = [req EXCEPT ![r] = x] /\ CategoryFree(c)
        /\ \A s \in Sessions : Live(s) => session[s].category # c
        /\ UNCHANGED <<session, part, multi, object, file, revived, early>>
    BY <1>1 DEF FindSession
  <2> HIDE DEF x
  <2>3. Works(x) /\ \A q \in Requests \ {r} : Apart(x, req[q]) /\ Apart(req[q], x)
    BY <2>1, <2>2 DEF Works, Apart, CategoryFree
  <2>4. Known(x.u)
    BY <2>1, NoReqWorks DEF Known
  <2> QED
    BY <2>1, <2>2, <2>3, <2>4, QuietKeeps
<1>2. ASSUME NEW s \in Sessions, NEW k \in Slots, Initiate(r, s, k) PROVE IInv'
  <2>1. PICK u \in Uploads :
           /\ Starts(r, "initiated", s, k, u)
           /\ multi' = [multi EXCEPT ![u] = [st |-> "open", key |-> <<s, k>>, chunk |-> FALSE]]
           /\ part' = [part EXCEPT ![<<s, k>>].upload = u]
           /\ UNCHANGED <<session, object, file, revived, early>>
    BY <1>2 DEF Initiate
  <2>2. PICK x \in ReqType : /\ req' = [req EXCEPT ![r] = x] /\ Works(x)
                             /\ x.pc \notin {"recording", "creating"} /\ x.u = u
    BY <2>1, Begun, Contents
  <2>3. part \in [Keys -> PartType] /\ object \in [Keys -> Content]
        /\ multi \in [Uploads -> MultiType] /\ <<s, k>> \in Keys
    BY DEF IInv, TInv, Keys
  <2>4. part' \in [Keys -> PartType] /\ \A key \in Keys : part'[key].done = part[key].done
    BY <2>1, <2>3 DEF PartType, Content
  <2>5. Exists(s) /\ k \in Required(s)
    BY <2>1 DEF Starts
  <2>6. /\ multi' \in [Uploads -> MultiType]
        /\ \A v \in Uploads : multi'[v] = IF v = u THEN [st |-> "open", key |-> <<s, k>>,
                                                         chunk |-> FALSE] ELSE multi[v]
    BY <2>1, <2>3 DEF MultiType
  <2>7. \A v \in Uploads : multi'[v].st # "unused" =>
           Exists(multi'[v].key[1]) /\ multi'[v].key[2] \in Required(multi'[v].key[1])
    BY <2>5, <2>6, UploadWorks
  <2>9. \A q \in Requests \ {r} : Apart(x, req[q]) /\ Apart(req[q], x)
    BY <2>2 DEF Apart
  <2>10. /\ \A v \in Uploads : multi'[v].st = "unused" => multi[v].st = "unused"
         /\ x.u \in Uploads => multi'[x.u].st # "unused"
    BY <2>2, <2>6
  <2>11. \A key \in Keys : part'[key].upload = part[key].upload \/ part'[key].upload = u
    BY <2>1, <2>3 DEF PartType
  <2>12. \A key \in Keys : part'[key].upload \in Uploads =>
            multi'[part'[key].upload].st # "unused"
    BY <2>6, <2>11 DEF IInv, UInv, Known
  <2> QED
    BY <2>1, <2>2, <2>3, <2>4, <2>6, <2>7, <2>9, <2>10, <2>12, RequestKeeps
<1>3. ASSUME NEW s \in Sessions, NEW k \in Slots, Replace(r, s, k) PROVE IInv'
  <2>1. PICK x \in ReqType : /\ req' = [req EXCEPT ![r] = x] /\ Works(x)
                             /\ x.pc \notin {"recording", "creating"} /\ x.u = NoUpload
    <3>1. Starts(r, "replacing", s, k, NoUpload)
      BY <1>3 DEF Replace
    <3> QED
      BY <3>1, Begun, Contents
  <2>9. \A q \in Requests \ {r} : Apart(x, req[q]) /\ Apart(req[q], x)
    BY <2>1 DEF Apart
  <2>10. Known(x.u)
    BY <2>1, UploadsAssumption DEF Known
  <2> QED
    BY <1>3, <2>1, <2>9, <2>10, QuietKeeps DEF Replace
<1>4. ASSUME NEW u \in Uploads, UploadPart(r, u) PROVE IInv'
  <2>1. PICK x \in ReqType : /\ req' = [req EXCEPT ![r] = x] /\ Works(x)
                             /\ x.pc \notin {"recording", "creating"} /\ x.u = u
    <3>1. Starts(r, "put", multi[u].key[1], multi[u].key[2], u)
      BY <1>4 DEF UploadPart
    <3> QED
      BY <3>1, Begun, Contents, UploadWorks
  <2>2. multi \in [Uploads -> MultiType] /\ part \in [Keys -> PartType]
        /\ object \in [Keys -> Content]
    BY DEF IInv, TInv
  <2>3. /\ multi' \in [Uploads -> MultiType]
        /\ \A v \in Uploads : multi'[v].st = multi[v].st /\ multi'[v].key = multi[v].key
    BY <1>4, <2>2 DEF UploadPart, MultiType
  <2>4. UNCHANGED <<session, part, object, file, revived, early>>
    BY <1>4 DEF UploadPart
  <2>9. \A q \in Requests \ {r} : Apart(x, req[q]) /\ Apart(req[q], x)
    BY <2>1 DEF Apart
  <2>10. /\ x.u \in Uploads => multi'[x.u].st # "unused"
         /\ \A key \in Keys : part'[key].upload \in Uploads =>
               multi'[part'[key].upload].st # "unused"
    BY <1>4, <2>1, <2>3, <2>4 DEF UploadPart, IInv, UInv, Known
  <2> QED
    BY <2>1, <2>2, <2>3, <2>4, <2>9, <2>10, UploadWorks, RequestKeeps
<1>5. ASSUME NEW u \in Uploads, Complete(r, u) PROVE IInv'
  <2> DEFINE key == multi[u].key
             x == [NoReq EXCEPT !.pc = "read", !.s = key[1], !.k = key[2], !.u = u,
                                !.row = part[key]]
  <2>1. part[key] \in PartType
    BY UploadWorks DEF IInv, TInv
  <2>2. /\ x \in ReqType /\ x.pc = "read" /\ x.s = key[1] /\ x.k = key[2] /\ x.u = u
    <3>1. "read" \in Pcs /\ u \in Content /\ key[1] \in 0..MaxSessions /\ key[2] \in Slots
      BY UploadWorks, Contents, UploadsAssumption DEF Pcs, Sessions
    <3> QED
      BY <2>1, <3>1, NoReqType DEF ReqType
  <2>3. /\ req' = [req EXCEPT ![r] = x] /\ multi[u].st # "unused"
        /\ UNCHANGED <<session, part, multi, object, file, revived, early>>
    BY <1>5 DEF Complete
  <2> HIDE DEF x
  <2>4. Works(x)
    BY <2>2, <2>3, UploadWorks DEF Works
  <2>5. Known(x.u)
    BY <2>2, <2>3 DEF Known
  <2> QED
    BY <2>2, <2>3, <2>4, <2>5, NoLockApart, QuietKeeps
<1>6. ASSUME NEW u \in Uploads, AbortUpload(r, u) PROVE IInv'
  <2>1. PICK x \in ReqType : /\ req' = [req EXCEPT ![r] = x] /\ Works(x)
                             /\ x.pc \notin {"recording", "creating"} /\ x.u = u
    <3>1. Starts(r, "replacing", multi[u].key[1], multi[u].key[2], u)
      BY <1>6 DEF AbortUpload
    <3> QED
      BY <3>1, Begun, Contents, UploadWorks
  <2>2. part \in [Keys -> PartType] /\ object \in [Keys -> Content]
    BY DEF IInv, TInv
  <2>3. /\ multi' = Closed(u) /\ multi[u].st # "unused"
        /\ UNCHANGED <<session, part, object, file, revived, early>>
    BY <1>6 DEF AbortUpload
  <2>4. /\ multi' \in [Uploads -> MultiType]
        /\ \A v \in Uploads : multi'[v].st # "unused" =>
              Exists(multi'[v].key[1]) /\ multi'[v].key[2] \in Required(multi'[v].key[1])
        /\ \A v \in Uploads : multi'[v].st = "unused" => multi[v].st = "unused"
    BY <2>3, ClosedKeeps
  <2>9. \A q \in Requests \ {r} : Apart(x, req[q]) /\ Apart(req[q], x)
    BY <2>1 DEF Apart
  <2>10. /\ x.u \in Uploads => multi'[x.u].st # "unused"
         /\ \A key \in Keys : part'[key].upload \in Uploads =>
               multi'[part'[key].upload].st # "unused"
    BY <2>1, <2>2, <2>3, <2>4 DEF IInv, UInv, Known, PartType
  <2> QED
    BY <2>1, <2>2, <2>3, <2>4, <2>9, <2>10, RequestKeeps
<1>7. ASSUME NEW s \in Sessions, BeginRegister(r, s) PROVE IInv'
  <2>1. (CHOOSE k \in Required(s) : TRUE) \in Slots
    BY RequiredType DEF IInv
  <2>2. PICK x \in ReqType : /\ req' = [req EXCEPT ![r] = x] /\ Works(x)
                             /\ x.pc \notin {"recording", "creating"} /\ x.u = NoUpload
    <3>1. Starts(r, "registering", s, CHOOSE k \in Required(s) : TRUE, NoUpload)
      BY <1>7 DEF BeginRegister
    <3> QED
      BY <2>1, <3>1, Begun, Contents
  <2>9. \A q \in Requests \ {r} : Apart(x, req[q]) /\ Apart(req[q], x)
    BY <2>2 DEF Apart
  <2>10. Known(x.u)
    BY <2>2, UploadsAssumption DEF Known
  <2> QED
    BY <1>7, <2>2, <2>9, <2>10, QuietKeeps DEF BeginRegister
<1> QED
  BY <1>1, <1>2, <1>3, <1>4, <1>5, <1>6, <1>7

\* The steps in the middle of a request.
LEMMA MiddleKeeps ==
    ASSUME IInv, NEW r \in Requests, UNCHANGED <<reconcileVars, janitor>>,
           \/ RecordPart(r) \/ ListParts(r) \/ CompleteInStorage(r) \/ CountSlots(r)
           \/ HashSlot(r) \/ RegisterFails(r) \/ Raises(r)
    PROVE  IInv'
<1> DEFINE y == req[r]
<1>1. /\ TInv /\ y \in ReqType /\ Works(y) /\ Known(y.u) /\ req \in [Requests -> ReqType]
      /\ \A key \in Keys : Known(part[key].upload)
      /\ part \in [Keys -> PartType] /\ multi \in [Uploads -> MultiType]
      /\ object \in [Keys -> Content]
  BY DEF IInv, TInv, WInv, UInv
<1>2. \A u \in Uploads : multi[u].st # "unused" =>
         Exists(multi[u].key[1]) /\ multi[u].key[2] \in Required(multi[u].key[1])
  BY UploadWorks
<1>3. y.pc \notin {"idle", "creating"} =>
         /\ y.s \in Sessions /\ Exists(y.s) /\ y.k \in Required(y.s) /\ Key(r) \in Keys
         /\ Required(y.s) \subseteq Slots
  BY <1>1, RequiredType DEF Works, Key, Keys
<1>4. \A q \in Requests \ {r} : Apart(NoReq, req[q]) /\ Apart(req[q], NoReq)
  BY NoReqWorks, NoLockApart
<1>5. CASE RecordPart(r)
  <2>1. /\ part' \in [Keys -> PartType] /\ \A key \in Keys : part'[key].done = part[key].done
    BY <1>1, <1>3, <1>5 DEF RecordPart, PartType, ReqType
  <2>2. UNCHANGED <<session, multi, object, file, revived, early>>
        /\ req' = [req EXCEPT ![r] = NoReq]
    BY <1>5 DEF RecordPart, Ends
  <2>3. \A key \in Keys : part'[key].upload = part[key].upload \/ part'[key].upload = y.u
    BY <1>1, <1>5 DEF RecordPart, PartType
  <2>4. \A key \in Keys : part'[key].upload \in Uploads =>
           multi'[part'[key].upload].st # "unused"
    BY <1>1, <2>2, <2>3 DEF Known
  <2> QED
    BY <1>1, <1>2, <1>4, <2>1, <2>2, <2>4, NoReqType, NoReqWorks, RequestKeeps
<1>6. CASE ListParts(r)
  <2>1. PICK x \in ReqType : /\ req' = [req EXCEPT ![r] = x] /\ Works(x)
                             /\ x.pc \notin {"recording", "creating"} /\ Known(x.u)
    BY <1>6, Gone DEF ListParts
  <2>9. \A q \in Requests \ {r} : Apart(x, req[q]) /\ Apart(req[q], x)
    BY <2>1 DEF Apart
  <2> QED
    BY <1>6, <2>1, <2>9, QuietKeeps DEF ListParts
<1>7. CASE CompleteInStorage(r)
  <2>1. /\ y.pc = "listed" /\ y.u \in Uploads /\ multi[y.u].st = "open"
        /\ multi' = Closed(y.u) /\ object' = [object EXCEPT ![Key(r)] = y.u]
        /\ UNCHANGED <<session, part, file, revived, early>>
        /\ \/ req' = [req EXCEPT ![r] = NoReq]
           \/ req' = [req EXCEPT ![r].pc = "stored", ![r].row = NoPart]
    BY <1>1, <1>7 DEF CompleteInStorage, Ends, Works
  <2>2. /\ multi' \in [Uploads -> MultiType]
        /\ \A v \in Uploads : multi'[v].st # "unused" =>
              Exists(multi'[v].key[1]) /\ multi'[v].key[2] \in Required(multi'[v].key[1])
        /\ \A v \in Uploads : multi'[v].st = "unused" => multi[v].st = "unused"
    BY <2>1, ClosedKeeps
  <2>3. /\ object' \in [Keys -> Content]
        /\ \A key \in Keys : object'[key] = NoUpload => object[key] = NoUpload
    BY <1>1, <2>1, UploadsAssumption DEF Content
  <2>6. \A u \in Content : Known(u) => (u \in Uploads => multi'[u].st # "unused")
    BY <2>2 DEF Known
  <2>7. \A key \in Keys : part'[key].upload \in Uploads =>
           multi'[part'[key].upload].st # "unused"
    BY <1>1, <2>1, <2>6 DEF PartType
  <2>4. CASE req' = [req EXCEPT ![r] = NoReq]
    BY <2>7, <1>1, <1>4, <2>1, <2>2, <2>3, <2>4, NoReqType, NoReqWorks, RequestKeeps
  <2>5. CASE req' = [req EXCEPT ![r].pc = "stored", ![r].row = NoPart]
    <3> DEFINE x == [y EXCEPT !.pc = "stored", !.row = NoPart]
    <3>1. /\ req' = [req EXCEPT ![r] = x]
      BY <1>1, <2>5
    <3>2. x \in ReqType /\ x.pc = "stored" /\ x.s = y.s /\ x.k = y.k /\ x.u = y.u
      BY <1>1, NoReqType DEF ReqType, Pcs
    <3> HIDE DEF x, y
    <3>3. Works(x)
      BY <1>3, <2>1, <3>2 DEF Works
    <3>4. x.u \in Uploads => multi'[x.u].st # "unused"
      BY <1>1, <2>6, <3>2 DEF ReqType
    <3>9. \A q \in Requests \ {r} : Apart(x, req[q]) /\ Apart(req[q], x)
      BY <3>2 DEF Apart
    <3> QED
      BY <1>1, <2>1, <2>2, <2>3, <2>6, <2>7, <3>1, <3>2, <3>3, <3>4, <3>9, RequestKeeps
  <2> QED
    BY <2>1, <2>4, <2>5
<1>8. CASE CountSlots(r)
  <2> DEFINE n == Cardinality(DoneSlots(y.s) \cup {y.k})
             x == [y EXCEPT !.pc = "recording", !.count = n]
  <2>1. /\ y.pc = "stored" /\ SessionFree(y.s)
        /\ req' = [req EXCEPT ![r].pc = "recording", ![r].count = n]
        /\ UNCHANGED <<session, part, multi, object, file, revived, early>>
    BY <1>8 DEF CountSlots
  <2>2. n \in 0..Cardinality(Slots)
    BY <1>3, <2>1, CountType DEF DoneSlots
  <2> HIDE DEF n
  <2>3. /\ x \in ReqType /\ x.pc = "recording" /\ x.count = n /\ x.s = y.s /\ x.k = y.k
        /\ x.u = y.u
    BY <1>1, <2>2 DEF ReqType, Pcs
  <2>4. req' = [req EXCEPT ![r] = x]
    BY <1>1, <2>1
  <2> HIDE DEF x, y
  <2>5. Works(x)
    BY <1>1, <1>3, <2>1, <2>3 DEF Works, n
  <2>9. \A q \in Requests \ {r} : Apart(x, req[q]) /\ Apart(req[q], x)
    BY <2>1, <2>3 DEF Apart, SessionFree
  <2>6. Known(x.u)
    BY <1>1, <2>3
  <2> QED
    BY <2>1, <2>3, <2>4, <2>5, <2>6, <2>9, QuietKeeps
<1>9. CASE HashSlot(r)
  <2>1. PICK k \in Required(y.s) :
           /\ <<y.s, k>> \in Keys
           /\ req' = [req EXCEPT ![r].hashed = @ \cup {k}]
    BY <1>3, <1>9 DEF HashSlot, Keys
  <2> DEFINE h == y.hashed \cup {k}
             x == [y EXCEPT !.hashed = h]
  <2>2. /\ y.pc = "registering" /\ UNCHANGED <<session, part, multi, object, file, revived, early>>
    BY <1>9 DEF HashSlot
  <2>3. h \subseteq Slots
    BY <1>1, <1>3, <2>1, <2>2 DEF ReqType
  <2>4. req' = [req EXCEPT ![r] = x]
    BY <1>1, <2>1
  <2> HIDE DEF h
  <2>5. x \in ReqType /\ x.pc = "registering" /\ x.s = y.s /\ x.k = y.k /\ x.u = y.u
    BY <1>1, <2>2, <2>3 DEF ReqType
  <2> HIDE DEF x, y
  <2>6. Works(x)
    BY <1>3, <2>2, <2>5 DEF Works
  <2>9. \A q \in Requests \ {r} : Apart(x, req[q]) /\ Apart(req[q], x)
    BY <2>5 DEF Apart
  <2>7. Known(x.u)
    BY <1>1, <2>5
  <2> QED
    BY <2>2, <2>4, <2>5, <2>6, <2>7, <2>9, QuietKeeps
<1>10. CASE RegisterFails(r)
  <2>1. PICK x \in ReqType : /\ req' = [req EXCEPT ![r] = x] /\ Works(x)
                             /\ x.pc \notin {"recording", "creating"} /\ Known(x.u)
    BY <1>10, Gone DEF RegisterFails, Hashed
  <2>9. \A q \in Requests \ {r} : Apart(x, req[q]) /\ Apart(req[q], x)
    BY <2>1 DEF Apart
  <2> QED
    BY <1>10, <2>1, <2>9, QuietKeeps DEF RegisterFails
<1>11. CASE Raises(r)
  <2>1. Known(NoReq.u)
    BY NoReqWorks DEF Known
  <2> QED
    BY <1>4, <1>11, <2>1, NoReqType, NoReqWorks, QuietKeeps DEF Raises, Ends
<1> QED
  BY <1>5, <1>6, <1>7, <1>8, <1>9, <1>10, <1>11

--------------------------------------------------------------------------------
(* Steps that change a session.                                            *)

\* The end of a request, with what the sessions may have become.
LEMMA EndKeeps ==
    ASSUME IInv, NEW r \in Requests, NEW x \in ReqType, req' = [req EXCEPT ![r] = x],
           Works(x), x.pc \notin {"recording", "creating"}, Known(x.u),
           UNCHANGED <<multi, janitor, object>>,
           session' \in [Sessions -> SessionType], part' \in [Keys -> PartType],
           revived \subseteq revived', revived' \subseteq Sessions,
           \A s \in Sessions :
              Exists(s) => Exists(s)' /\ session'[s].category = session[s].category,
           \A s \in Sessions : ~Exists(s)' =>
              /\ session'[s].count = 0 /\ ~session'[s].registered /\ DoneSlots(s)' = {}
              /\ \A k \in Slots : ~part'[<<s, k>>].done,
           \A key \in Keys : part'[key].upload \in {part[key].upload, NoUpload, req[r].u},
           \A q \in Requests \ {r} :
              /\ req[q].pc = "recording" => DoneSlots(req[q].s)' = DoneSlots(req[q].s)
              /\ req[q].pc = "creating" => \A s \in Sessions \ revived' :
                    Live(s)' => session'[s].category # req[q].category
    PROVE  TInv' /\ WInv' /\ UInv'
<1>1. TInv /\ WInv /\ UInv
  BY DEF IInv
<1>2. req' \in [Requests -> ReqType] /\ req'[r] = x /\ \A q \in Requests \ {r} : req'[q] = req[q]
  BY <1>1 DEF TInv
<1>3. TInv'
  BY <1>1, <1>2 DEF TInv
<1>4. \A s \in Sessions : Exists(s) => Required(s)' = Required(s)
  BY DEF Required
<1>5. WInv'
  <2>1. ASSUME NEW q \in Requests PROVE Works(req[q])'
    <3>1. PICK y \in ReqType : y = req'[q] /\ Works(y)
      BY <1>1, <1>2 DEF WInv, TInv
    <3>2. /\ y.pc \notin {"idle", "creating"} =>
                y.s \in Sessions /\ Exists(y.s)' /\ y.k \in Required(y.s)'
          /\ y.pc \in {"read", "listed", "mismatch", "stored", "recording"} => y.u \in Uploads
      BY <1>4, <3>1 DEF Works
    <3>3. CASE q = r
      BY <1>2, <3>1, <3>2, <3>3 DEF Works
    <3>4. CASE q # r
      <4>1. y = req[q]
        BY <1>2, <3>1, <3>4
      <4>2. y.pc = "recording" => y.count = Cardinality(DoneSlots(y.s)' \cup {y.k})
        BY <3>1, <3>4, <4>1 DEF Works
      <4>3. y.pc = "creating" =>
               \A s \in Sessions \ revived' : Live(s)' => session'[s].category # y.category
        BY <3>4, <4>1
      <4> QED
        BY <3>1, <3>2, <4>2, <4>3 DEF Works
    <3> QED
      BY <3>3, <3>4
  <2>2. \A p, q \in Requests : p # q => Apart(req'[p], req'[q])
    <3>1. \A q \in Requests : Apart(x, req[q]) /\ Apart(req[q], x)
      BY NoLockApart
    <3> QED
      BY <1>1, <1>2, <3>1 DEF WInv
  <2>3. (\A u \in Uploads : multi[u].st # "unused" =>
            Exists(multi[u].key[1]) /\ multi[u].key[2] \in Required(multi[u].key[1]))'
    <3>1. \A u \in Uploads : multi[u].st # "unused" =>
             /\ multi[u].key[1] \in Sessions /\ Exists(multi[u].key[1])
             /\ multi[u].key[2] \in Required(multi[u].key[1])
      BY UploadWorks
    <3> QED
      BY <1>4, <3>1
  <2>4. (janitor # NoPass => Exists(janitor.s))'
    BY <1>1 DEF WInv, TInv
  <2> QED
    BY <2>1, <2>2, <2>3, <2>4 DEF WInv
<1>6. UInv'
  <2>1. \A q \in Requests : Known(req'[q].u)
    BY <1>1, <1>2 DEF UInv
  <2>2. \A key \in Keys : Known(part'[key].upload)
    BY <1>1, UploadsAssumption DEF UInv, Known
  <2> QED
    BY <1>1, <2>1, <2>2 DEF UInv, Known
<1> QED
  BY <1>3, <1>5, <1>6

LEMMA NoReqEnds ==
    /\ NoReq \in ReqType /\ Works(NoReq) /\ Known(NoReq.u)
    /\ NoReq.pc \notin {"recording", "creating"}
  BY NoReqType, NoReqWorks DEF Known

\* The state of a session is written whatever it was.
LEMMA UpdateKeeps ==
    ASSUME IInv, NEW r \in Requests, UNCHANGED <<reconcileVars, janitor>>,
           req[r].pc \notin {"idle", "creating"},
           NEW state \in {"uploading", "failed_storage_state", "failed_register"},
           UpdateState(req[r].s, state), Ends(r),
           UNCHANGED <<part, multi, object, file, early>>
    PROVE  IInv'
<1> DEFINE s == req[r].s
           row == session[s]
<1>1. /\ TInv /\ WInv /\ ProgressIsTrue /\ OneLiveSession /\ EInv /\ KInv
      /\ s \in Sessions /\ Exists(s) /\ session \in [Sessions -> SessionType]
  BY DEF IInv, TInv, WInv, Works
<1>2. /\ session' = [session EXCEPT ![s] = [row EXCEPT !.state = state]]
      /\ revived' = IF row.state \in Terminal THEN revived \cup {s} ELSE revived
      /\ req' = [req EXCEPT ![r] = NoReq]
  BY <1>1 DEF UpdateState, Ends
<1>3. row \in SessionType /\ state \in SessionStates
  BY <1>1 DEF SessionStates, Collecting, Terminal, JanitorTerminal
<1>4. /\ session' \in [Sessions -> SessionType]
      /\ \A t \in Sessions :
            /\ session'[t].category = session[t].category
            /\ session'[t].count = session[t].count
            /\ session'[t].registered = session[t].registered
            /\ session'[t].state = IF t = s THEN state ELSE session[t].state
  BY <1>1, <1>2, <1>3 DEF SessionType
<1>5. \A t \in Sessions :
         /\ Exists(t)' = Exists(t) /\ Required(t)' = Required(t)
         /\ DoneSlots(t)' = DoneSlots(t) /\ Stored(t)' = Stored(t)
  BY <1>1, <1>4 DEF Exists, Required, DoneSlots, Stored
<1>6. \A t \in Sessions \ revived' : Live(t)' => Live(t)
  BY <1>1, <1>2, <1>4 DEF Live, Exists
<1>7. /\ revived \subseteq revived' /\ revived' \subseteq Sessions
      /\ row.state \in Terminal => s \in revived'
  BY <1>1, <1>2 DEF TInv
<1>12. KInv'
  BY <1>1, RegistryKept DEF reconcileVars
<1>8. TInv' /\ WInv' /\ UInv'
  <2>1. part' \in [Keys -> PartType]
    BY <1>1 DEF TInv
  <2>2. \A t \in Sessions : ~Exists(t)' =>
           /\ session'[t].count = 0 /\ ~session'[t].registered /\ DoneSlots(t)' = {}
           /\ \A k \in Slots : ~part'[<<t, k>>].done
    BY <1>1, <1>4, <1>5 DEF WInv
  <2>3. \A q \in Requests \ {r} :
           /\ req[q].pc = "recording" => DoneSlots(req[q].s)' = DoneSlots(req[q].s)
           /\ req[q].pc = "creating" => \A t \in Sessions \ revived' :
                 Live(t)' => session'[t].category # req[q].category
    <3> SUFFICES ASSUME NEW q \in Requests \ {r}
                 PROVE  /\ req[q].pc = "recording" => DoneSlots(req[q].s)' = DoneSlots(req[q].s)
                        /\ req[q].pc = "creating" => \A t \in Sessions \ revived' :
                              Live(t)' => session'[t].category # req[q].category
      OBVIOUS
    <3>1. Works(req[q])
      BY <1>1 DEF WInv
    <3>2. req[q].pc = "recording" => req[q].s \in Sessions
      BY <3>1 DEF Works
    <3>3. req'[q] = req[q]
      BY <1>1, <1>2 DEF TInv
    <3>4. req[q].pc = "recording" => DoneSlots(req[q].s)' = DoneSlots(req[q].s)
      BY <1>5, <3>2, <3>3
    <3>5. req[q].pc = "creating" => \A t \in Sessions \ revived' :
             Live(t)' => session'[t].category # req[q].category
      BY <1>4, <1>6, <1>7, <3>1 DEF Works
    <3> QED
      BY <3>4, <3>5
  <2>4. /\ UNCHANGED <<multi, janitor, object>>
        /\ \A key \in Keys : part'[key].upload \in {part[key].upload, NoUpload, req[r].u}
        /\ \A t \in Sessions :
              Exists(t) => Exists(t)' /\ session'[t].category = session[t].category
    BY <1>4, <1>5
  <2> QED
    BY <1>2, <1>4, <1>7, <2>1, <2>2, <2>3, <2>4, NoReqEnds, EndKeeps
<1>9. ProgressIsTrue'
  BY <1>1, <1>4, <1>5, <1>6, <1>7 DEF ProgressIsTrue
<1>10. OneLiveSession'
  BY <1>1, <1>4, <1>6, <1>7 DEF OneLiveSession
<1>11. EInv'
  <2>1. row.state = "registered" => s \in revived'
    BY <1>7 DEF Terminal, JanitorTerminal
  <2>2. \A key \in Keys : key[1] \in Sessions
    BY DEF Keys
  <2> QED
    BY <1>1, <1>4, <1>5, <1>7, <2>1, <2>2 DEF EInv
<1> QED
  BY <1>8, <1>9, <1>10, <1>11, <1>12 DEF IInv

\* The other requests, when only one session's files change and none is live again.
LEMMA OthersStay ==
    ASSUME IInv, NEW r \in Requests, NEW x, req' = [req EXCEPT ![r] = x], NEW s \in Sessions,
           revived \subseteq revived',
           \A t \in Sessions \ revived' :
              Live(t)' => Live(t) /\ session'[t].category = session[t].category,
           \A t \in Sessions \ {s} : DoneSlots(t)' = DoneSlots(t),
           \A q \in Requests \ {r} : req[q].pc = "recording" => req[q].s # s
    PROVE  \A q \in Requests \ {r} :
              /\ req[q].pc = "recording" => DoneSlots(req[q].s)' = DoneSlots(req[q].s)
              /\ req[q].pc = "creating" => \A t \in Sessions \ revived' :
                    Live(t)' => session'[t].category # req[q].category
<1> SUFFICES ASSUME NEW q \in Requests \ {r}
             PROVE  /\ req[q].pc = "recording" => DoneSlots(req[q].s)' = DoneSlots(req[q].s)
                    /\ req[q].pc = "creating" => \A t \in Sessions \ revived' :
                          Live(t)' => session'[t].category # req[q].category
  OBVIOUS
<1>1. Works(req[q]) /\ req'[q] = req[q]
  BY DEF IInv, WInv, TInv
<1>2. req[q].pc = "recording" => req[q].s \in Sessions
  BY <1>1 DEF Works
<1>3. req[q].pc = "recording" => DoneSlots(req[q].s)' = DoneSlots(req[q].s)
  BY <1>1, <1>2
<1>4. req[q].pc = "creating" => \A t \in Sessions \ revived' :
         Live(t)' => session'[t].category # req[q].category
  BY <1>1 DEF Works
<1> QED
  BY <1>3, <1>4

LEMMA InsertKeeps ==
    ASSUME IInv, NEW r \in Requests, UNCHANGED <<reconcileVars, janitor>>, InsertSession(r)
    PROVE  IInv'
<1> DEFINE c == req[r].category
<1>1. /\ TInv /\ WInv /\ ProgressIsTrue /\ OneLiveSession /\ EInv /\ KInv
      /\ session \in [Sessions -> SessionType] /\ c \in Categories
  BY DEF IInv, TInv, ReqType
<1>2. PICK s \in Sessions :
         /\ ~Exists(s)
         /\ session' = [session EXCEPT ![s].state = "created", ![s].category = c]
  BY DEF InsertSession
<1>3. /\ req[r].pc = "creating" /\ req' = [req EXCEPT ![r] = NoReq]
      /\ UNCHANGED <<part, multi, object, file, revived, early>>
  BY DEF InsertSession, Ends
<1> DEFINE row == session[s]
<1>4. session' = [session EXCEPT ![s] = [row EXCEPT !.state = "created", !.category = c]]
  BY <1>1, <1>2
<1>5. row \in SessionType /\ "created" \in SessionStates
  BY <1>1 DEF SessionStates, Collecting
<1>6. /\ session' \in [Sessions -> SessionType]
      /\ session'[s].state = "created" /\ session'[s].category = c
      /\ session'[s].count = session[s].count
      /\ session'[s].registered = session[s].registered
      /\ \A t \in Sessions \ {s} : session'[t] = session[t]
  BY <1>1, <1>4, <1>5 DEF SessionType
<1>7. /\ session[s].count = 0 /\ ~session[s].registered /\ DoneSlots(s) = {}
      /\ \A k \in Slots : ~part[<<s, k>>].done
  BY <1>1, <1>2 DEF WInv
<1>8. \A t \in Sessions \ {s} :
         /\ Exists(t)' = Exists(t) /\ Live(t)' = Live(t) /\ Required(t)' = Required(t)
         /\ DoneSlots(t)' = DoneSlots(t) /\ Stored(t)' = Stored(t)
  BY <1>3, <1>6 DEF Exists, Live, Required, DoneSlots, Stored
<1>9. Exists(s)' /\ Live(s)' /\ DoneSlots(s)' = {}
  <2>1. Required(s)' \subseteq Slots
    BY <1>1, <1>6, UploadsAssumption DEF Required
  <2> QED
    BY <1>3, <1>6, <1>7, <2>1 DEF Exists, Live, Terminal, JanitorTerminal, DoneSlots
<1>10. \A t \in Sessions \ revived : Live(t) => session[t].category # c
  BY <1>1, <1>3 DEF WInv, Works
<1>15. KInv'
  BY <1>1, <1>3, RegistryKept DEF reconcileVars
<1>11. TInv' /\ WInv' /\ UInv'
  <2>1. /\ part' \in [Keys -> PartType]
        /\ revived \subseteq revived' /\ revived' \subseteq Sessions
        /\ UNCHANGED <<multi, janitor, object>>
        /\ \A key \in Keys : part'[key].upload \in {part[key].upload, NoUpload, req[r].u}
    BY <1>1, <1>3 DEF TInv
  <2>2. \A t \in Sessions : ~Exists(t)' =>
           /\ session'[t].count = 0 /\ ~session'[t].registered /\ DoneSlots(t)' = {}
           /\ \A k \in Slots : ~part'[<<t, k>>].done
    BY <1>1, <1>3, <1>6, <1>8, <1>9 DEF WInv
  <2>3. \A t \in Sessions :
           Exists(t) => Exists(t)' /\ session'[t].category = session[t].category
    BY <1>2, <1>6, <1>8
  <2>4. ASSUME NEW q \in Requests \ {r}
        PROVE  /\ req[q].pc = "recording" => DoneSlots(req[q].s)' = DoneSlots(req[q].s)
               /\ req[q].pc = "creating" => \A t \in Sessions \ revived' :
                     Live(t)' => session'[t].category # req[q].category
    <3>1. Works(req[q]) /\ req'[q] = req[q] /\ Apart(req[r], req[q])
      BY <1>1, <1>3 DEF WInv, TInv
    <3>2. req[q].pc = "recording" => req[q].s \in Sessions
      BY <3>1 DEF Works
    <3>3. req[q].pc = "recording" => DoneSlots(req[q].s)' = DoneSlots(req[q].s)
      BY <1>7, <1>8, <1>9, <3>1, <3>2
    <3>4. req[q].pc = "creating" => c # req[q].category
      BY <1>3, <3>1 DEF Apart
    <3>5. req[q].pc = "creating" => \A t \in Sessions \ revived' :
             Live(t)' => session'[t].category # req[q].category
      BY <1>3, <1>6, <1>8, <3>1, <3>4 DEF Works
    <3> QED
      BY <3>3, <3>5
  <2> QED
    BY <1>3, <1>6, <2>1, <2>2, <2>3, <2>4, NoReqEnds, EndKeeps
<1>12. ProgressIsTrue'
  BY <1>1, <1>3, <1>6, <1>7, <1>8, <1>9, Sizes DEF ProgressIsTrue
<1>13. OneLiveSession'
  BY <1>1, <1>3, <1>6, <1>8, <1>10 DEF OneLiveSession
<1>14. EInv'
  <2>1. \A key \in Keys : file[key] # "none" => key[1] \in Sessions \ {s}
    BY <1>1, <1>7 DEF EInv, Keys
  <2> QED
    BY <1>1, <1>3, <1>6, <1>7, <1>8, <2>1 DEF EInv
<1> QED
  BY <1>11, <1>12, <1>13, <1>14, <1>15 DEF IInv

LEMMA RecordKeeps ==
    ASSUME IInv, NEW r \in Requests, UNCHANGED <<reconcileVars, janitor>>, RecordCompleted(r)
    PROVE  IInv'
<1>0. PICK y \in ReqType : y = req[r] /\ Works(y)
  BY DEF IInv, TInv, WInv
<1> DEFINE s == y.s
           n == y.count
           row == session[s]
           new == [upload |-> y.u, etag |-> y.u, done |-> TRUE]
           open == ~row.registered /\ row.state \in Collecting
<1>1. /\ TInv /\ WInv /\ ProgressIsTrue /\ OneLiveSession /\ EInv /\ KInv
      /\ session \in [Sessions -> SessionType] /\ part \in [Keys -> PartType]
  BY DEF IInv, TInv
<1>2. /\ y.pc = "recording" /\ req' = [req EXCEPT ![r] = NoReq]
      /\ part' = [part EXCEPT ![Key(r)] = new]
      /\ session' = IF open THEN [session EXCEPT ![s].count = n, ![s].state = CollectedState(s, n)]
                    ELSE session
      /\ UNCHANGED <<multi, object, file, revived, early>>
  BY <1>0 DEF RecordCompleted, Ends
<1>3. /\ s \in Sessions /\ Exists(s) /\ y.k \in Required(s) /\ y.u \in Uploads
      /\ n = Cardinality(DoneSlots(s) \cup {y.k}) /\ n \in 0..Cardinality(Slots)
  BY <1>0, <1>2 DEF Works, ReqType
<1>4. Required(s) \subseteq Slots /\ IsFiniteSet(Required(s)) /\ Cardinality(Required(s)) \in Nat
  BY <1>1, <1>3, RequiredType
<1>5. Key(r) = <<s, y.k>> /\ Key(r) \in Keys
  BY <1>0, <1>3, <1>4 DEF Key, Keys
<1>6. new \in PartType
  BY <1>3, Contents DEF PartType
<1> HIDE DEF new
<1>7. /\ part' \in [Keys -> PartType] /\ part'[<<s, y.k>>] = new
      /\ \A key \in Keys : key # <<s, y.k>> => part'[key] = part[key]
  BY <1>1, <1>2, <1>5, <1>6
<1>8. row \in SessionType /\ CollectedState(s, n) \in {"awaiting_registration", "uploading"}
  BY <1>1, <1>3 DEF CollectedState
<1>9. session' = IF open THEN [session EXCEPT ![s] = [row EXCEPT !.count = n,
                                                          !.state = CollectedState(s, n)]]
                 ELSE session
  BY <1>1, <1>2, <1>3
<1>10. /\ session' \in [Sessions -> SessionType]
       /\ \A t \in Sessions :
             /\ session'[t].category = session[t].category
             /\ session'[t].registered = session[t].registered
             /\ session'[t].count = IF t = s /\ open THEN n ELSE session[t].count
             /\ session'[t].state = IF t = s /\ open THEN CollectedState(s, n)
                                    ELSE session[t].state
  BY <1>1, <1>3, <1>8, <1>9 DEF SessionType, SessionStates, Collecting
<1>11. \A t \in Sessions :
          /\ Required(t)' = Required(t) /\ Exists(t)' = Exists(t) /\ Live(t)' = Live(t)
  BY <1>8, <1>10 DEF Required, Exists, Live, Collecting, Terminal, JanitorTerminal
<1>12. \A t \in Sessions, k \in Slots : <<t, k>> \in Keys
  BY DEF Keys
<1>13. DoneSlots(s)' = DoneSlots(s) \cup {y.k}
  <2>1. new.done
    BY DEF new
  <2>2. \A k \in Required(s) : part'[<<s, k>>].done <=> (part[<<s, k>>].done \/ k = y.k)
    BY <1>3, <1>4, <1>7, <1>12, <2>1
  <2> QED
    BY <1>3, <1>11, <2>2 DEF DoneSlots
<1>14. \A t \in Sessions \ {s} : DoneSlots(t)' = DoneSlots(t)
  <2> SUFFICES ASSUME NEW t \in Sessions \ {s} PROVE DoneSlots(t)' = DoneSlots(t)
    OBVIOUS
  <2>1. Required(t) \subseteq Slots
    BY <1>1, RequiredType
  <2>2. \A k \in Required(t) : part'[<<t, k>>] = part[<<t, k>>]
    BY <1>7, <1>12, <2>1
  <2> QED
    BY <1>11, <2>2 DEF DoneSlots
<1>19. KInv'
  BY <1>1, <1>2, RegistryKept DEF reconcileVars
<1>15. TInv' /\ WInv' /\ UInv'
  <2>1. /\ revived \subseteq revived' /\ revived' \subseteq Sessions
        /\ UNCHANGED <<multi, janitor, object>>
    BY <1>1, <1>2 DEF TInv
  <2>2. \A key \in Keys : part'[key].upload \in {part[key].upload, NoUpload, req[r].u}
    BY <1>0, <1>7 DEF new
  <2>3. \A t \in Sessions : ~Exists(t)' =>
           /\ session'[t].count = 0 /\ ~session'[t].registered /\ DoneSlots(t)' = {}
           /\ \A k \in Slots : ~part'[<<t, k>>].done
    BY <1>1, <1>3, <1>7, <1>10, <1>11, <1>12, <1>14 DEF WInv
  <2>4. \A q \in Requests \ {r} : req[q].pc = "recording" => req[q].s # s
    BY <1>0, <1>1, <1>2 DEF WInv, Apart
  <2>5. /\ \A t \in Sessions :
              Exists(t) => Exists(t)' /\ session'[t].category = session[t].category
        /\ \A t \in Sessions \ revived' :
              Live(t)' => Live(t) /\ session'[t].category = session[t].category
    BY <1>10, <1>11
  <2>6. \A q \in Requests \ {r} :
              /\ req[q].pc = "recording" => DoneSlots(req[q].s)' = DoneSlots(req[q].s)
              /\ req[q].pc = "creating" => \A t \in Sessions \ revived' :
                    Live(t)' => session'[t].category # req[q].category
    BY <1>2, <1>3, <1>14, <2>1, <2>4, <2>5, OthersStay
  <2> QED
    BY <1>2, <1>7, <1>10, <2>1, <2>2, <2>3, <2>5, <2>6, NoReqEnds, EndKeeps
<1>16. ProgressIsTrue'
  <2>1. n >= Cardinality(Required(s)) => DoneSlots(s)' = Required(s)
    <3>1. DoneSlots(s) \cup {y.k} \subseteq Required(s)
      BY <1>3 DEF DoneSlots
    <3>2. n <= Cardinality(Required(s)) /\ (n = Cardinality(Required(s)) =>
             DoneSlots(s) \cup {y.k} = Required(s))
      BY <1>3, <1>4, <3>1, FS_Subset
    <3> QED
      BY <1>3, <1>4, <1>13, <3>2
  <2>2. CollectedState(s, n) = "awaiting_registration" => DoneSlots(s)' = Required(s)
    BY <2>1 DEF CollectedState
  <2>3. ~open => row.registered \/ (~Live(s) /\ row.state # "awaiting_registration")
    BY <1>8 DEF SessionType, SessionStates, Exists, Live, Collecting, Terminal, JanitorTerminal
  <2>4. \A t \in Sessions \ {s} : Stored(t)' = Stored(t)
    BY <1>11, <1>14 DEF Stored
  <2>5. session'[s].state = "awaiting_registration" /\ ~session'[s].registered => Stored(s)'
    BY <1>3, <1>10, <1>11, <2>2, <2>3 DEF Stored
  <2>6. Live(s)' /\ ~session'[s].registered => session'[s].count = Cardinality(DoneSlots(s)')
    BY <1>3, <1>10, <1>11, <1>13, <2>3
  <2> QED
    BY <1>1, <1>2, <1>10, <1>11, <1>14, <2>4, <2>5, <2>6 DEF ProgressIsTrue
<1>17. OneLiveSession'
  BY <1>1, <1>2, <1>10, <1>11 DEF OneLiveSession
<1>18. EInv'
  <2>1. \A key \in Keys : key[1] \in Sessions
    BY DEF Keys
  <2> QED
    BY <1>1, <1>2, <1>10, <1>11, <2>1 DEF EInv
<1> QED
  BY <1>15, <1>16, <1>17, <1>18, <1>19 DEF IInv

LEMMA ReplaceKeeps ==
    ASSUME IInv, NEW r \in Requests, UNCHANGED <<reconcileVars, janitor>>, ReplaceSlot(r)
    PROVE  IInv'
<1>0. PICK y \in ReqType : y = req[r] /\ Works(y)
  BY DEF IInv, TInv, WInv
<1> DEFINE s == y.s
           row == session[s]
           rest == DoneSlots(s) \ {y.k}
           state == IF rest = {} THEN "created" ELSE "uploading"
<1>1. /\ TInv /\ WInv /\ ProgressIsTrue /\ OneLiveSession /\ EInv /\ KInv
      /\ session \in [Sessions -> SessionType] /\ part \in [Keys -> PartType]
  BY DEF IInv, TInv
<1>2. /\ y.pc = "replacing" /\ req' = [req EXCEPT ![r] = NoReq] /\ ~row.registered
      /\ part' = [part EXCEPT ![Key(r)] = NoPart] /\ SessionFree(s)
      /\ session' = [session EXCEPT ![s].count = Cardinality(rest), ![s].state = state]
      /\ revived' = IF row.state \in Terminal THEN revived \cup {s} ELSE revived
      /\ UNCHANGED <<multi, object, file, early>>
  BY <1>0 DEF ReplaceSlot, Ends
<1>3. s \in Sessions /\ Exists(s) /\ y.k \in Required(s)
  BY <1>0, <1>2 DEF Works
<1>4. Required(s) \subseteq Slots
  BY <1>1, <1>3, RequiredType
<1>5. Key(r) = <<s, y.k>> /\ Key(r) \in Keys
  BY <1>0, <1>3, <1>4 DEF Key, Keys
<1>6. NoPart \in PartType /\ ~NoPart.done /\ NoPart.upload = NoUpload
  BY NoReqType DEF NoPart
<1>7. /\ part' \in [Keys -> PartType] /\ part'[<<s, y.k>>] = NoPart
      /\ \A key \in Keys : key # <<s, y.k>> => part'[key] = part[key]
  BY <1>1, <1>2, <1>5, <1>6
<1>8. Cardinality(rest) \in 0..Cardinality(Slots)
  BY <1>4, CountType DEF DoneSlots
<1>9. row \in SessionType /\ state \in SessionStates
  BY <1>1, <1>3 DEF SessionStates, Collecting
<1> HIDE DEF rest, state
<1>10. session' = [session EXCEPT ![s] = [row EXCEPT !.count = Cardinality(rest), !.state = state]]
  BY <1>1, <1>2, <1>3
<1>11. /\ session' \in [Sessions -> SessionType]
       /\ \A t \in Sessions :
             /\ session'[t].category = session[t].category
             /\ session'[t].registered = session[t].registered
             /\ session'[t].count = IF t = s THEN Cardinality(rest) ELSE session[t].count
             /\ session'[t].state = IF t = s THEN state ELSE session[t].state
  BY <1>1, <1>3, <1>8, <1>9, <1>10 DEF SessionType
<1>12. \A t \in Sessions : Required(t)' = Required(t) /\ Exists(t)' = Exists(t)
  BY <1>3, <1>11 DEF Required, Exists, state
<1>13. /\ \A t \in Sessions \ revived' : Live(t)' => Live(t)
       /\ revived \subseteq revived' /\ revived' \subseteq Sessions
  BY <1>1, <1>2, <1>3, <1>11 DEF Live, Exists, TInv
<1>14. \A t \in Sessions, k \in Slots : <<t, k>> \in Keys
  BY DEF Keys
<1>15. DoneSlots(s)' = rest
  <2>1. \A k \in Required(s) : part'[<<s, k>>].done <=> (part[<<s, k>>].done /\ k # y.k)
    BY <1>3, <1>4, <1>6, <1>7, <1>14
  <2> QED
    BY <1>3, <1>12, <2>1 DEF DoneSlots, rest
<1>16. \A t \in Sessions \ {s} : DoneSlots(t)' = DoneSlots(t) /\ Stored(t)' = Stored(t)
  <2> SUFFICES ASSUME NEW t \in Sessions \ {s}
               PROVE  DoneSlots(t)' = DoneSlots(t) /\ Stored(t)' = Stored(t)
    OBVIOUS
  <2>1. Required(t) \subseteq Slots
    BY <1>1, RequiredType
  <2>2. \A k \in Required(t) : part'[<<t, k>>] = part[<<t, k>>]
    BY <1>7, <1>14, <2>1
  <2> QED
    BY <1>12, <2>2 DEF DoneSlots, Stored
<1>21. KInv'
  BY <1>1, <1>2, RegistryKept DEF reconcileVars
<1>17. TInv' /\ WInv' /\ UInv'
  <2>1. UNCHANGED <<multi, janitor, object>>
    BY <1>2
  <2>2. \A key \in Keys : part'[key].upload \in {part[key].upload, NoUpload, req[r].u}
    BY <1>6, <1>7
  <2>3. \A t \in Sessions : ~Exists(t)' =>
           /\ session'[t].count = 0 /\ ~session'[t].registered /\ DoneSlots(t)' = {}
           /\ \A k \in Slots : ~part'[<<t, k>>].done
    BY <1>1, <1>3, <1>7, <1>11, <1>12, <1>14, <1>16 DEF WInv
  <2>4. \A q \in Requests \ {r} : req[q].pc = "recording" => req[q].s # s
    BY <1>2 DEF SessionFree
  <2>5. /\ \A t \in Sessions :
              Exists(t) => Exists(t)' /\ session'[t].category = session[t].category
        /\ \A t \in Sessions \ revived' :
              Live(t)' => Live(t) /\ session'[t].category = session[t].category
    BY <1>11, <1>12, <1>13
  <2>6. \A q \in Requests \ {r} :
              /\ req[q].pc = "recording" => DoneSlots(req[q].s)' = DoneSlots(req[q].s)
              /\ req[q].pc = "creating" => \A t \in Sessions \ revived' :
                    Live(t)' => session'[t].category # req[q].category
    <3>1. \A t \in Sessions \ {s} : DoneSlots(t)' = DoneSlots(t)
      BY <1>16
    <3>2. r \in Requests /\ req' = [req EXCEPT ![r] = NoReq] /\ revived \subseteq revived'
      BY <1>2, <1>13
    <3> QED
      BY <1>3, <2>4, <2>5, <3>1, <3>2, OthersStay
  <2> QED
    BY <1>2, <1>7, <1>11, <1>13, <2>1, <2>2, <2>3, <2>5, <2>6, NoReqEnds, EndKeeps
<1>18. ProgressIsTrue'
  <2>1. session'[s].state # "awaiting_registration"
        /\ session'[s].count = Cardinality(DoneSlots(s)')
    BY <1>3, <1>11, <1>15 DEF state
  <2> QED
    BY <1>1, <1>11, <1>13, <1>16, <2>1 DEF ProgressIsTrue
<1>19. OneLiveSession'
  BY <1>1, <1>11, <1>13 DEF OneLiveSession
<1>20. EInv'
  <2>1. \A key \in Keys : key[1] \in Sessions
    BY DEF Keys
  <2> QED
    BY <1>1, <1>2, <1>11, <1>12, <1>13, <2>1 DEF EInv
<1> QED
  BY <1>17, <1>18, <1>19, <1>20, <1>21 DEF IInv

LEMMA RegisterKeeps ==
    ASSUME IInv, NEW r \in Requests, UNCHANGED janitor, Register(r)
    PROVE  IInv'
<1>0. PICK y \in ReqType : y = req[r] /\ Works(y) /\ Known(y.u)
  BY DEF IInv, TInv, WInv, UInv
<1> DEFINE s == y.s
           row == session[s]
           mine == {s} \X Required(s)
<1>1. /\ TInv /\ WInv /\ ProgressIsTrue /\ OneLiveSession /\ EInv /\ KInv
      /\ session \in [Sessions -> SessionType] /\ file \in [Keys -> FileType]
  BY DEF IInv, TInv, KInv
<1>2. /\ y.pc = "registering"
      /\ session' = [session EXCEPT ![s].state = "registered", ![s].registered = TRUE]
      /\ UNCHANGED <<part, multi, object, revived>>
      /\ Enliven(mine)
  BY <1>0 DEF Register, Hashed
<1>17. PICK state \in {"available", "quarantined"} :
          file' = [key \in Keys |-> IF key \in mine THEN state ELSE file[key]]
  BY <1>0 DEF Register
<1>18. /\ item' = [key \in Keys |-> IF key \in mine /\ "file" \in item[key]
                      THEN (item[key] \ {"file"}) \cup {"other"} ELSE item[key]]
       /\ order' = [o \in Operators |-> IF order[o].key \in mine
                      THEN [order[o] EXCEPT !.rows = {}] ELSE order[o]]
       /\ scan' = IF scan.live /\ scan.key \in mine THEN NoScan ELSE scan
       /\ ordered' = ordered \ mine
  BY <1>0 DEF Register
<1>3. s \in Sessions /\ Exists(s)
  BY <1>0, <1>2 DEF Works
<1>4. Required(s) \subseteq Slots
  BY <1>1, <1>3, RequiredType
<1>5. mine \subseteq Keys /\ \A key \in mine : key[1] = s /\ key[2] \in Required(s)
  BY <1>3, <1>4 DEF Keys
<1>6. /\ file' \in [Keys -> FileType]
      /\ \A key \in mine : file'[key] \notin {"none", "soft_deleted", "hard_deleted"}
      /\ \A key \in Keys \ mine : file'[key] = file[key]
  <2> HIDE DEF mine
  <2> QED
    BY <1>1, <1>17, <1>5 DEF FileType, RowStates
<1>7. row \in SessionType /\ "registered" \in SessionStates
  BY <1>1, <1>3 DEF SessionStates, Terminal, JanitorTerminal
<1>8. session' = [session EXCEPT ![s] = [row EXCEPT !.state = "registered", !.registered = TRUE]]
  BY <1>1, <1>2, <1>3
<1>9. /\ session' \in [Sessions -> SessionType]
      /\ \A t \in Sessions \ {s} : session'[t] = session[t]
      /\ session'[s].category = session[s].category
      /\ session'[s].state = "registered" /\ session'[s].registered
  BY <1>1, <1>3, <1>7, <1>8 DEF SessionType
<1>10. \A t \in Sessions :
          /\ Exists(t)' = Exists(t) /\ Required(t)' = Required(t)
          /\ DoneSlots(t)' = DoneSlots(t) /\ Stored(t)' = Stored(t)
  BY <1>2, <1>3, <1>9 DEF Exists, Required, DoneSlots, Stored
<1>11. ~Live(s)' /\ \A t \in Sessions \ {s} : Live(t)' = Live(t)
  BY <1>9, <1>10 DEF Live, Terminal, JanitorTerminal
<1>12. \A key \in Keys : file[key] # "none" => key \in mine \/ key[1] # s
  BY <1>1 DEF EInv, Keys
<1>19. KInv'
  <2> HIDE DEF mine
  <2>1. item' \in [Keys -> SUBSET Reports]
    BY <1>1, <1>18 DEF KInv, Reports
  <2>2. /\ order' \in [Operators -> OrderType]
        /\ \A o \in Operators : order'[o].pc = order[o].pc /\ order'[o].key = order[o].key
    BY <1>1, <1>18 DEF KInv, OrderType
  <2>3. scan' \in ScanType /\ (scan'.pc # "idle" => scan'.key \in Keys)
    BY <1>1, <1>18 DEF KInv, NoScan, ScanType
  <2>4. early' \subseteq Keys /\ ordered' \subseteq Keys
    BY <1>1, <1>2, <1>5, <1>18 DEF KInv, Enliven
  <2>5. scan'.live => scan'.pc = "loaded" /\ file'[scan'.key] # "none"
    <3> SUFFICES ASSUME scan'.live PROVE scan'.pc = "loaded" /\ file'[scan'.key] # "none"
      OBVIOUS
    <3>1. scan' = scan /\ scan.key \notin mine
      BY <1>18 DEF NoScan
    <3> QED
      BY <1>1, <1>6, <3>1 DEF KInv
  <2>6. \A key \in Keys : "file" \in item'[key] => file'[key] # "none"
    <3> SUFFICES ASSUME NEW key \in Keys, "file" \in item'[key] PROVE file'[key] # "none"
      OBVIOUS
    <3>1. key \notin mine => "file" \in item[key]
      BY <1>1, <1>18 DEF KInv
    <3> QED
      BY <1>1, <1>6, <3>1 DEF KInv
  <2>7. ASSUME NEW key \in Registered', Doomed(key)' PROVE key \in early' \cup ordered'
    <3>1. CASE key \in mine
      BY <1>2, <2>7, <3>1 DEF Enliven
    <3>2. CASE key \notin mine
      <4>1. key \in Keys /\ key \in Registered
        BY <1>6, <3>2 DEF Registered
      <4>2. item'[key] = item[key] /\ object' = object
        BY <1>2, <1>18, <3>2, <4>1
      <4>3. scan' = scan \/ scan' = NoScan
        BY <1>18
      <4>4. Doomed(key)
        BY <2>2, <2>7, <4>2, <4>3 DEF Doomed, NoScan
      <4>5. key \in early \cup ordered
        BY <1>1, <4>1, <4>4 DEF KInv
      <4> QED
        BY <1>2, <1>18, <3>2, <4>5 DEF Enliven
    <3> QED
      BY <3>1, <3>2
  <2> QED
    BY <1>6, <2>1, <2>2, <2>3, <2>4, <2>5, <2>6, <2>7, <1>1 DEF KInv
<1>13. TInv' /\ WInv' /\ UInv'
  <2>1. PICK x \in ReqType : /\ req' = [req EXCEPT ![r] = x] /\ Works(x)
                             /\ x.pc \notin {"recording", "creating"} /\ Known(x.u)
    <3>1. CASE Ends(r)
      BY <3>1, NoReqEnds DEF Ends
    <3>2. CASE Goes(r, "unregistering")
      BY <1>0, <1>2, <3>2, Gone
    <3> QED
      BY <3>1, <3>2 DEF Register
  <2>2. /\ part' \in [Keys -> PartType]
        /\ \A key \in Keys : part'[key].upload \in {part[key].upload, NoUpload, req[r].u}
        /\ UNCHANGED <<multi, janitor, object>>
        /\ revived \subseteq revived' /\ revived' \subseteq Sessions
    BY <1>1, <1>2 DEF TInv
  <2> HIDE DEF mine
  <2>6. \A t \in Sessions : ~Exists(t)' =>
           /\ session'[t].count = 0 /\ ~session'[t].registered /\ DoneSlots(t)' = {}
           /\ \A k \in Slots : ~part'[<<t, k>>].done
    BY <1>1, <1>2, <1>3, <1>9, <1>10 DEF WInv
  <2>7. \A t \in Sessions : Exists(t) => Exists(t)' /\ session'[t].category = session[t].category
    BY <1>9, <1>10
  <2>8. \A q \in Requests \ {r} :
           /\ req[q].pc = "recording" => DoneSlots(req[q].s)' = DoneSlots(req[q].s)
           /\ req[q].pc = "creating" => \A t \in Sessions \ revived' :
                 Live(t)' => session'[t].category # req[q].category
    <3>1. \A q \in Requests \ {r} : req[q].pc = "recording" => req[q].s # s
      BY <1>0 DEF Register, SessionFree
    <3>2. \A t \in Sessions \ revived' :
             Live(t)' => Live(t) /\ session'[t].category = session[t].category
      BY <1>9, <1>11
    <3> QED
      BY <1>3, <1>10, <2>1, <2>2, <3>1, <3>2, OthersStay
  <2> QED
    BY <1>9, <2>1, <2>2, <2>6, <2>7, <2>8, EndKeeps
<1>14. ProgressIsTrue'
  BY <1>1, <1>2, <1>9, <1>10, <1>11 DEF ProgressIsTrue
<1>15. OneLiveSession'
  BY <1>1, <1>2, <1>9, <1>11 DEF OneLiveSession
<1>16. EInv'
  <2>1. \A key \in Keys : key[1] \in Sessions
    BY DEF Keys
  <2> HIDE DEF mine
  <2>2. \A key \in Keys : file'[key] # "none" =>
           session'[key[1]].registered /\ key[2] \in Required(key[1])'
    <3> SUFFICES ASSUME NEW key \in Keys, file'[key] # "none"
                 PROVE  session'[key[1]].registered /\ key[2] \in Required(key[1])'
      OBVIOUS
    <3>1. CASE key \in mine
      BY <1>3, <1>5, <1>9, <1>10, <3>1
    <3>2. CASE key \notin mine
      BY <1>1, <1>6, <1>9, <1>10, <1>12, <2>1, <3>2 DEF EInv
    <3> QED
      BY <3>1, <3>2
  <2> QED
    BY <1>1, <1>2, <1>9, <2>2 DEF EInv
<1> QED
  BY <1>13, <1>14, <1>15, <1>16, <1>19 DEF IInv

LEMMA RequestStepKeeps ==
    ASSUME IInv, NEW r \in Requests, UNCHANGED <<reconcileVars, janitor>>, RequestStep(r)
    PROVE  IInv'
<1>1. CASE Initiated(r)
  BY <1>1, UpdateKeeps DEF Initiated
<1>2. CASE FailStorageState(r)
  BY <1>2, UpdateKeeps DEF FailStorageState
<1>3. CASE FailRegister(r)
  BY <1>3, UpdateKeeps DEF FailRegister
<1> QED
  BY <1>1, <1>2, <1>3, OpenKeeps, MiddleKeeps, InsertKeeps, RecordKeeps, ReplaceKeeps
     DEF RequestStep

--------------------------------------------------------------------------------
(* The janitor and the reconciliation.                                     *)

LEMMA JanitorKeeps ==
    ASSUME IInv, UNCHANGED <<part, object, file, req, revived, early, reconcileVars>>,
           multi' \in [Uploads -> MultiType],
           \A u \in Uploads : /\ multi'[u].key = multi[u].key
                              /\ multi'[u].st = "unused" <=> multi[u].st = "unused",
           session' \in [Sessions -> SessionType],
           \A s \in Sessions :
              /\ session'[s].category = session[s].category
              /\ session'[s].count = session[s].count
              /\ session'[s].registered = session[s].registered
              /\ Exists(s)' <=> Exists(s)
              /\ Live(s)' => Live(s)
              /\ session'[s].state = "awaiting_registration" =>
                    session[s].state = "awaiting_registration"
              /\ session[s].state = "registered" => session'[s].state = "registered",
           janitor' # NoPass =>
              janitor'.s \in Sessions /\ Exists(janitor'.s) /\ janitor'.fate \in Fates,
           janitor' \in PassType, \A u \in janitor'.aborts : Known(u)
    PROVE  IInv'
<1>1. /\ TInv /\ WInv /\ UInv /\ ProgressIsTrue /\ OneLiveSession /\ EInv /\ KInv
      /\ req \in [Requests -> ReqType]
  BY DEF IInv, TInv
<1>2. TInv'
  BY <1>1 DEF TInv
<1>3. \A s \in Sessions :
         /\ Required(s)' = Required(s) /\ DoneSlots(s)' = DoneSlots(s)
         /\ Stored(s)' = Stored(s)
  BY DEF Required, DoneSlots, Stored
<1>4. WInv'
  <2>1. ASSUME NEW q \in Requests PROVE Works(req[q])'
    <3>1. PICK y \in ReqType : y = req[q] /\ y = req'[q] /\ Works(y)
      BY <1>1 DEF WInv
    <3>2. Works(y)'
      BY <1>3, <3>1 DEF Works
    <3> QED
      BY <3>1, <3>2 DEF Works
  <2>2. \A p, q \in Requests : p # q => Apart(req'[p], req'[q])
    BY <1>1 DEF WInv
  <2>3. (\A u \in Uploads : multi[u].st # "unused" =>
            Exists(multi[u].key[1]) /\ multi[u].key[2] \in Required(multi[u].key[1]))'
    BY <1>3, UploadWorks
  <2>4. \A s \in Sessions : ~Exists(s)' =>
           /\ session'[s].count = 0 /\ ~session'[s].registered /\ DoneSlots(s)' = {}
           /\ \A k \in Slots : ~part'[<<s, k>>].done
    BY <1>1, <1>3 DEF WInv
  <2>5. (janitor # NoPass => Exists(janitor.s))'
    OBVIOUS
  <2> QED
    BY <2>1, <2>2, <2>3, <2>4, <2>5 DEF WInv
<1>5. UInv'
  BY <1>1 DEF UInv, Known
<1>6. ProgressIsTrue' /\ OneLiveSession'
  BY <1>1, <1>3 DEF ProgressIsTrue, OneLiveSession
<1>7. EInv'
  <2>1. \A key \in Keys : key[1] \in Sessions
    BY DEF Keys
  <2> QED
    BY <1>1, <1>3, <2>1 DEF EInv
<1>8. KInv'
  BY <1>1, RegistryKept
<1> QED
  BY <1>2, <1>4, <1>5, <1>6, <1>7, <1>8 DEF IInv

LEMMA JanitorStepKeeps == IInv /\ JanitorStep => IInv'
<1> SUFFICES ASSUME IInv, JanitorStep PROVE IInv'
  OBVIOUS
<1>1. /\ TInv /\ WInv /\ UInv /\ multi \in [Uploads -> MultiType]
      /\ session \in [Sessions -> SessionType]
  BY DEF IInv, TInv
<1>2. \A s \in Sessions : Exists(s)' <=> session'[s].state # "none"
  BY DEF Exists
<1>3. ASSUME UNCHANGED session
      PROVE  \A s \in Sessions : (Exists(s)' <=> Exists(s)) /\ (Live(s)' => Live(s))
  BY <1>3 DEF Exists, Live
<1>4. NoPass.aborts = {}
  BY DEF NoPass
<1>5. ASSUME NEW s \in Sessions, LoadFacts(s) PROVE IInv'
  <2>1. PICK late \in BOOLEAN :
           /\ Fate(s, late) # "skip"
           /\ janitor' = [s |-> s, fate |-> Fate(s, late),
                          aborts |-> IF Fate(s, late) = "cancelled" THEN OpenMultiparts(s) ELSE {}]
           /\ UNCHANGED <<uploadVars, reconcileVars>>
    BY <1>5 DEF LoadFacts
  <2>2. Fate(s, late) \in Fates /\ Exists(s)
    BY <2>1 DEF Fate, Fates, Exists
  <2>3. \A u \in OpenMultiparts(s) : u \in Content /\ Known(u)
    <3>1. \A k \in Required(s) : <<s, k>> \in Keys
      BY <1>1, RequiredType DEF Keys
    <3>2. \A key \in Keys : part[key].upload \in Content /\ Known(part[key].upload)
      BY <1>1 DEF TInv, PartType, UInv
    <3> QED
      BY <3>1, <3>2 DEF OpenMultiparts
  <2>4. janitor'.s = s /\ janitor'.fate = Fate(s, late) /\ janitor'.aborts \subseteq OpenMultiparts(s)
    BY <2>1
  <2>5. janitor' \in PassType /\ \A u \in janitor'.aborts : Known(u)
    <3>1. s \in 0..MaxSessions
      BY UploadsAssumption DEF Sessions
    <3> QED
      BY <2>1, <2>2, <2>3, <2>4, <3>1 DEF PassType
  <2> QED
    BY <1>1, <1>3, <2>1, <2>2, <2>4, <2>5, JanitorKeeps DEF uploadVars
<1>6. ASSUME NEW u \in Uploads, JanitorAbort(u) PROVE IInv'
  <2>1. /\ u \in janitor.aborts /\ janitor' = [janitor EXCEPT !.aborts = @ \ {u}]
        /\ multi' \in {multi, Closed(u)} /\ multi[u].st # "unused"
        /\ UNCHANGED <<session, part, object, file, req, revived, early, reconcileVars>>
    BY <1>1, <1>6 DEF JanitorAbort, UInv, Known
  <2>2. /\ multi' \in [Uploads -> MultiType]
        /\ \A v \in Uploads : /\ multi'[v].key = multi[v].key
                              /\ multi'[v].st = "unused" <=> multi[v].st = "unused"
    BY <1>1, <2>1 DEF Closed, MultiType
  <2>3. janitor # NoPass /\ janitor.s \in Sessions /\ Exists(janitor.s) /\ janitor.fate \in Fates
    BY <1>1, <1>4, <2>1 DEF TInv, WInv
  <2>4. /\ janitor' \in PassType /\ janitor'.s = janitor.s /\ janitor'.fate = janitor.fate
        /\ janitor'.aborts \subseteq janitor.aborts
    BY <1>1, <2>1 DEF TInv, PassType
  <2>5. \A v \in janitor'.aborts : Known(v)
    BY <1>1, <2>4 DEF UInv
  <2> QED
    BY <1>1, <1>3, <2>1, <2>2, <2>3, <2>4, <2>5, JanitorKeeps
<1>7. CASE JanitorEnd
  <2>1. PICK s \in Sessions, fate \in Fates :
           /\ session' = IF Endable(s) THEN [session EXCEPT ![s].state = fate] ELSE session
           /\ Exists(s)
    BY <1>1, <1>7 DEF JanitorEnd, TInv, WInv
  <2>2. /\ janitor' = NoPass
        /\ UNCHANGED <<part, multi, object, file, req, revived, early, reconcileVars>>
    BY <1>7 DEF JanitorEnd
  <2>3. CASE ~Endable(s)
    <3>1. session' = session
      BY <2>1, <2>3
    <3> QED
      BY <1>1, <1>3, <1>4, <2>2, <3>1, NoPassType, JanitorKeeps
  <2>4. CASE Endable(s)
    <3>0. session' = [session EXCEPT ![s] = [session[s] EXCEPT !.state = fate]]
      BY <1>1, <2>1, <2>4
    <3>1. session[s] \in SessionType /\ fate \in SessionStates /\ fate \in Terminal
      BY <1>1 DEF SessionStates, Fates, Terminal, JanitorTerminal
    <3>2. /\ session' \in [Sessions -> SessionType]
          /\ \A t \in Sessions :
                /\ session'[t].category = session[t].category
                /\ session'[t].count = session[t].count
                /\ session'[t].registered = session[t].registered
                /\ session'[t].state = IF t = s THEN fate ELSE session[t].state
      BY <1>1, <3>0, <3>1 DEF SessionType
    <3>3. \A t \in Sessions :
             /\ Exists(t)' <=> Exists(t)
             /\ Live(t)' => Live(t)
             /\ session'[t].state = "awaiting_registration" =>
                   session[t].state = "awaiting_registration"
             /\ session[t].state = "registered" => session'[t].state = "registered"
      BY <2>1, <2>4, <3>1, <3>2 DEF Exists, Live, Fates, Endable, JanitorTerminal
    <3> QED
      BY <1>1, <1>4, <2>2, <3>2, <3>3, NoPassType, JanitorKeeps
  <2> QED
    BY <2>3, <2>4
<1>8. CASE JanitorDies
  <2>1. janitor' = NoPass /\ UNCHANGED <<uploadVars, reconcileVars>>
    BY <1>8 DEF JanitorDies
  <2> QED
    BY <1>1, <1>3, <1>4, <2>1, NoPassType, JanitorKeeps DEF uploadVars
<1> QED
  BY <1>5, <1>6, <1>7, <1>8 DEF JanitorStep

LEMMA ReconcileKeeps ==
    ASSUME IInv, UNCHANGED <<session, part, multi, req, revived, janitor>>,
           object' \in [Keys -> Content],
           \A key \in Keys : file'[key] = "none" <=> file[key] = "none", KInv'
    PROVE  IInv'
<1>1. TInv /\ WInv /\ UInv /\ ProgressIsTrue /\ OneLiveSession /\ EInv
  BY DEF IInv
<1>2. TInv'
  BY <1>1 DEF TInv
<1>3. \A s \in Sessions :
         /\ Exists(s)' = Exists(s) /\ Live(s)' = Live(s) /\ Required(s)' = Required(s)
         /\ DoneSlots(s)' = DoneSlots(s) /\ Stored(s)' = Stored(s)
  BY <1>1, SameSlots
<1>4. WInv'
  <2>1. ASSUME NEW q \in Requests PROVE Works(req[q])'
    <3>1. PICK y : y = req[q] /\ y = req'[q] /\ Works(y)
      BY <1>1 DEF WInv
    <3>2. Works(y)'
      BY <1>1, <3>1, WorksSame
    <3> QED
      BY <3>1, <3>2 DEF Works
  <2>2. \A p, q \in Requests : p # q => Apart(req'[p], req'[q])
    BY <1>1 DEF WInv
  <2>3. (\A u \in Uploads : multi[u].st # "unused" =>
            Exists(multi[u].key[1]) /\ multi[u].key[2] \in Required(multi[u].key[1]))'
    BY <1>3, UploadWorks
  <2>4. \A s \in Sessions : ~Exists(s)' =>
           /\ session'[s].count = 0 /\ ~session'[s].registered /\ DoneSlots(s)' = {}
           /\ \A k \in Slots : ~part'[<<s, k>>].done
    BY <1>1, <1>3 DEF WInv
  <2>5. (janitor # NoPass => Exists(janitor.s))'
    BY <1>1 DEF WInv, Exists
  <2> QED
    BY <2>1, <2>2, <2>3, <2>4, <2>5 DEF WInv
<1>5. UInv'
  BY <1>1 DEF UInv, Known
<1>6. ProgressIsTrue' /\ OneLiveSession'
  BY <1>1, <1>3 DEF ProgressIsTrue, OneLiveSession
<1>7. EInv'
  <2>1. \A key \in Keys : key[1] \in Sessions
    BY DEF Keys
  <2> QED
    BY <1>1, <1>3, <2>1 DEF EInv
<1> QED
  BY <1>2, <1>4, <1>5, <1>6, <1>7 DEF IInv

\* A file that becomes live under a decision is marked as such, the others stay excused.
LEMMA RewrittenKeeps ==
    ASSUME KInv, NEW rows \in [Keys -> FileType], Rewritten(rows), ordered \subseteq ordered',
           \A key \in Registered : Doomed(key)' => Doomed(key) \/ key \in ordered'
    PROVE  /\ file' \in [Keys -> FileType] /\ early' \subseteq Keys
           /\ \A key \in Registered' : Doomed(key)' => key \in early' \cup ordered'
<1>1. /\ file' = rows /\ early \subseteq Keys /\ Registered' \subseteq Keys
      /\ early' = (early \ (Registered' \ Registered))
                     \cup {key \in Registered' \ Registered : Doomed(key)'}
  BY DEF Rewritten, Enliven, KInv, Registered
<1>2. ASSUME NEW key \in Registered', Doomed(key)' PROVE key \in early' \cup ordered'
  <2>1. CASE key \in Registered
    BY <1>1, <1>2, <2>1 DEF KInv
  <2>2. CASE key \notin Registered
    BY <1>1, <1>2, <2>2
  <2> QED
    BY <2>1, <2>2
<1> QED
  BY <1>1, <1>2

\* Whatever a group does to its files, they stay registered or not.
LEMMA FilesBecomeKeeps ==
    ASSUME IInv, NEW s \in Sessions, NEW from \in SUBSET RowStates, NEW to,
           FilesBecome(s, from, to), \A k \in Required(s) : to[k] \in RowStates
    PROVE  IInv'
<1>1. KInv /\ object \in [Keys -> Content]
  BY DEF IInv, TInv
<1> DEFINE rows == [key \in Keys |-> IF key[1] = s /\ file[key] \in from
                                    THEN to[key[2]] ELSE file[key]]
<1>3. /\ Rewritten(rows)
      /\ UNCHANGED <<session, part, multi, req, revived, janitor, object, reconcileVars>>
  BY DEF FilesBecome, Untouched
<1>4. /\ rows \in [Keys -> FileType]
      /\ \A key \in Keys : rows[key] = "none" <=> file[key] = "none"
  <2>1. ASSUME NEW key \in Keys
        PROVE  rows[key] \in FileType /\ (rows[key] = "none" <=> file[key] = "none")
    <3>1. CASE key[1] = s /\ file[key] \in from
      <4>1. file[key] # "none" /\ "none" \notin RowStates
        BY <3>1 DEF RowStates
      <4>2. key[2] \in Required(s)
        BY <3>1, <4>1 DEF IInv, EInv
      <4> QED
        BY <3>1, <4>1, <4>2 DEF FileType
    <3>2. CASE ~(key[1] = s /\ file[key] \in from)
      BY <1>1, <3>2 DEF KInv
    <3> QED
      BY <3>1, <3>2
  <2> QED
    BY <2>1
<1> HIDE DEF rows
<1>5. \A key \in Registered : Doomed(key)' => Doomed(key)
  BY <1>3 DEF Doomed, reconcileVars
<1>6. /\ file' \in [Keys -> FileType] /\ early' \subseteq Keys
      /\ \A key \in Registered' : Doomed(key)' => key \in early' \cup ordered'
  BY <1>1, <1>3, <1>4, <1>5, RewrittenKeeps DEF reconcileVars
<1>7. file' = rows
  BY <1>3 DEF Rewritten
<1>8. KInv'
  <2>1. scan.live => scan.key \in Keys /\ file'[scan.key] # "none"
    BY <1>1, <1>4, <1>7 DEF KInv
  <2> QED
    BY <1>1, <1>3, <1>4, <1>6, <1>7, <2>1 DEF KInv, reconcileVars
<1> QED
  BY <1>1, <1>3, <1>4, <1>7, <1>8, ReconcileKeeps

LEMMA GroupStepKeeps == IInv /\ GroupStep => IInv'
<1> SUFFICES ASSUME IInv, NEW s \in Sessions,
                    SoftDelete(s) \/ Restore(s) \/ Revalidate(s) \/ Quarantine(s)
             PROVE  IInv'
  BY DEF GroupStep
<1>1. Required(s) \subseteq Slots
  BY RequiredType DEF IInv, TInv
<1>2. ASSUME NEW state \in RowStates
      PROVE  \A k \in Required(s) : Always(state)[k] \in RowStates
  BY <1>1 DEF Always
<1>3. /\ {"available", "missing", "quarantined", "soft_deleted"} \subseteq RowStates
      /\ RowStates \ {"hard_deleted"} \in SUBSET RowStates
      /\ RowStates \ {"soft_deleted", "hard_deleted"} \in SUBSET RowStates
  BY DEF RowStates
<1>4. CASE SoftDelete(s)
  <2>1. FilesBecome(s, RowStates \ {"hard_deleted"}, Always("soft_deleted"))
    BY <1>4 DEF SoftDelete
  <2> QED
    BY <1>2, <1>3, <2>1, FilesBecomeKeeps
<1>5. CASE Restore(s)
  <2>1. PICK to \in [Required(s) -> {"available", "missing", "quarantined"}] :
           FilesBecome(s, {"soft_deleted"}, to)
    BY <1>5 DEF Restore
  <2>2. {"soft_deleted"} \in SUBSET RowStates /\ \A k \in Required(s) : to[k] \in RowStates
    BY <1>3
  <2> QED
    BY <2>1, <2>2, FilesBecomeKeeps
<1>6. CASE Revalidate(s)
  <2>1. \/ FilesBecome(s, {"quarantined"}, Always("available"))
        \/ FilesBecome(s, {"available"}, Always("quarantined"))
    BY <1>6 DEF Revalidate
  <2>2. {"quarantined"} \in SUBSET RowStates /\ {"available"} \in SUBSET RowStates
    BY <1>3
  <2> QED
    BY <1>2, <1>3, <2>1, <2>2, FilesBecomeKeeps
<1>7. CASE Quarantine(s)
  <2>1. FilesBecome(s, RowStates \ {"soft_deleted", "hard_deleted"}, Always("quarantined"))
    BY <1>7 DEF Quarantine
  <2> QED
    BY <1>2, <1>3, <2>1, FilesBecomeKeeps
<1> QED
  BY <1>4, <1>5, <1>6, <1>7

LEMMA SettledType ==
    ASSUME KInv, NEW key \in Keys, NEW report, item' \in Settled(key, report)
    PROVE  /\ item' \in [Keys -> SUBSET Reports]
           /\ \A k \in Keys : item'[k] \subseteq item[k]
  BY DEF KInv, Settled

LEMMA ReconcileStepKeeps == IInv /\ ReconcileStep => IInv'
<1> SUFFICES ASSUME IInv, ReconcileStep PROVE IInv'
  OBVIOUS
<1> USE DEF Untouched
<1>1. /\ KInv /\ object \in [Keys -> Content] /\ file \in [Keys -> FileType]
      /\ scan \in ScanType /\ (scan.pc # "idle" => scan.key \in Keys)
      /\ item \in [Keys -> SUBSET Reports]
  BY DEF IInv, TInv, KInv
<1>2. /\ NoKey \notin Keys /\ NoScan \in ScanType /\ NoScan.pc = "idle" /\ ~NoScan.live
      /\ "none" \notin RowStates
  BY DEF NoKey, Keys, Sessions, NoScan, ScanType, RowStates
<1>3. Registered \subseteq Keys
  BY DEF Registered
<1>4. ASSUME NEW key \in Keys, ListObjects(key) PROVE IInv'
  <2>1. /\ UNCHANGED <<session, part, multi, req, revived, janitor, object, file, early, item, order, ordered>>
        /\ scan' = [NoScan EXCEPT !.pc = "listed", !.key = key, !.listed = object[key] # NoUpload]
    BY <1>4 DEF ListObjects
  <2>2. scan' \in ScanType /\ scan'.pc = "listed" /\ scan'.key = key /\ ~scan'.live
    BY <1>2, <2>1 DEF ScanType, NoScan
  <2>3. \A k \in Registered : Doomed(k)' => Doomed(k)
    BY <2>1, <2>2 DEF Doomed
  <2>4. KInv'
    BY <1>1, <2>1, <2>2, <2>3 DEF KInv, Registered
  <2> QED
    BY <1>1, <2>1, <2>4, ReconcileKeeps
<1>5. CASE LoadRows
  <2>1. /\ UNCHANGED <<session, part, multi, req, revived, janitor, object, file, early, item, order, ordered>>
        /\ scan.pc = "listed" /\ scan' = [scan EXCEPT !.pc = "loaded", !.live = scan.key \in LiveFiles]
    BY <1>5 DEF LoadRows
  <2>9. PICK b \in BOOLEAN : scan' = [scan EXCEPT !.pc = "loaded", !.live = b]
                            /\ (b <=> scan.key \in LiveFiles)
    <3>1. CASE scan.key \in LiveFiles
      <4>1. (scan.key \in LiveFiles) = TRUE
        BY <3>1
      <4> QED
        BY <2>1, <4>1, <3>1
    <3>2. CASE scan.key \notin LiveFiles
      <4>1. (scan.key \in LiveFiles) = FALSE
        BY <3>2
      <4> QED
        BY <2>1, <4>1, <3>2
    <3> QED
      BY <3>1, <3>2
  <2>2. /\ scan' \in ScanType /\ scan'.pc = "loaded" /\ scan'.key = scan.key
        /\ scan'.live <=> scan.key \in LiveFiles
    BY <1>1, <2>9 DEF ScanType
  <2>10. LiveFiles = Registered
    BY <1>1 DEF FileType, RowStates, LiveFiles, Registered
  <2>3. \A k \in Registered : Doomed(k)' => Doomed(k)
    BY <2>1, <2>2, <2>10 DEF Doomed
  <2>4. scan'.live => file'[scan'.key] # "none"
    BY <2>1, <2>2, <2>10 DEF Registered
  <2>5. KInv'
    BY <1>1, <2>1, <2>2, <2>3, <2>4 DEF KInv, Registered
  <2> QED
    BY <1>1, <2>1, <2>5, ReconcileKeeps
<1>6. CASE Report
  <2>1. /\ UNCHANGED <<session, part, multi, req, revived, janitor, object, early, order, ordered>>
        /\ scan.pc = "loaded" /\ scan' = NoScan /\ scan.key \in Keys
        /\ file' = IF scan.live /\ ~scan.listed /\ file[scan.key] = "available"
                   THEN [file EXCEPT ![scan.key] = "missing"] ELSE file
    BY <1>1, <1>6 DEF Report
  <2>2. PICK found \in Findings : item' = [item EXCEPT ![scan.key] = @ \cup found]
    BY <1>6 DEF Report
  <2>3. /\ found \subseteq Reports /\ ("file" \in found => scan.live)
        /\ found \ {"file"} # {} => scan.listed /\ ~scan.live
    <3>1. Classified \in {"object_missing_db", "other"}
      BY DEF Classified
    <3> QED
      BY <2>2, <3>1 DEF Findings, Reports
  <2>4. item' \in [Keys -> SUBSET Reports]
    BY <1>1, <2>1, <2>2, <2>3
  <2>5. /\ file' \in [Keys -> FileType] /\ \A k \in Keys : file'[k] = "none" <=> file[k] = "none"
        /\ \A k \in Keys : file'[k] = file[k] \/ (file[k] = "available" /\ file'[k] = "missing")
    BY <1>1, <2>1 DEF FileType, RowStates
  <2>6. Registered' = Registered
    BY <2>5 DEF Registered
  <2>7. \A k \in Registered : Doomed(k)' => Doomed(k)
    <3> SUFFICES ASSUME NEW k \in Registered, Doomed(k)' PROVE Doomed(k)
      OBVIOUS
    <3>1. item'[k] \ {"file"} # {} => item[k] \ {"file"} # {} \/ (k = scan.key /\ found \ {"file"} # {})
      BY <1>1, <1>3, <2>2
    <3> QED
      BY <1>2, <2>1, <2>3, <3>1 DEF Doomed
  <2>8. \A k \in Keys : "file" \in item'[k] => file'[k] # "none"
    <3>1. \A k \in Keys : "file" \in item'[k] => "file" \in item[k] \/ (k = scan.key /\ "file" \in found)
      BY <1>1, <2>2
    <3> QED
      BY <1>1, <2>1, <2>3, <2>5, <3>1 DEF KInv
  <2>9. KInv'
    BY <1>1, <1>2, <2>1, <2>4, <2>5, <2>6, <2>7, <2>8 DEF KInv
  <2> QED
    BY <1>1, <2>1, <2>5, <2>9, ReconcileKeeps
<1>7. ASSUME NEW key \in Keys, NEW report \in Reports, Resolve(key, report) PROVE IInv'
  <2>1. /\ UNCHANGED <<session, part, multi, req, revived, janitor, object, scan, order, ordered>>
        /\ report \in item[key] /\ item' \in Settled(key, report)
    BY <1>7 DEF Resolve
  <2>2. PICK state \in IF report = "file" THEN Resolutions(key) ELSE {file[key]} :
           Rewritten([file EXCEPT ![key] = state])
    BY <1>7 DEF Resolve
  <2> DEFINE rows == [file EXCEPT ![key] = state]
  <2>3. state \in FileType /\ (state = "none" <=> file[key] = "none")
    <3>1. CASE report = "file"
      <4>1. file[key] # "none"
        BY <1>1, <2>1, <3>1 DEF KInv
      <4> QED
        BY <1>1, <2>2, <3>1, <4>1 DEF Resolutions, FileType, RowStates
    <3>2. CASE report # "file"
      BY <1>1, <2>2, <3>2
    <3> QED
      BY <3>1, <3>2
  <2>4. rows \in [Keys -> FileType] /\ \A k \in Keys : rows[k] = "none" <=> file[k] = "none"
    BY <1>1, <2>3
  <2> HIDE DEF rows
  <2>5. item' \in [Keys -> SUBSET Reports] /\ \A k \in Keys : item'[k] \subseteq item[k]
    BY <1>1, <2>1, SettledType
  <2>6. \A k \in Registered : Doomed(k)' => Doomed(k)
    BY <1>3, <2>1, <2>5 DEF Doomed
  <2>7. /\ file' \in [Keys -> FileType] /\ early' \subseteq Keys /\ file' = rows
        /\ \A k \in Registered' : Doomed(k)' => k \in early' \cup ordered'
    BY <1>1, <2>1, <2>2, <2>4, <2>6, RewrittenKeeps DEF Rewritten, rows
  <2>8. KInv'
    <3>1. scan.live => scan.key \in Keys /\ file'[scan.key] # "none"
      BY <1>1, <2>4, <2>7 DEF KInv
    <3>2. \A k \in Keys : "file" \in item'[k] => file'[k] # "none"
      BY <1>1, <2>4, <2>5, <2>7 DEF KInv
    <3> QED
      BY <1>1, <2>1, <2>5, <2>7, <3>1, <3>2 DEF KInv
  <2> QED
    BY <1>1, <2>1, <2>4, <2>7, <2>8, ReconcileKeeps
<1> QED
  BY <1>4, <1>5, <1>6, <1>7 DEF ReconcileStep

LEMMA DeletionStepKeeps == ASSUME IInv, NEW o \in Operators, DeletionStep(o) PROVE IInv'
<1> USE DEF Untouched
<1> DEFINE d == order[o]
<1>1. /\ KInv /\ object \in [Keys -> Content] /\ file \in [Keys -> FileType]
      /\ item \in [Keys -> SUBSET Reports] /\ order \in [Operators -> OrderType]
      /\ d \in OrderType /\ (d.pc # "idle" => d.key \in Keys)
  BY DEF IInv, TInv, KInv
<1>2. Registered \subseteq Keys /\ NoKey \notin Keys
  BY DEF Registered, NoKey, Keys, Sessions
<1>3. ASSUME NEW key \in Keys, NEW report \in Reports, NEW rows \in SUBSET RowStates,
             TakesAway(o, key, report, rows)
      PROVE  IInv'
  <2> DEFINE x == [NoOrder EXCEPT !.pc = "done", !.key = key, !.report = report,
                                  !.rows = IF report = "file" THEN rows ELSE {}]
  <2>1. /\ UNCHANGED <<session, part, multi, req, revived, janitor, file, early, scan, item>>
        /\ report \in item[key] /\ object' = [object EXCEPT ![key] = NoUpload]
        /\ order' = [order EXCEPT ![o] = x]
        /\ ordered' = IF report = "file" THEN ordered \cup {key} ELSE ordered
    BY <1>3 DEF TakesAway
  <2>2. x \in OrderType /\ x.key = key
    BY NoOrderType DEF OrderType
  <2> HIDE DEF x
  <2>3. /\ order' \in [Operators -> OrderType]
        /\ \A p \in Operators : order'[p].pc # "idle" => order'[p].key \in Keys
    BY <1>1, <2>1, <2>2 DEF KInv
  <2>4. object' \in [Keys -> Content]
    BY <1>1, <2>1, Contents
  <2>5. \A k \in Registered : Doomed(k)' => k \in early \cup ordered'
    <3> SUFFICES ASSUME NEW k \in Registered, Doomed(k)' PROVE k \in early \cup ordered'
      OBVIOUS
    <3>1. CASE k = key
      <4>1. report # "file" => Doomed(k)
        BY <2>1, <3>1 DEF Doomed
      <4> QED
        BY <1>1, <2>1, <3>1, <4>1 DEF KInv
    <3>2. CASE k # key
      <4>1. \A p \in Operators : order'[p].key = k => order[p].key = k
        BY <1>1, <2>1, <2>2, <3>2
      <4>2. object'[k] = object[k]
        BY <1>1, <1>2, <2>1, <3>2
      <4>3. Doomed(k)
        BY <2>1, <4>1, <4>2 DEF Doomed
      <4> QED
        BY <1>1, <2>1, <4>3 DEF KInv
    <3> QED
      BY <3>1, <3>2
  <2>6. KInv'
    BY <1>1, <2>1, <2>3, <2>5 DEF KInv, Registered
  <2> QED
    BY <2>1, <2>4, <2>6, ReconcileKeeps
<1>4. ASSUME NEW key \in Keys, PlanHardDelete(o, key) PROVE IInv'
  <2> DEFINE row == file[key] \notin {"none", "hard_deleted"}
             x == [NoOrder EXCEPT !.pc = "planned", !.key = key,
                                  !.rows = IF row THEN RowStates \ {"hard_deleted"} ELSE {}]
  <2>1. /\ UNCHANGED <<session, part, multi, req, revived, janitor, object, file, early, scan, item>>
        /\ order' = [order EXCEPT ![o] = x] /\ Deletable(key)
        /\ ordered' = IF row THEN ordered \cup {key} ELSE ordered
    BY <1>4 DEF PlanHardDelete
  <2>2. x \in OrderType /\ x.key = key
    BY NoOrderType DEF OrderType
  <2> HIDE DEF x
  <2>3. /\ order' \in [Operators -> OrderType]
        /\ \A p \in Operators : order'[p].pc # "idle" => order'[p].key \in Keys
    BY <1>1, <2>1, <2>2 DEF KInv
  <2>4. \A k \in Registered : Doomed(k)' => k \in early \cup ordered'
    <3> SUFFICES ASSUME NEW k \in Registered, Doomed(k)' PROVE k \in early \cup ordered'
      OBVIOUS
    <3>1. CASE k = key
      BY <2>1, <3>1 DEF Registered
    <3>2. CASE k # key
      <4>1. \A p \in Operators : order'[p].key = k => order[p].key = k
        BY <1>1, <2>1, <2>2, <3>2
      <4>2. Doomed(k)
        BY <2>1, <4>1 DEF Doomed
      <4> QED
        BY <1>1, <2>1, <4>2 DEF KInv
    <3> QED
      BY <3>1, <3>2
  <2>5. KInv'
    BY <1>1, <2>1, <2>3, <2>4 DEF KInv, Registered
  <2> QED
    BY <1>1, <2>1, <2>5, ReconcileKeeps
<1>5. CASE HardDelete(o)
  <2>1. /\ UNCHANGED <<session, part, multi, req, revived, janitor, file, early, scan, item, ordered>>
        /\ d.pc = "planned" /\ d.key \in Keys
        /\ object' \in {object, [object EXCEPT ![d.key] = NoUpload]}
    BY <1>1, <1>5 DEF HardDelete
  <2>2. PICK to \in {"hard_deleted", "delete_failed"} :
           order' = [order EXCEPT ![o] = [d EXCEPT !.pc = "done", !.to = to]]
    <3>1. CASE order' = [order EXCEPT ![o].pc = "done"]
      <4>1. d.to \in {"hard_deleted", "delete_failed"} /\ d = [d EXCEPT !.to = d.to]
        BY <1>1 DEF OrderType
      <4>2. [d EXCEPT !.pc = "done"] = [d EXCEPT !.pc = "done", !.to = d.to]
        BY <1>1 DEF OrderType
      <4> QED
        BY <1>1, <3>1, <4>1, <4>2
    <3>2. CASE order' = [order EXCEPT ![o].pc = "done", ![o].to = "delete_failed"]
      <4>1. order' = [order EXCEPT ![o] = [d EXCEPT !.pc = "done", !.to = "delete_failed"]]
        BY <1>1, <3>2
      <4> QED
        BY <4>1
    <3> QED
      BY <1>5, <3>1, <3>2 DEF HardDelete
  <2>3. /\ order' \in [Operators -> OrderType]
        /\ \A p \in Operators : order'[p].key = order[p].key
        /\ \A p \in Operators : order'[p].pc # "idle" => order'[p].key \in Keys
    BY <1>1, <2>1, <2>2 DEF KInv, OrderType
  <2>4. object' \in [Keys -> Content] /\ \A k \in Keys \ {d.key} : object'[k] = object[k]
    BY <1>1, <2>1, Contents
  <2>5. \A k \in Registered : Doomed(k)' => Doomed(k)
    BY <1>2, <2>1, <2>3, <2>4 DEF Doomed
  <2>6. KInv'
    BY <1>1, <2>1, <2>3, <2>5 DEF KInv, Registered
  <2> QED
    BY <2>1, <2>4, <2>6, ReconcileKeeps
<1>6. CASE CommitDeletion(o)
  <2> DEFINE rows == IF file[d.key] \in d.rows THEN [file EXCEPT ![d.key] = d.to] ELSE file
  <2>1. /\ UNCHANGED <<session, part, multi, req, revived, janitor, object, scan, ordered>>
        /\ d.key \in Keys /\ item' \in Settled(d.key, d.report)
        /\ order' = [order EXCEPT ![o] = NoOrder] /\ Rewritten(rows)
    BY <1>1, <1>6 DEF CommitDeletion
  <2>2. rows \in [Keys -> FileType] /\ \A k \in Keys : rows[k] = "none" <=> file[k] = "none"
    <3>1. d.to \in RowStates /\ d.rows \subseteq RowStates /\ "none" \notin RowStates
      BY <1>1 DEF OrderType, RowStates
    <3> QED
      BY <1>1, <2>1, <3>1 DEF FileType
  <2> HIDE DEF rows
  <2>3. item' \in [Keys -> SUBSET Reports] /\ \A k \in Keys : item'[k] \subseteq item[k]
    BY <1>1, <2>1, SettledType
  <2>4. /\ order' \in [Operators -> OrderType]
        /\ \A p \in Operators : order'[p].pc # "idle" => order'[p].key \in Keys
        /\ \A p \in Operators : order'[p].key = order[p].key \/ order'[p].key \notin Keys
    BY <1>1, <1>2, <2>1, NoOrderType DEF KInv, NoOrder
  <2>5. \A k \in Registered : Doomed(k)' => Doomed(k)
    BY <1>2, <2>1, <2>3, <2>4 DEF Doomed
  <2>6. /\ file' \in [Keys -> FileType] /\ early' \subseteq Keys /\ file' = rows
        /\ \A k \in Registered' : Doomed(k)' => k \in early' \cup ordered'
    BY <1>1, <2>1, <2>2, <2>5, RewrittenKeeps DEF Rewritten
  <2>7. KInv'
    <3>1. scan.live => scan.key \in Keys /\ file'[scan.key] # "none"
      BY <1>1, <2>2, <2>6 DEF KInv
    <3>2. \A k \in Keys : "file" \in item'[k] => file'[k] # "none"
      BY <1>1, <2>2, <2>3, <2>6 DEF KInv
    <3> QED
      BY <1>1, <2>1, <2>3, <2>4, <2>6, <3>1, <3>2 DEF KInv
  <2> QED
    BY <1>1, <2>1, <2>2, <2>6, <2>7, ReconcileKeeps
<1>7. CASE DeletionDies(o)
  <2>1. /\ UNCHANGED <<session, part, multi, req, revived, janitor, object, file, early, scan, item, ordered>>
        /\ order' = [order EXCEPT ![o] = NoOrder]
    BY <1>7 DEF DeletionDies
  <2>2. /\ order' \in [Operators -> OrderType]
        /\ \A p \in Operators : order'[p].pc # "idle" => order'[p].key \in Keys
        /\ \A p \in Operators : order'[p].key = order[p].key \/ order'[p].key \notin Keys
    BY <1>1, <1>2, <2>1, NoOrderType DEF KInv, NoOrder
  <2>3. \A k \in Registered : Doomed(k)' => Doomed(k)
    BY <1>2, <2>1, <2>2 DEF Doomed
  <2>4. KInv'
    BY <1>1, <2>1, <2>2, <2>3 DEF KInv, Registered
  <2> QED
    BY <1>1, <2>1, <2>4, ReconcileKeeps
<1>8. RowStates \in SUBSET RowStates /\ {"delete_failed"} \in SUBSET RowStates
  BY DEF RowStates
<1> QED
  BY <1>3, <1>4, <1>5, <1>6, <1>7, <1>8 DEF DeletionStep, DeleteObject, RetryDelete

LEMMA StutterKeeps == IInv /\ UNCHANGED vars => IInv'
<1> SUFFICES ASSUME IInv, UNCHANGED vars PROVE IInv'
  OBVIOUS
<1>1. /\ TInv /\ WInv /\ UInv /\ multi \in [Uploads -> MultiType]
      /\ session \in [Sessions -> SessionType] /\ janitor \in PassType
  BY DEF IInv, TInv
<1>2. \A s \in Sessions : (Exists(s)' <=> Exists(s)) /\ (Live(s)' => Live(s))
  BY DEF vars, uploadVars, Exists, Live
<1>3. UNCHANGED <<part, multi, object, file, req, revived, early, session, janitor, reconcileVars>>
  BY DEF vars, uploadVars
<1>4. /\ janitor # NoPass => janitor.s \in Sessions /\ Exists(janitor.s) /\ janitor.fate \in Fates
      /\ \A u \in janitor.aborts : Known(u)
  BY <1>1 DEF TInv, WInv, UInv
<1> QED
  BY <1>1, <1>2, <1>3, <1>4, JanitorKeeps

--------------------------------------------------------------------------------
\* Every state has its type, what its requests and locks promise, and what is said below:
\* the invariant that the other theorems rest on.
THEOREM UploadsInductive == Spec => []IInv
<1>1. IInv /\ [Next]_vars => IInv'
  <2> SUFFICES ASSUME IInv, [Next]_vars PROVE IInv'
    OBVIOUS
  <2>1. ASSUME NEW r \in Requests, RequestStep(r), UNCHANGED <<reconcileVars, janitor>>
        PROVE  IInv'
    BY <2>1, RequestStepKeeps
  <2>5. ASSUME NEW r \in Requests, Register(r), UNCHANGED janitor PROVE IInv'
    BY <2>5, RegisterKeeps
  <2>2. CASE JanitorStep
    BY <2>2, JanitorStepKeeps
  <2>3. CASE ReconcileStep
    BY <2>3, ReconcileStepKeeps
  <2>6. CASE GroupStep
    BY <2>6, GroupStepKeeps
  <2>7. ASSUME NEW o \in Operators, DeletionStep(o) PROVE IInv'
    BY <2>7, DeletionStepKeeps
  <2>4. CASE UNCHANGED vars
    BY <2>4, StutterKeeps
  <2> QED
    BY <2>1, <2>2, <2>3, <2>4, <2>5, <2>6, <2>7 DEF Next
<1> QED
  BY InitIInv, <1>1, PTL DEF Spec

\* Sessions, slots, multipart uploads, objects and rows are of their types.
THEOREM UploadsTypeCorrect == Spec => []TypeOK
<1>1. IInv => TypeOK
  BY DEF IInv, TInv, KInv, TypeOK, SessionType, PartType, MultiType, FileType, OrderType, ReqType
<1> QED
  BY UploadsInductive, <1>1, PTL

\* A session waits for its registration only when every file is there, and its counter is
\* the number of files that are there, however record_part, replace_slot and update_state of
\* several requests overlap.
THEOREM ProgressIsTrueHolds == Spec => []ProgressIsTrue
<1>1. IInv => ProgressIsTrue
  BY DEF IInv
<1> QED
  BY UploadsInductive, <1>1, PTL

\* create_session leaves one session that collects for a category and month, as long as no
\* late request takes up one that has ended.
THEOREM OneLiveSessionHolds == Spec => []OneLiveSession
<1>1. IInv => OneLiveSession
  BY DEF IInv
<1> QED
  BY UploadsInductive, <1>1, PTL

\* The janitor decides on facts that it has read before, and yet never ends a session that
\* has been registered since.
THEOREM EndedHasNoFilesHolds == Spec => []EndedHasNoFiles
<1>1. IInv => EndedHasNoFiles
  <2> SUFFICES ASSUME IInv, NEW key \in Keys,
                      session[key[1]].state \in JanitorTerminal \ {"registered"},
                      file[key] # "none"
               PROVE  key[1] \in revived
    BY DEF EndedHasNoFiles
  <2>1. key[1] \in Sessions
    BY DEF Keys
  <2> QED
    BY <2>1 DEF IInv, EInv
<1> QED
  BY UploadsInductive, <1>1, PTL

\* However resolutions, retried deletions and bulk deletions overlap with registrations and
\* with what a group does to its files: the object of a registered file is there unless
\* somebody chose to delete that file, or the decision is one on an object without a row
\* from before the file was registered or restored.
THEOREM RegisteredObjectKeptHolds == Spec => []RegisteredObjectKept
<1>1. IInv => RegisteredObjectKept
  <2> SUFFICES ASSUME IInv, NEW key \in Registered, object[key] = NoUpload
               PROVE  key \in early \cup ordered
    BY DEF RegisteredObjectKept
  <2> QED
    BY DEF IInv, KInv, Doomed
<1> QED
  BY UploadsInductive, <1>1, PTL
================================================================================
