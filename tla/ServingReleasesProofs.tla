------------------------- MODULE ServingReleasesProofs -------------------------
(***************************************************************************)
(* Proofs about ServingReleases, for any number of writers, requests,      *)
(* contents, loads and releases.                                           *)
(*                                                                         *)
(* The ledger has one head, the active release (HeadInv).  Whoever holds   *)
(* the activation lock has decided about the ledger as it still is         *)
(* (TxnInv).  A fingerprint that was scanned for the release which is      *)
(* still active is the one of the data that is served, unless another      *)
(* writer owes a release (ScanInv): that is why a fingerprint which passes *)
(* the check under the lock can be trusted.  Rows of the cache and answers *)
(* are as new as the release they are filed under (FreshInv).              *)
(*                                                                         *)
(* With what lookups and the cached stamp know of the ledger (ConsumerInv) *)
(* the same invariant shows that the module implements ReleaseChain.       *)
(***************************************************************************)
EXTENDS ServingReleases, TLAPS

\* The release a is the active one, and everything activated before it is superseded.
IsHead(a) ==
    /\ a \in DOMAIN ledger
    /\ ledger[a].state = "active"
    /\ \A j \in DOMAIN ledger : j # a /\ Activated(j) => j < a /\ ledger[j].state = "superseded"

HeadInv == (\A i \in DOMAIN ledger : ~Activated(i)) \/ \E a \in DOMAIN ledger : IsHead(a)

TxnInv ==
    \A w \in Writers :
        /\ txn[w].before \in 0..Len(ledger)
        /\ txn[w].kind = "backfill" => txn[w].before # 0
        /\ txn[w].pc = "begun" => txn[w].fp = NoFp
        /\ txn[w].pc = "decided" <=> lock = w
        /\ txn[w].pc = "decided" =>
              /\ txn[w].kind # "backfill" => txn[w].prev = ActiveId /\ Len(ledger) < MaxReleases
              /\ txn[w].kind = "backfill" => txn[w].before = ActiveId
              /\ txn[w].fp # NoFp => txn[w].before = ActiveId

ScanInv ==
    \A w \in Writers :
        /\ txn[w].pc \in {"scanned", "decided"}
        /\ txn[w].fp # NoFp
        /\ txn[w].before = ActiveId
        => txn[w].fp = data.content \/ \E v \in Writers : v # w /\ owes[v]

\* A stamp names a row of the ledger, or it is no stamp at all.
Stamped(s) == s = NoStamp \/ s.id \in DOMAIN ledger

FreshInv ==
    /\ \A i \in DOMAIN ledger : ledger[i].seq <= data.seq
    /\ \A e \in geoCache : e.key \in DOMAIN ledger /\ e.answer.seq >= ledger[e.key].seq
    /\ Stamped(stamp)
    /\ \A r \in Requests : Stamped(req[r].stamp)
    /\ FreshAnswers

IInv == TypeOK /\ HeadInv /\ TxnInv /\ ScanInv /\ HonestFingerprint /\ LinearLineage /\ FreshInv

--------------------------------------------------------------------------------
\* The active id is that of the head, or 0 when nothing was ever activated.
LEMMA ActiveIsHead ==
    ASSUME TypeOK, HeadInv
    PROVE  /\ ActiveId \in 0..Len(ledger)
           /\ ActiveId = 0 => \A i \in DOMAIN ledger : ~Activated(i)
           /\ ActiveId # 0 => IsHead(ActiveId)
<1> DOMAIN ledger = 1..Len(ledger) /\ Len(ledger) \in Nat
  BY DEF TypeOK
<1>1. CASE \A i \in DOMAIN ledger : ~Activated(i)
  <2>1. ActiveIds = {}
    BY <1>1 DEF ActiveIds, Activated
  <2> QED BY <2>1, <1>1 DEF ActiveId
<1>2. CASE \E a \in DOMAIN ledger : IsHead(a)
  <2>1. PICK a \in DOMAIN ledger : IsHead(a)
    BY <1>2
  <2>2. ActiveIds = {a}
    BY <2>1 DEF IsHead, ActiveIds, Activated
  <2>3. ActiveId = a
    BY <2>2 DEF ActiveId
  <2> QED BY <2>1, <2>3
<1> QED BY <1>1, <1>2 DEF HeadInv

\* A head is the active id.
LEMMA HeadIsActive ==
    ASSUME TypeOK, NEW a \in DOMAIN ledger, IsHead(a)
    PROVE  ActiveId = a /\ HeadInv
<1>1. ActiveIds = {a}
  BY DEF IsHead, ActiveIds, Activated
<1>2. ActiveId = a
  BY <1>1 DEF ActiveId, TypeOK
<1> QED BY <1>2 DEF HeadInv

\* A step that activates nothing leaves the active id and the chain alone.
Quiet ==
    /\ Len(ledger') >= Len(ledger)
    /\ \A i \in DOMAIN ledger : /\ Activated(i)' <=> Activated(i)
                                /\ ledger'[i].state = "active" <=> ledger[i].state = "active"
                                /\ ledger'[i].prev = ledger[i].prev
                                /\ ledger'[i].seq = ledger[i].seq
    /\ \A i \in DOMAIN ledger' \ DOMAIN ledger : ~Activated(i)' /\ ledger'[i].state # "active"

LEMMA QuietKeepsActive ==
    ASSUME TypeOK, TypeOK', Quiet
    PROVE  ActiveId' = ActiveId
<1> /\ DOMAIN ledger = 1..Len(ledger) /\ Len(ledger) \in Nat
    /\ DOMAIN ledger' = 1..Len(ledger') /\ Len(ledger') \in Nat
  BY DEF TypeOK
<1>1. ActiveIds' = ActiveIds
  BY DEF Quiet, ActiveIds
<1> QED BY <1>1 DEF ActiveId

--------------------------------------------------------------------------------
\* What the commit of each kind of transaction does to the ledger.
LEMMA CommitShape ==
    ASSUME TypeOK, HeadInv, TxnInv, NEW w \in Writers, Commit(w)
    PROVE  /\ ledger' \in Seq(Release)
           /\ Len(ledger') <= MaxReleases
           /\ txn[w].kind \in {"publish", "candidate"} =>
                 /\ Len(ledger') = Len(ledger) + 1
                 /\ ledger'[Len(ledger) + 1] =
                       Row(txn[w], IF txn[w].kind = "publish" THEN "active" ELSE "pending")
           /\ txn[w].kind = "publish" =>
                 \A i \in 1..Len(ledger) : ledger'[i] =
                    IF ledger[i].state = "active"
                    THEN [ledger[i] EXCEPT !.state = "superseded"] ELSE ledger[i]
           /\ txn[w].kind = "candidate" => \A i \in 1..Len(ledger) : ledger'[i] = ledger[i]
           /\ txn[w].kind = "backfill" =>
                 /\ txn[w].before = ActiveId /\ ActiveId \in 1..Len(ledger)
                 /\ ledger' = [ledger EXCEPT ![ActiveId].fp = txn[w].fp]
                 /\ Len(ledger') = Len(ledger)
<1> /\ Len(ledger) \in Nat /\ DOMAIN ledger = 1..Len(ledger) /\ MaxReleases \in Nat
    /\ ledger \in Seq(Release) /\ txn[w] \in Txn /\ data \in Data
    /\ \A i \in 1..Len(ledger) : ledger[i] \in Release
  BY ServingAssumption DEF TypeOK
<1>1. /\ txn[w].pc = "decided" /\ ledger' = Recorded(txn[w])
      /\ txn[w].kind \in {"publish", "candidate", "backfill"}
  BY DEF Commit, Txn
<1>2. CASE txn[w].kind = "publish"
  <2>1. Row(txn[w], "active") \in Release
    BY DEF Row, Release, Txn, Data
  <2>2. /\ Superseded(ledger) \in Seq(Release) /\ Len(Superseded(ledger)) = Len(ledger)
        /\ \A i \in 1..Len(ledger) : Superseded(ledger)[i] =
              IF ledger[i].state = "active"
              THEN [ledger[i] EXCEPT !.state = "superseded"] ELSE ledger[i]
    <3>1. \A i \in 1..Len(ledger) : [ledger[i] EXCEPT !.state = "superseded"] \in Release
      BY DEF Release
    <3> QED BY <3>1 DEF Superseded
  <2>3. ledger' = Append(Superseded(ledger), Row(txn[w], "active"))
    BY <1>1, <1>2 DEF Recorded
  <2>4. Len(ledger) < MaxReleases
    BY <1>1, <1>2 DEF TxnInv
  <2> QED BY <1>2, <2>1, <2>2, <2>3, <2>4
<1>3. CASE txn[w].kind = "candidate"
  <2>1. Row(txn[w], "pending") \in Release
    BY DEF Row, Release, Txn, Data
  <2>2. ledger' = Append(ledger, Row(txn[w], "pending"))
    BY <1>1, <1>3 DEF Recorded
  <2>3. Len(ledger) < MaxReleases
    BY <1>1, <1>3 DEF TxnInv
  <2> QED BY <1>3, <2>1, <2>2, <2>3
<1>4. CASE txn[w].kind = "backfill"
  <2>1. txn[w].before = ActiveId /\ ActiveId # 0 /\ ActiveId \in 1..Len(ledger)
    BY <1>1, <1>4, ActiveIsHead DEF TxnInv
  <2>2. ledger' = [ledger EXCEPT ![ActiveId].fp = txn[w].fp]
    BY <1>1, <1>4, <2>1 DEF Recorded
  <2>3. [ledger[ActiveId] EXCEPT !.fp = txn[w].fp] \in Release
    BY <2>1 DEF Release, Txn
  <2> QED BY <1>4, <2>1, <2>2, <2>3 DEF TypeOK
<1> QED BY <1>1, <1>2, <1>3, <1>4

\* What the actions of a lookup make of its record.
LEMMA ReqTypes ==
    ASSUME NEW q \in Req
    PROVE  /\ \A s \in Stamp : [q EXCEPT !.pc = "stamped", !.stamp = s] \in Req
           /\ \A d \in Data : /\ [q EXCEPT !.pc = "answered", !.answer = d] \in Req
                              /\ [q EXCEPT !.pc = "computed", !.answer = d] \in Req
           /\ [q EXCEPT !.pc = "answered"] \in Req
           /\ [q EXCEPT !.pc = "idle", !.stamp = NoStamp] \in Req
<1> NoStamp \in Stamp
  BY DEF NoStamp, Stamp, Token
<1> QED BY DEF Req

\* Every action preserves the types.
LEMMA TypeStep ==
    ASSUME TypeOK, HeadInv, TxnInv, FreshInv, [Next]_vars
    PROVE  TypeOK'
<1> USE ServingAssumption
<1> /\ Len(ledger) \in Nat /\ DOMAIN ledger = 1..Len(ledger) /\ Len(ledger) <= MaxReleases
    /\ ActiveId \in {0} \cup Ids /\ ActiveId \in 0..Len(ledger)
    /\ IdleTxn \in Txn /\ NoStamp \in Stamp
  BY ActiveIsHead DEF TypeOK, IdleTxn, Txn, NoStamp, Stamp, Ids, Token
<1>1. CASE UNCHANGED vars
  BY <1>1 DEF vars, TypeOK
<1>2. ASSUME NEW w \in Writers, Load(w)
      PROVE  TypeOK'
  BY <1>2 DEF Load, TypeOK, Data
<1>3. ASSUME NEW w \in Writers, BeginPublish(w) \/ BeginBackfill(w) \/ BeginCandidate(w)
      PROVE  TypeOK'
  <2>1. /\ [IdleTxn EXCEPT !.pc = "begun", !.before = ActiveId] \in Txn
        /\ [IdleTxn EXCEPT !.kind = "backfill", !.pc = "begun", !.before = ActiveId] \in Txn
        /\ [IdleTxn EXCEPT !.kind = "candidate", !.pc = "scanned"] \in Txn
    BY DEF IdleTxn, Txn, Token
  <2> QED BY <1>3, <2>1 DEF BeginPublish, BeginBackfill, BeginCandidate, TypeOK
<1>4. ASSUME NEW w \in Writers, Scan(w) \/ ScanFails(w)
      PROVE  TypeOK'
  <2>1. \A t \in Txn : /\ [t EXCEPT !.pc = "scanned"] \in Txn
                       /\ [t EXCEPT !.pc = "scanned", !.fp = data.content] \in Txn
    BY DEF TypeOK, Txn, Token, Data
  <2>2. CASE Scan(w)
    <3>1. txn' = [txn EXCEPT ![w] = [txn[w] EXCEPT !.pc = "scanned", !.fp = data.content]]
      BY <2>2 DEF Scan
    <3>2. txn[w] \in Txn /\ [txn[w] EXCEPT !.pc = "scanned", !.fp = data.content] \in Txn
      BY <2>1 DEF TypeOK
    <3>3. txn' \in [Writers -> Txn]
      BY <3>1, <3>2 DEF TypeOK
    <3> QED BY <2>2, <3>3 DEF Scan, TypeOK
  <2>3. CASE ScanFails(w)
    <3>1. \E t \in Txn : txn' = [txn EXCEPT ![w] = t]
      <4>1. txn[w] \in Txn
        BY DEF TypeOK
      <4>2. CASE txn[w].kind = "backfill"
        BY <2>3, <4>2 DEF ScanFails
      <4>3. CASE txn[w].kind # "backfill"
        <5>1. [txn[w] EXCEPT !.pc = "scanned"] \in Txn
          BY <2>1, <4>1
        <5>2. txn' = [txn EXCEPT ![w] = [txn[w] EXCEPT !.pc = "scanned"]]
          BY <2>3, <4>3 DEF ScanFails
        <5> QED BY <5>1, <5>2
      <4> QED BY <4>2, <4>3
    <3> QED BY <2>3, <3>1 DEF ScanFails, TypeOK
  <2> QED BY <1>4, <2>2, <2>3
<1>5. ASSUME NEW w \in Writers, Decide(w) \/ DecideBackfill(w)
      PROVE  TypeOK'
  <2>1. /\ [txn[w] EXCEPT !.pc = "decided"] \in Txn
        /\ [txn[w] EXCEPT !.pc = "decided", !.prev = ActiveId, !.fp = Judged(txn[w])] \in Txn
    BY DEF Judged, TypeOK, Txn, Token
  <2>2. deleting' \subseteq Ids /\ lock' \in Writers \cup {NoWriter}
    BY <1>5 DEF Decide, DecideBackfill, TypeOK
  <2> QED BY <1>5, <2>1, <2>2 DEF Decide, DecideBackfill, TypeOK
<1>6. ASSUME NEW w \in Writers, Commit(w)
      PROVE  TypeOK'
  <2>1. ledger' \in Seq(Release) /\ Len(ledger') <= MaxReleases
    BY <1>6, CommitShape
  <2>2. txn' \in [Writers -> Txn] /\ owes' \in [Writers -> BOOLEAN]
    BY <1>6 DEF Commit, TypeOK
  <2> QED BY <1>6, <2>1, <2>2 DEF Commit, TypeOK
<1>7. ASSUME NEW w \in Writers, Abort(w)
      PROVE  TypeOK'
  BY <1>7 DEF Abort, TypeOK
<1>8. ASSUME NEW i \in DOMAIN ledger, DropCandidate(i)
      PROVE  TypeOK'
  <2>1. ledger[i] \in Release
    BY DEF TypeOK
  <2>2. [ledger[i] EXCEPT !.state = "deleted"] \in Release
    BY <2>1 DEF Release
  <2> QED BY <1>8, <2>2 DEF DropCandidate, TypeOK
<1>9. ASSUME NEW r \in Requests, UseStamp(r) \/ ReadStamp(r)
      PROVE  TypeOK'
  <2>1. ActiveStamp \in Stamp
    <3>1. ActiveId # 0 => ledger[ActiveId] \in Release
      BY DEF TypeOK
    <3> QED BY <3>1 DEF ActiveStamp, Stamp, Release
  <2>2. PICK s \in Stamp : req' = [req EXCEPT ![r] = [req[r] EXCEPT !.pc = "stamped", !.stamp = s]]
    BY <1>9, <2>1 DEF UseStamp, ReadStamp, TypeOK
  <2>5. req[r] \in Req /\ [req[r] EXCEPT !.pc = "stamped", !.stamp = s] \in Req
    BY ReqTypes DEF TypeOK
  <2>3. req' \in [Requests -> Req]
    BY <2>2, <2>5 DEF TypeOK
  <2>4. stamp' \in Stamp
    BY <1>9, <2>1 DEF UseStamp, ReadStamp, TypeOK
  <2> QED BY <1>9, <2>3, <2>4 DEF UseStamp, ReadStamp, TypeOK
<1>10. ASSUME NEW r \in Requests, Hit(r) \/ Compute(r) \/ SkipStore(r) \/ Forget(r)
       PROVE  TypeOK'
  <2>1. \A e \in geoCache : e.answer \in Data
    BY DEF TypeOK
  <2>2. \E q \in Req : req' = [req EXCEPT ![r] = q]
    <3>1. CASE Hit(r)
      <4>1. PICK e \in geoCache : req' = [req EXCEPT ![r] = [req[r] EXCEPT !.pc = "answered",
                                                                          !.answer = e.answer]]
        BY <3>1 DEF Hit
      <4> QED BY <4>1, <2>1, ReqTypes DEF TypeOK
    <3>2. CASE Compute(r)
      <4>1. req' = [req EXCEPT ![r] = [req[r] EXCEPT !.pc = "computed", !.answer = data]]
        BY <3>2 DEF Compute
      <4> QED BY <4>1, ReqTypes DEF TypeOK
    <3>3. CASE SkipStore(r)
      <4>1. req' = [req EXCEPT ![r] = [req[r] EXCEPT !.pc = "answered"]]
        BY <3>3 DEF SkipStore
      <4> QED BY <4>1, ReqTypes DEF TypeOK
    <3>4. CASE Forget(r)
      <4>1. req' = [req EXCEPT ![r] = [req[r] EXCEPT !.pc = "idle", !.stamp = NoStamp]]
        BY <3>4 DEF Forget
      <4> QED BY <4>1, ReqTypes DEF TypeOK
    <3> QED BY <1>10, <3>1, <3>2, <3>3, <3>4
  <2> QED BY <1>10, <2>2 DEF Hit, Compute, SkipStore, Forget, TypeOK
<1>11. ASSUME NEW r \in Requests, Store(r)
       PROVE  TypeOK'
  <2>1. req[r].stamp.id \in Ids /\ req[r].answer \in Data
    BY <1>11 DEF Store, TypeOK, Req, FreshInv, Stamped, Stamp, Ids
  <2> QED BY <1>11, <2>1 DEF Store, TypeOK, Req, CacheKey
<1> QED BY <1>1, <1>2, <1>3, <1>4, <1>5, <1>6, <1>7, <1>8, <1>9, <1>10, <1>11 DEF Next

--------------------------------------------------------------------------------
\* Only the commit of a publication activates anything.
LEMMA StepKinds ==
    ASSUME TypeOK, HeadInv, TxnInv, [Next]_vars
    PROVE  \/ Quiet
           \/ \E w \in Writers : Commit(w) /\ txn[w].kind = "publish"
<1> Len(ledger) \in Nat /\ DOMAIN ledger = 1..Len(ledger)
  BY DEF TypeOK
<1>1. CASE ledger' = ledger
  BY <1>1 DEF Quiet, Activated
<1>2. ASSUME NEW w \in Writers, Commit(w), txn[w].kind # "publish"
      PROVE  Quiet
  <2>0. txn[w].kind \in {"candidate", "backfill"}
    BY <1>2 DEF TypeOK, Txn
  <2>1. CASE txn[w].kind = "candidate"
    <3>1. /\ Len(ledger') = Len(ledger) + 1
          /\ DOMAIN ledger' = 1..(Len(ledger) + 1)
          /\ ledger'[Len(ledger) + 1].state = "pending"
          /\ \A i \in 1..Len(ledger) : ledger'[i] = ledger[i]
      <4>1. /\ ledger' \in Seq(Release) /\ Len(ledger') = Len(ledger) + 1
            /\ ledger'[Len(ledger) + 1] = Row(txn[w], "pending")
            /\ \A i \in 1..Len(ledger) : ledger'[i] = ledger[i]
        BY <1>2, <2>1, CommitShape
      <4> QED BY <4>1 DEF Row
    <3> QED BY <3>1 DEF Quiet, Activated
  <2>2. CASE txn[w].kind = "backfill"
    <3>1. /\ ledger' = [ledger EXCEPT ![ActiveId].fp = txn[w].fp]
          /\ ActiveId \in 1..Len(ledger)
          /\ Len(ledger') = Len(ledger)
      BY <1>2, <2>2, CommitShape
    <3>2. \A i \in 1..Len(ledger) : ledger[i] \in Release
      BY DEF TypeOK
    <3>3. DOMAIN ledger' = DOMAIN ledger
      BY <3>1
    <3>4. \A i \in 1..Len(ledger) : /\ ledger'[i].state = ledger[i].state
                                    /\ ledger'[i].prev = ledger[i].prev
                                    /\ ledger'[i].seq = ledger[i].seq
      BY <3>1, <3>2 DEF Release
    <3> QED BY <3>1, <3>3, <3>4 DEF Quiet, Activated
  <2> QED BY <2>0, <2>1, <2>2
<1>3. ASSUME NEW i \in DOMAIN ledger, DropCandidate(i)
      PROVE  Quiet
  <2>1. ledger' = [ledger EXCEPT ![i].state = "deleted"] /\ ledger[i].state = "pending"
    BY <1>3 DEF DropCandidate
  <2>2. \A j \in DOMAIN ledger : ledger[j] \in Release
    BY DEF TypeOK
  <2>3. DOMAIN ledger' = DOMAIN ledger /\ Len(ledger') = Len(ledger)
    BY <2>1 DEF TypeOK
  <2>4. \A j \in DOMAIN ledger : /\ ledger'[j].state = IF j = i THEN "deleted" ELSE ledger[j].state
                                 /\ ledger'[j].prev = ledger[j].prev
                                 /\ ledger'[j].seq = ledger[j].seq
    BY <2>1, <2>2 DEF Release
  <2> QED BY <2>1, <2>3, <2>4 DEF Quiet, Activated
<1> QED
  BY <1>1, <1>2, <1>3 DEF Next, vars, Load, BeginPublish, BeginBackfill, BeginCandidate, Scan,
     ScanFails, Decide, DecideBackfill, Abort, UseStamp, ReadStamp, Hit, Compute, Store,
     SkipStore, Forget

\* What the commit of a publication leaves.
LEMMA Published ==
    ASSUME TypeOK, HeadInv, TxnInv, NEW w \in Writers, Commit(w), txn[w].kind = "publish"
    PROVE  /\ Len(ledger) \in Nat /\ DOMAIN ledger = 1..Len(ledger)
           /\ Len(ledger') = Len(ledger) + 1 /\ DOMAIN ledger' = 1..(Len(ledger) + 1)
           /\ ledger'[Len(ledger) + 1] = Row(txn[w], "active")
           /\ txn[w].prev = ActiveId
           /\ \A i \in 1..Len(ledger) :
                 /\ Activated(i)' <=> Activated(i)
                 /\ ledger'[i].state # "active"
                 /\ ledger'[i].prev = ledger[i].prev
                 /\ ledger'[i].seq = ledger[i].seq
                 /\ ledger'[i].fp = ledger[i].fp
<1>1. /\ Len(ledger) \in Nat /\ DOMAIN ledger = 1..Len(ledger)
      /\ \A i \in 1..Len(ledger) : ledger[i] \in Release
  BY DEF TypeOK
<1>2. /\ Len(ledger') = Len(ledger) + 1 /\ DOMAIN ledger' = 1..(Len(ledger) + 1)
      /\ ledger'[Len(ledger) + 1] = Row(txn[w], "active")
      /\ \A i \in 1..Len(ledger) : ledger'[i] =
            IF ledger[i].state = "active"
            THEN [ledger[i] EXCEPT !.state = "superseded"] ELSE ledger[i]
  BY CommitShape, <1>1
<1>3. txn[w].prev = ActiveId
  BY DEF Commit, TxnInv
<1>4. \A i \in 1..Len(ledger) :
        /\ ledger'[i].state =
              IF ledger[i].state = "active" THEN "superseded" ELSE ledger[i].state
        /\ ledger'[i].prev = ledger[i].prev
        /\ ledger'[i].seq = ledger[i].seq
        /\ ledger'[i].fp = ledger[i].fp
  BY <1>1, <1>2 DEF Release
<1> QED BY <1>1, <1>2, <1>3, <1>4 DEF Activated

\* After a publication the new row is the head of a longer chain.
LEMMA PublishStep ==
    ASSUME TypeOK, TypeOK', HeadInv, TxnInv, LinearLineage,
           NEW w \in Writers, Commit(w), txn[w].kind = "publish"
    PROVE  HeadInv' /\ ActiveId' = Len(ledger) + 1 /\ LinearLineage'
<1> PICK new \in Nat, old \in Nat : new = Len(ledger) + 1 /\ old = ActiveId
  <2>1. Len(ledger) \in Nat /\ ActiveId \in Nat
    BY ActiveIsHead DEF TypeOK
  <2> QED BY <2>1
<1>0. /\ Len(ledger) \in Nat /\ DOMAIN ledger = 1..Len(ledger)
      /\ Len(ledger') = new /\ DOMAIN ledger' = 1..new
      /\ ledger'[new].state = "active" /\ ledger'[new].prev = old
      /\ \A i \in 1..Len(ledger) : /\ Activated(i)' <=> Activated(i)
                                   /\ ledger'[i].state # "active"
                                   /\ ledger'[i].prev = ledger[i].prev
  <2>1. /\ Len(ledger) \in Nat /\ DOMAIN ledger = 1..Len(ledger)
        /\ Len(ledger') = Len(ledger) + 1 /\ DOMAIN ledger' = 1..(Len(ledger) + 1)
        /\ ledger'[Len(ledger) + 1] = Row(txn[w], "active")
        /\ txn[w].prev = ActiveId
        /\ \A i \in 1..Len(ledger) : /\ Activated(i)' <=> Activated(i)
                                     /\ ledger'[i].state # "active"
                                     /\ ledger'[i].prev = ledger[i].prev
    BY Published
  <2>2. ledger'[new].state = "active" /\ ledger'[new].prev = old
    BY <2>1 DEF Row
  <2> QED BY <2>1, <2>2
<1>1. IsHead(new)'
  BY <1>0 DEF IsHead, Activated
<1>2. HeadInv' /\ ActiveId' = new
  <2>1. (TypeOK /\ IsHead(new) /\ new \in DOMAIN ledger)' 
    BY <1>0, <1>1
  <2>2. ActiveIds' = {new}
    BY <1>0 DEF ActiveIds, Activated
  <2>3. ActiveId' = new
    BY <2>2 DEF ActiveId
  <2>4. HeadInv'
    BY <1>0, <1>1 DEF HeadInv
  <2> QED BY <2>3, <2>4
<1>3. Activated(new)'
  BY <1>0 DEF Activated
<1>4. LinearLineage'
  <2> SUFFICES ASSUME NEW i \in 1..new, Activated(i)'
               PROVE  /\ ledger'[i].prev \in 0..(i - 1)
                      /\ ledger'[i].prev # 0 => Activated(ledger[i].prev)'
                      /\ \A j \in (ledger'[i].prev + 1)..(i - 1) : ~Activated(j)'
                      /\ ledger'[i].state = "active" <=> \A j \in (i + 1)..new : ~Activated(j)'
    BY <1>0 DEF LinearLineage
  <2>1. CASE i \in 1..Len(ledger)
    <3>1. /\ Activated(i)
          /\ ledger[i].prev \in 0..(i - 1)
          /\ ledger[i].prev # 0 => Activated(ledger[i].prev)
          /\ \A j \in (ledger[i].prev + 1)..(i - 1) : ~Activated(j)
      BY <1>0, <2>1 DEF LinearLineage
    <3>2. ledger'[i].prev # 0 => Activated(ledger[i].prev)'
      <4>1. \A p \in 1..Len(ledger) : Activated(p) => Activated(p)'
        BY <1>0 DEF Activated
      <4>2. ledger'[i].prev = ledger[i].prev
            /\ (ledger[i].prev # 0 => ledger[i].prev \in 1..Len(ledger))
        BY <1>0, <2>1, <3>1
      <4> QED BY <3>1, <4>1, <4>2 DEF Activated
    <3>3. \A j \in (ledger[i].prev + 1)..(i - 1) : ~Activated(j)'
      BY <1>0, <2>1, <3>1
    <3>4. new \in (i + 1)..new /\ ledger'[i].state # "active" /\ ledger'[i].prev = ledger[i].prev
      BY <1>0, <2>1
    <3> QED BY <1>3, <3>1, <3>2, <3>3, <3>4
  <2>2. CASE i = new
    <3>1. /\ old \in 0..Len(ledger)
          /\ old # 0 => Activated(old)
          /\ \A j \in (old + 1)..Len(ledger) : ~Activated(j)
      BY <1>0, ActiveIsHead DEF IsHead, Activated
    <3>2. /\ old # 0 => Activated(old)'
          /\ \A j \in (old + 1)..Len(ledger) : ~Activated(j)'
      BY <1>0, <3>1 DEF Activated
    <3>3. ledger'[i].prev = old /\ ledger'[i].state = "active" /\ i - 1 = Len(ledger)
      BY <1>0, <2>2
    <3>4. ledger'[i].prev # 0 => Activated(ledger[i].prev)'
      BY <3>2, <3>3 DEF Activated
    <3>5. (i + 1)..new = {}
      BY <2>2
    <3> QED BY <3>1, <3>2, <3>3, <3>4, <3>5
  <2> QED BY <1>0, <2>1, <2>2
<1> QED BY <1>2, <1>4

\* A quiet step keeps the head and the chain.
LEMMA QuietStep ==
    ASSUME TypeOK, TypeOK', HeadInv, LinearLineage, Quiet
    PROVE  HeadInv' /\ LinearLineage'
<1>0. /\ DOMAIN ledger = 1..Len(ledger) /\ Len(ledger) \in Nat
      /\ DOMAIN ledger' = 1..Len(ledger') /\ Len(ledger') \in Nat
      /\ Len(ledger') >= Len(ledger)
  BY DEF TypeOK, Quiet
<1>1. HeadInv'
  <2>1. ASSUME NEW a \in DOMAIN ledger, IsHead(a)
        PROVE  IsHead(a)' /\ a \in DOMAIN ledger'
    BY <1>0, <2>1 DEF IsHead, Quiet, Activated
  <2>2. CASE \A i \in DOMAIN ledger : ~Activated(i)
    BY <1>0, <2>2 DEF Quiet, HeadInv
  <2> QED BY <2>1, <2>2 DEF HeadInv
<1>2. LinearLineage'
  <2> SUFFICES ASSUME NEW i \in DOMAIN ledger', Activated(i)'
               PROVE  /\ ledger'[i].prev \in 0..(i - 1)
                      /\ ledger'[i].prev # 0 => Activated(ledger[i].prev)'
                      /\ \A j \in (ledger'[i].prev + 1)..(i - 1) : ~Activated(j)'
                      /\ ledger'[i].state = "active"
                           <=> \A j \in (i + 1)..Len(ledger') : ~Activated(j)'
    BY DEF LinearLineage
  <2>1. i \in DOMAIN ledger /\ Activated(i) /\ ledger'[i].prev = ledger[i].prev
    BY DEF Quiet
  <2>2. /\ ledger[i].prev \in 0..(i - 1)
        /\ ledger[i].prev # 0 => Activated(ledger[i].prev)
        /\ \A j \in (ledger[i].prev + 1)..(i - 1) : ~Activated(j)
        /\ ledger[i].state = "active" <=> \A j \in (i + 1)..Len(ledger) : ~Activated(j)
    BY <2>1 DEF LinearLineage
  <2>3. \A j \in 1..Len(ledger) : Activated(j)' <=> Activated(j)
    BY <1>0 DEF Quiet
  <2>4. \A j \in (Len(ledger) + 1)..Len(ledger') : ~Activated(j)'
    BY <1>0 DEF Quiet
  <2>6. ledger'[i].prev # 0 => Activated(ledger[i].prev)'
    <3>1. ledger[i].prev # 0 => ledger[i].prev \in 1..Len(ledger)
      BY <1>0, <2>1, <2>2
    <3>2. \A p \in 1..Len(ledger) : Activated(p) => Activated(p)'
      BY <2>3
    <3> QED BY <2>1, <2>2, <3>1, <3>2 DEF Activated
  <2>7. \A j \in (ledger[i].prev + 1)..(i - 1) : ~Activated(j)'
    BY <1>0, <2>1, <2>2, <2>3
  <2>8. (\A j \in (i + 1)..Len(ledger') : ~Activated(j)')
           <=> \A j \in (i + 1)..Len(ledger) : ~Activated(j)
    BY <1>0, <2>1, <2>3, <2>4
  <2>9. ledger'[i].state = "active" <=> ledger[i].state = "active"
    BY <2>1 DEF Quiet
  <2> QED BY <2>1, <2>2, <2>6, <2>7, <2>8, <2>9
<1> QED BY <1>1, <1>2

--------------------------------------------------------------------------------
LEMMA SameLedger ==
    ASSUME ledger' = ledger
    PROVE  ActiveId' = ActiveId
<1>1. ActiveIds' = ActiveIds
  BY DEF ActiveIds
<1> QED BY <1>1 DEF ActiveId

\* No step but the commit of a publication changes which release is active.
LEMMA ActiveKept ==
    ASSUME TypeOK, TypeOK', HeadInv, TxnInv, [Next]_vars,
           ~\E w \in Writers : Commit(w) /\ txn[w].kind = "publish"
    PROVE  ActiveId' = ActiveId
BY StepKinds, QuietKeepsActive

LEMMA DropKeepsActive ==
    ASSUME TypeOK, TypeOK', HeadInv, TxnInv, NEW i \in DOMAIN ledger, DropCandidate(i)
    PROVE  ActiveId' = ActiveId
<1>1. Len(ledger') = Len(ledger)
  BY DEF DropCandidate, TypeOK
<1>2. ASSUME NEW w \in Writers, Commit(w), txn[w].kind = "publish"
      PROVE  FALSE
  <2>1. Len(ledger') = Len(ledger) + 1 /\ Len(ledger) \in Nat
    BY <1>2, Published
  <2> QED BY <1>1, <2>1
<1> QED BY <1>2, ActiveKept DEF Next

LEMMA OtherCommitKeepsActive ==
    ASSUME TypeOK, TypeOK', HeadInv, TxnInv, NEW w \in Writers, Commit(w),
           txn[w].kind # "publish"
    PROVE  ActiveId' = ActiveId
<1>1. ASSUME NEW v \in Writers, Commit(v), txn[v].kind = "publish"
      PROVE  FALSE
  <2>1. txn[v].pc = "decided" /\ txn[w].pc = "decided"
    BY <1>1 DEF Commit
  <2>2. v = w
    BY <2>1 DEF TxnInv
  <2> QED BY <1>1, <2>2
<1> QED BY <1>1, ActiveKept DEF Next

LEMMA PublishActivates ==
    ASSUME TypeOK, TypeOK', HeadInv, TxnInv, NEW w \in Writers, Commit(w),
           txn[w].kind = "publish"
    PROVE  ActiveId' = Len(ledger) + 1
<1>1. /\ Len(ledger) \in Nat /\ DOMAIN ledger' = 1..(Len(ledger) + 1)
      /\ ledger'[Len(ledger) + 1].state = "active"
      /\ \A i \in 1..Len(ledger) : ledger'[i].state # "active"
  <2>1. /\ Len(ledger) \in Nat /\ DOMAIN ledger' = 1..(Len(ledger) + 1)
        /\ ledger'[Len(ledger) + 1] = Row(txn[w], "active")
        /\ \A i \in 1..Len(ledger) : ledger'[i].state # "active"
    BY Published
  <2> QED BY <2>1 DEF Row
<1>2. ActiveIds' = {Len(ledger) + 1}
  BY <1>1 DEF ActiveIds
<1> QED BY <1>2 DEF ActiveId

\* The invariant of the transactions.
LEMMA TxnStep ==
    ASSUME TypeOK, TypeOK', HeadInv, TxnInv, LinearLineage, [Next]_vars
    PROVE  TxnInv'
<1> USE ServingAssumption
<1> /\ Len(ledger) \in Nat /\ Len(ledger') \in Nat /\ DOMAIN ledger = 1..Len(ledger)
    /\ ActiveId \in 0..Len(ledger)
    /\ \A v \in Writers : txn[v] \in Txn /\ txn'[v] \in Txn
  BY ActiveIsHead DEF TypeOK
<1> DEFINE Fine(t, active, n, l, v) ==
        /\ t.before \in 0..n
        /\ t.kind = "backfill" => t.before # 0
        /\ t.pc = "begun" => t.fp = NoFp
        /\ t.pc = "decided" <=> l = v
        /\ t.pc = "decided" =>
              /\ t.kind # "backfill" => t.prev = active /\ n < MaxReleases
              /\ t.kind = "backfill" => t.before = active
              /\ t.fp # NoFp => t.before = active
<1>a. \A v \in Writers : Fine(txn[v], ActiveId, Len(ledger), lock, v)
  BY DEF TxnInv
<1>b. SUFFICES \A v \in Writers : Fine(txn'[v], ActiveId', Len(ledger'), lock', v)
  BY DEF TxnInv
<1>1. ASSUME UNCHANGED <<txn, lock>>, ActiveId' = ActiveId, Len(ledger') = Len(ledger)
      PROVE  \A v \in Writers : Fine(txn'[v], ActiveId', Len(ledger'), lock', v)
  BY <1>a, <1>1
<1>2. CASE UNCHANGED vars
  <2>1. UNCHANGED <<txn, lock, ledger>>
    BY <1>2 DEF vars
  <2>2. ActiveId' = ActiveId
    BY <2>1, SameLedger
  <2> QED BY <1>1, <2>1, <2>2
<1>3. ASSUME NEW w \in Writers, Load(w)
      PROVE  \A v \in Writers : Fine(txn'[v], ActiveId', Len(ledger'), lock', v)
  <2>1. UNCHANGED <<txn, lock, ledger>>
    BY <1>3 DEF Load
  <2>2. ActiveId' = ActiveId
    BY <2>1, SameLedger
  <2> QED BY <1>1, <2>1, <2>2
<1>4. ASSUME NEW w \in Writers, ledger' = ledger, lock' = lock, lock # w,
             txn' = [txn EXCEPT ![w] = txn'[w]], Fine(txn'[w], ActiveId, Len(ledger), lock, w)
      PROVE  \A v \in Writers : Fine(txn'[v], ActiveId', Len(ledger'), lock', v)
  <2>1. ActiveId' = ActiveId
    BY <1>4, SameLedger
  <2>2. \A v \in Writers : v # w => txn'[v] = txn[v]
    BY <1>4 DEF TypeOK
  <2> QED BY <1>4, <1>a, <2>1, <2>2
<1>5. ASSUME NEW w \in Writers, BeginPublish(w) \/ BeginBackfill(w) \/ BeginCandidate(w)
      PROVE  \A v \in Writers : Fine(txn'[v], ActiveId', Len(ledger'), lock', v)
  <2>1. /\ ledger' = ledger /\ lock' = lock /\ txn[w].pc = "idle"
        /\ txn' = [txn EXCEPT ![w] = txn'[w]]
    BY <1>5 DEF BeginPublish, BeginBackfill, BeginCandidate, TypeOK
  <2>2. lock # w
    BY <2>1, <1>a
  <2>3. Fine(txn'[w], ActiveId, Len(ledger), lock, w)
    <3>1. CASE BeginPublish(w)
      <4>1. txn'[w] = [IdleTxn EXCEPT !.pc = "begun", !.before = ActiveId]
        BY <3>1 DEF BeginPublish, TypeOK
      <4> QED BY <4>1, <2>2 DEF IdleTxn
    <3>2. CASE BeginBackfill(w)
      <4>1. ActiveId # 0 /\ txn'[w] = [IdleTxn EXCEPT !.kind = "backfill", !.pc = "begun",
                                                     !.before = ActiveId]
        BY <3>2 DEF BeginBackfill, TypeOK
      <4> QED BY <4>1, <2>2 DEF IdleTxn
    <3>3. CASE BeginCandidate(w)
      <4>1. txn'[w] = [IdleTxn EXCEPT !.kind = "candidate", !.pc = "scanned"]
        BY <3>3 DEF BeginCandidate, TypeOK
      <4> QED BY <4>1, <2>2 DEF IdleTxn
    <3> QED BY <1>5, <3>1, <3>2, <3>3
  <2> QED BY <1>4, <2>1, <2>2, <2>3
<1>6. ASSUME NEW w \in Writers, Scan(w) \/ ScanFails(w)
      PROVE  \A v \in Writers : Fine(txn'[v], ActiveId', Len(ledger'), lock', v)
  <2>1. /\ ledger' = ledger /\ lock' = lock /\ txn[w].pc = "begun"
        /\ txn' = [txn EXCEPT ![w] = txn'[w]]
    BY <1>6 DEF Scan, ScanFails, TypeOK
  <2>2. lock # w
    BY <2>1, <1>a
  <2>3. /\ txn'[w].pc \in {"idle", "scanned"}
        /\ txn'[w] = IdleTxn \/ (txn'[w].before = txn[w].before /\ txn'[w].kind = txn[w].kind)
    <3>1. CASE Scan(w)
      <4>1. txn'[w] = [txn[w] EXCEPT !.pc = "scanned", !.fp = data.content]
        BY <3>1 DEF Scan, TypeOK
      <4> QED BY <4>1 DEF Txn
    <3>2. CASE ScanFails(w)
      <4>1. CASE txn[w].kind = "backfill"
        BY <3>2, <4>1 DEF ScanFails, TypeOK, IdleTxn
      <4>2. CASE txn[w].kind # "backfill"
        <5>1. txn'[w] = [txn[w] EXCEPT !.pc = "scanned"]
          BY <3>2, <4>2 DEF ScanFails, TypeOK
        <5> QED BY <5>1 DEF Txn
      <4> QED BY <4>1, <4>2
    <3> QED BY <1>6, <3>1, <3>2
  <2>4. Fine(txn'[w], ActiveId, Len(ledger), lock, w)
    BY <1>a, <2>1, <2>2, <2>3 DEF IdleTxn
  <2> QED BY <1>4, <2>1, <2>2, <2>4
<1>7. ASSUME NEW w \in Writers, Decide(w) \/ DecideBackfill(w) \/ Abort(w)
      PROVE  \A v \in Writers : Fine(txn'[v], ActiveId', Len(ledger'), lock', v)
  <2>1. /\ ledger' = ledger /\ ActiveId' = ActiveId
        /\ \A v \in Writers : v # w => txn'[v] = txn[v]
    <3>1. ledger' = ledger
      BY <1>7 DEF Decide, DecideBackfill, Abort
    <3>2. \E t : txn' = [txn EXCEPT ![w] = t]
      <4>1. CASE Decide(w)
        BY <4>1 DEF Decide
      <4>2. CASE DecideBackfill(w)
        BY <4>2 DEF DecideBackfill
      <4>3. CASE Abort(w)
        BY <4>3 DEF Abort
      <4> QED BY <1>7, <4>1, <4>2, <4>3
    <3> QED BY <3>1, <3>2, SameLedger DEF TypeOK
  <2>2. \A v \in Writers : v # w => (lock' = v <=> lock = v)
    BY <1>7 DEF Decide, DecideBackfill, Abort, LockFree
  <2>3. Fine(txn'[w], ActiveId, Len(ledger), lock', w)
    <3>1. CASE Decide(w)
      <4>1. txn'[w] = [txn[w] EXCEPT !.pc = "decided", !.prev = ActiveId, !.fp = Judged(txn[w])]
        BY <3>1 DEF Decide, TypeOK
      <4>2. /\ txn'[w].before = txn[w].before /\ txn'[w].kind = txn[w].kind
            /\ txn'[w].pc = "decided" /\ txn'[w].prev = ActiveId
            /\ txn'[w].fp = Judged(txn[w])
        BY <4>1 DEF Txn
      <4>3. Judged(txn[w]) # NoFp => txn[w].before = ActiveId
        BY DEF Judged
      <4> QED BY <1>a, <3>1, <4>2, <4>3 DEF Decide
    <3>2. CASE DecideBackfill(w)
      <4>1. CASE StillActive(txn[w])
        <5>1. txn'[w] = [txn[w] EXCEPT !.pc = "decided"] /\ lock' = w
          BY <3>2, <4>1 DEF DecideBackfill, TypeOK
        <5>2. /\ txn'[w].before = txn[w].before /\ txn'[w].kind = txn[w].kind
              /\ txn'[w].pc = "decided"
          BY <5>1 DEF Txn
        <5> QED BY <1>a, <3>2, <4>1, <5>1, <5>2 DEF DecideBackfill, StillActive
      <4>2. CASE ~StillActive(txn[w])
        BY <3>2, <4>2 DEF DecideBackfill, IdleTxn, TypeOK, LockFree
      <4> QED BY <4>1, <4>2
    <3>3. CASE Abort(w)
      BY <3>3 DEF Abort, IdleTxn, TypeOK
    <3> QED BY <1>7, <3>1, <3>2, <3>3
  <2> QED BY <1>a, <2>1, <2>2, <2>3
<1>8. ASSUME NEW w \in Writers, Commit(w)
      PROVE  \A v \in Writers : Fine(txn'[v], ActiveId', Len(ledger'), lock', v)
  <2>1. /\ txn[w].pc = "decided" /\ lock = w /\ lock' = NoWriter
        /\ txn' = [txn EXCEPT ![w] = IdleTxn]
    BY <1>8, <1>a DEF Commit
  <2>2. Len(ledger') >= Len(ledger)
    BY <1>8, StepKinds, Published DEF Quiet
  <2>3. \A v \in Writers : v # w => txn'[v] = txn[v] /\ txn[v].pc # "decided"
    BY <2>1, <1>a DEF TypeOK
  <2>4. txn'[w] = IdleTxn
    BY <2>1 DEF TypeOK
  <2> QED BY <1>a, <2>1, <2>2, <2>3, <2>4 DEF IdleTxn
<1>9. ASSUME NEW i \in DOMAIN ledger, DropCandidate(i)
      PROVE  \A v \in Writers : Fine(txn'[v], ActiveId', Len(ledger'), lock', v)
  <2>1. UNCHANGED <<txn, lock>> /\ Len(ledger') = Len(ledger)
    BY <1>9 DEF DropCandidate, TypeOK
  <2> QED BY <1>1, <1>9, <2>1, DropKeepsActive
<1>10. ASSUME NEW r \in Requests,
              \/ UseStamp(r) \/ ReadStamp(r) \/ Hit(r) \/ Compute(r)
              \/ Store(r) \/ SkipStore(r) \/ Forget(r)
       PROVE  \A v \in Writers : Fine(txn'[v], ActiveId', Len(ledger'), lock', v)
  <2>1. UNCHANGED <<ledger, txn, lock>>
    BY <1>10 DEF UseStamp, ReadStamp, Hit, Compute, Store, SkipStore, Forget
  <2>2. ActiveId' = ActiveId
    BY <2>1, SameLedger
  <2> QED BY <1>1, <2>1, <2>2
<1> QED
  BY <1>2, <1>3, <1>5, <1>6, <1>7, <1>8, <1>9, <1>10 DEF Next

\* A fingerprint scanned for the release that is still active is the one of the
\* served data, or somebody else owes a release.
LEMMA ScanStep ==
    ASSUME TypeOK, TypeOK', HeadInv, TxnInv, ScanInv, [Next]_vars
    PROVE  ScanInv'
<1> /\ Len(ledger) \in Nat /\ ActiveId \in 0..Len(ledger)
    /\ \A v \in Writers : txn[v] \in Txn /\ txn'[v] \in Txn
  BY ActiveIsHead DEF TypeOK
<1> DEFINE Good(t, active, c, ow, v) ==
        t.pc \in {"scanned", "decided"} /\ t.fp # NoFp /\ t.before = active
           => t.fp = c \/ \E u \in Writers : u # v /\ ow[u]
<1>a. \A v \in Writers : Good(txn[v], ActiveId, data.content, owes, v)
  BY DEF ScanInv
<1>b. SUFFICES \A v \in Writers : Good(txn'[v], ActiveId', data'.content, owes', v)
  BY DEF ScanInv
<1>1. ASSUME UNCHANGED <<txn, data, owes>>, ActiveId' = ActiveId
      PROVE  \A v \in Writers : Good(txn'[v], ActiveId', data'.content, owes', v)
  BY <1>a, <1>1
<1>2. CASE UNCHANGED vars
  BY <1>1, <1>2, SameLedger DEF vars
<1>3. ASSUME NEW w \in Writers, Load(w)
      PROVE  \A v \in Writers : Good(txn'[v], ActiveId', data'.content, owes', v)
  <2>1. txn' = txn /\ txn[w].pc = "idle" /\ owes'[w]
    BY <1>3 DEF Load, TypeOK
  <2> QED BY <2>1
<1>4. ASSUME NEW w \in Writers, UNCHANGED <<data, owes, ledger>>,
             \E t : txn' = [txn EXCEPT ![w] = t],
             Good(txn'[w], ActiveId, data.content, owes, w)
      PROVE  \A v \in Writers : Good(txn'[v], ActiveId', data'.content, owes', v)
  <2>1. ActiveId' = ActiveId
    BY <1>4, SameLedger
  <2>2. \A v \in Writers : v # w => txn'[v] = txn[v]
    BY <1>4 DEF TypeOK
  <2> QED BY <1>4, <1>a, <2>1, <2>2
<1>5. ASSUME NEW w \in Writers, BeginPublish(w) \/ BeginBackfill(w) \/ BeginCandidate(w)
      PROVE  \A v \in Writers : Good(txn'[v], ActiveId', data'.content, owes', v)
  <2>1. /\ UNCHANGED <<data, owes, ledger>> /\ \E t : txn' = [txn EXCEPT ![w] = t]
        /\ txn'[w].fp = NoFp
    <3>1. \E t : txn' = [txn EXCEPT ![w] = t] /\ t.fp = NoFp
      <4>1. /\ [IdleTxn EXCEPT !.pc = "begun", !.before = ActiveId].fp = NoFp
            /\ [IdleTxn EXCEPT !.kind = "backfill", !.pc = "begun",
                               !.before = ActiveId].fp = NoFp
            /\ [IdleTxn EXCEPT !.kind = "candidate", !.pc = "scanned"].fp = NoFp
        BY DEF IdleTxn
      <4>2. CASE BeginPublish(w)
        BY <4>1, <4>2 DEF BeginPublish
      <4>3. CASE BeginBackfill(w)
        BY <4>1, <4>3 DEF BeginBackfill
      <4>4. CASE BeginCandidate(w)
        BY <4>1, <4>4 DEF BeginCandidate
      <4> QED BY <1>5, <4>2, <4>3, <4>4
    <3>2. UNCHANGED <<data, owes, ledger>>
      BY <1>5 DEF BeginPublish, BeginBackfill, BeginCandidate
    <3> QED BY <3>1, <3>2 DEF TypeOK
  <2> QED BY <1>4, <2>1
<1>6. ASSUME NEW w \in Writers, Scan(w)
      PROVE  \A v \in Writers : Good(txn'[v], ActiveId', data'.content, owes', v)
  <2>1. /\ UNCHANGED <<data, owes, ledger>>
        /\ txn' = [txn EXCEPT ![w] = [txn[w] EXCEPT !.pc = "scanned", !.fp = data.content]]
    BY <1>6 DEF Scan
  <2>2. txn'[w].fp = data.content
    BY <2>1 DEF TypeOK, Txn
  <2> QED BY <1>4, <2>1, <2>2
<1>7. ASSUME NEW w \in Writers, ScanFails(w)
      PROVE  \A v \in Writers : Good(txn'[v], ActiveId', data'.content, owes', v)
  <2>1. UNCHANGED <<data, owes, ledger>> /\ txn[w].fp = NoFp
    BY <1>7 DEF ScanFails, TxnInv
  <2>2. \E t : txn' = [txn EXCEPT ![w] = t] /\ t.fp = NoFp
    <3>1. CASE txn[w].kind = "backfill"
      <4>1. IdleTxn.fp = NoFp
        BY DEF IdleTxn
      <4>2. txn' = [txn EXCEPT ![w] = IdleTxn]
        BY <1>7, <3>1 DEF ScanFails
      <4> QED BY <4>1, <4>2
    <3>2. CASE txn[w].kind # "backfill"
      <4>1. [txn[w] EXCEPT !.pc = "scanned"].fp = NoFp
        BY <2>1 DEF Txn
      <4> QED BY <1>7, <3>2, <4>1 DEF ScanFails
    <3> QED BY <3>1, <3>2
  <2>3. txn'[w].fp = NoFp
    BY <2>2 DEF TypeOK
  <2> QED BY <1>4, <2>1, <2>2, <2>3
<1>8. ASSUME NEW w \in Writers, Decide(w) \/ DecideBackfill(w) \/ Abort(w)
      PROVE  \A v \in Writers : Good(txn'[v], ActiveId', data'.content, owes', v)
  <2>1. UNCHANGED <<data, owes, ledger>>
    BY <1>8 DEF Decide, DecideBackfill, Abort
  <2>2. /\ \E t : txn' = [txn EXCEPT ![w] = t]
        /\ Good(txn'[w], ActiveId, data.content, owes, w)
    <3>1. CASE Decide(w)
      <4>1. txn[w].pc = "scanned"
            /\ txn' = [txn EXCEPT ![w] = [txn[w] EXCEPT !.pc = "decided", !.prev = ActiveId,
                                                      !.fp = Judged(txn[w])]]
        BY <3>1 DEF Decide
      <4>2. txn'[w].before = txn[w].before /\ txn'[w].fp \in {txn[w].fp, NoFp}
        BY <4>1 DEF TypeOK, Txn, Judged
      <4> QED BY <1>a, <4>1, <4>2
    <3>2. CASE DecideBackfill(w) /\ StillActive(txn[w])
      <4>1. txn[w].pc = "scanned"
            /\ txn' = [txn EXCEPT ![w] = [txn[w] EXCEPT !.pc = "decided"]]
        BY <3>2 DEF DecideBackfill
      <4>2. txn'[w].before = txn[w].before /\ txn'[w].fp = txn[w].fp
        BY <4>1 DEF TypeOK, Txn
      <4> QED BY <1>a, <4>1, <4>2
    <3>3. CASE (DecideBackfill(w) /\ ~StillActive(txn[w])) \/ Abort(w)
      <4>1. txn' = [txn EXCEPT ![w] = IdleTxn]
        BY <3>3 DEF DecideBackfill, Abort
      <4>2. txn'[w].fp = NoFp
        BY <4>1 DEF TypeOK, IdleTxn
      <4> QED BY <4>1, <4>2
    <3> QED BY <1>8, <3>1, <3>2, <3>3
  <2> QED BY <1>4, <2>1, <2>2
<1>9. ASSUME NEW w \in Writers, Commit(w)
      PROVE  \A v \in Writers : Good(txn'[v], ActiveId', data'.content, owes', v)
  <2>1. /\ data' = data /\ txn'[w].fp = NoFp
        /\ \A v \in Writers : v # w => txn'[v] = txn[v]
        /\ owes' = [owes EXCEPT ![w] = owes[w] /\ txn[w].kind # "publish"]
    BY <1>9 DEF Commit, IdleTxn, TypeOK
  <2>2. CASE txn[w].kind = "publish"
    <3>1. ActiveId' = Len(ledger) + 1
      BY <1>9, <2>2, PublishActivates
    <3>2. \A v \in Writers : txn[v].before \in 0..Len(ledger)
      BY DEF TxnInv
    <3> QED BY <2>1, <3>1, <3>2
  <2>3. CASE txn[w].kind # "publish"
    <3>1. owes' = owes
      BY <2>1, <2>3 DEF TypeOK
    <3>2. ActiveId' = ActiveId
      BY <1>9, <2>3, OtherCommitKeepsActive
    <3> QED BY <1>a, <2>1, <3>1, <3>2
  <2> QED BY <2>2, <2>3
<1>10. ASSUME NEW i \in DOMAIN ledger, DropCandidate(i)
       PROVE  \A v \in Writers : Good(txn'[v], ActiveId', data'.content, owes', v)
  BY <1>1, <1>10, DropKeepsActive DEF DropCandidate
<1>11. ASSUME NEW r \in Requests,
              \/ UseStamp(r) \/ ReadStamp(r) \/ Hit(r) \/ Compute(r)
              \/ Store(r) \/ SkipStore(r) \/ Forget(r)
       PROVE  \A v \in Writers : Good(txn'[v], ActiveId', data'.content, owes', v)
  <2>1. UNCHANGED <<ledger, txn, data, owes>>
    BY <1>11 DEF UseStamp, ReadStamp, Hit, Compute, Store, SkipStore, Forget
  <2>2. ActiveId' = ActiveId
    BY <2>1, SameLedger
  <2> QED BY <1>1, <2>1, <2>2
<1> QED
  BY <1>2, <1>3, <1>5, <1>6, <1>7, <1>8, <1>9, <1>10, <1>11 DEF Next

--------------------------------------------------------------------------------
\* The token of the active release is honest after every step.
LEMMA HonestStep ==
    ASSUME TypeOK, TypeOK', HeadInv, TxnInv, ScanInv, HonestFingerprint, [Next]_vars
    PROVE  HonestFingerprint'
<1> /\ Len(ledger) \in Nat /\ DOMAIN ledger = 1..Len(ledger) /\ ActiveId \in 0..Len(ledger)
    /\ ActiveId # 0 => ledger[ActiveId].state = "active"
    /\ \A j \in DOMAIN ledger : ledger[j] \in Release
  BY ActiveIsHead DEF TypeOK, IsHead
<1>1. ASSUME UNCHANGED <<ledger, data, owes>>
      PROVE  HonestFingerprint'
  <2>1. ActiveId' = ActiveId
    BY <1>1, SameLedger
  <2> QED BY <1>1, <2>1 DEF HonestFingerprint, NobodyOwes
<1>2. ASSUME NEW w \in Writers, Load(w)
      PROVE  HonestFingerprint'
  <2>1. owes'[w]
    BY <1>2 DEF Load, TypeOK
  <2> QED BY <2>1 DEF HonestFingerprint, NobodyOwes
<1>3. ASSUME NEW i \in DOMAIN ledger, DropCandidate(i)
      PROVE  HonestFingerprint'
  <2>1. /\ ActiveId' = ActiveId /\ data' = data /\ owes' = owes
        /\ ledger' = [ledger EXCEPT ![i] = [ledger[i] EXCEPT !.state = "deleted"]]
        /\ ledger[i].state = "pending"
    BY <1>3, DropKeepsActive DEF DropCandidate
  <2>2. ActiveId # 0 => ledger'[ActiveId].fp = ledger[ActiveId].fp
    BY <2>1
  <2> QED BY <2>1, <2>2 DEF HonestFingerprint, NobodyOwes
<1>4. ASSUME NEW w \in Writers, Commit(w)
      PROVE  HonestFingerprint'
  <2> SUFFICES ASSUME NobodyOwes', ActiveId' # 0
               PROVE  ledger'[ActiveId'].fp \in {data'.content, NoFp}
    BY DEF HonestFingerprint
  <2>0. /\ data' = data /\ txn[w].pc = "decided"
        /\ owes' = [owes EXCEPT ![w] = owes[w] /\ txn[w].kind # "publish"]
        /\ txn[w].kind \in {"publish", "candidate", "backfill"}
    BY <1>4 DEF Commit, TypeOK, Txn
  <2>1. \A v \in Writers : v # w => ~owes[v]
    BY <2>0 DEF NobodyOwes, TypeOK
  <2>2. txn[w].fp \in {data.content, NoFp}
    BY <2>0, <2>1 DEF TxnInv, ScanInv
  <2>3. CASE txn[w].kind = "publish"
    <3>1. ActiveId' = Len(ledger) + 1 /\ ledger'[Len(ledger) + 1] = Row(txn[w], "active")
      BY <1>4, <2>3, Published, PublishActivates
    <3> QED BY <2>0, <2>2, <3>1 DEF Row
  <2>4. CASE txn[w].kind = "candidate"
    <3>1. ActiveId' = ActiveId /\ \A i \in 1..Len(ledger) : ledger'[i] = ledger[i]
      BY <1>4, <2>4, OtherCommitKeepsActive, CommitShape
    <3>2. NobodyOwes
      BY <2>0, <2>1, <2>4 DEF NobodyOwes, TypeOK
    <3> QED BY <2>0, <3>1, <3>2 DEF HonestFingerprint
  <2>5. CASE txn[w].kind = "backfill"
    <3>1. /\ ActiveId' = ActiveId /\ ActiveId \in 1..Len(ledger)
          /\ ledger' = [ledger EXCEPT ![ActiveId].fp = txn[w].fp]
      BY <1>4, <2>5, OtherCommitKeepsActive, CommitShape
    <3>2. ledger'[ActiveId].fp = txn[w].fp
      BY <3>1 DEF Release
    <3> QED BY <2>0, <2>2, <3>1, <3>2
  <2> QED BY <2>0, <2>3, <2>4, <2>5
<1> QED
  BY <1>1, <1>2, <1>3, <1>4 DEF Next, vars, BeginPublish, BeginBackfill, BeginCandidate, Scan,
     ScanFails, Decide, DecideBackfill, Abort, UseStamp, ReadStamp, Hit, Compute, Store,
     SkipStore, Forget

\* What was there when a release was committed is never forgotten.
LEMMA SeqKept ==
    ASSUME TypeOK, TypeOK', HeadInv, TxnInv, [Next]_vars
    PROVE  \A i \in DOMAIN ledger : i \in DOMAIN ledger' /\ ledger'[i].seq = ledger[i].seq
<1>1. CASE Quiet
  BY <1>1 DEF Quiet, TypeOK
<1>2. ASSUME NEW w \in Writers, Commit(w), txn[w].kind = "publish"
      PROVE  \A i \in DOMAIN ledger : i \in DOMAIN ledger' /\ ledger'[i].seq = ledger[i].seq
  BY <1>2, Published
<1> QED BY <1>1, <1>2, StepKinds

\* Rows of the cache and answers stay as new as their release.
LEMMA FreshStep ==
    ASSUME TypeOK, TypeOK', HeadInv, TxnInv, FreshInv, [Next]_vars
    PROVE  FreshInv'
<1> /\ Len(ledger) \in Nat /\ DOMAIN ledger = 1..Len(ledger)
    /\ \A j \in DOMAIN ledger : ledger[j] \in Release /\ ledger[j].seq \in Nat
    /\ data \in Data /\ data.seq \in Nat /\ data'.seq \in Nat
    /\ \A e \in geoCache : e.answer.seq \in Nat
    /\ \A r \in Requests : req[r] \in Req /\ req[r].answer.seq \in Nat
  <2>1. /\ \A x \in Release : x.seq \in Nat
        /\ \A d \in Data : d.seq \in Nat
        /\ \A q \in Req : q.answer \in Data
    BY ServingAssumption DEF Release, Data, Req
  <2> QED BY <2>1 DEF TypeOK
<1>k. \A i \in DOMAIN ledger : i \in DOMAIN ledger' /\ ledger'[i].seq = ledger[i].seq
  BY SeqKept
<1>d. data'.seq >= data.seq
  <2>1. CASE data' = data
    BY <2>1
  <2>2. ASSUME NEW w \in Writers, Load(w)
        PROVE  data'.seq >= data.seq
    BY <2>2 DEF Load, Data
  <2> QED
    BY <2>1, <2>2 DEF Next, vars, BeginPublish, BeginBackfill, BeginCandidate, Scan, ScanFails,
       Decide, DecideBackfill, Commit, Abort, DropCandidate, UseStamp, ReadStamp, Hit, Compute,
       Store, SkipStore, Forget
<1>0. /\ \A i \in DOMAIN ledger : ledger[i].seq <= data.seq
      /\ \A e \in geoCache : e.key \in DOMAIN ledger /\ e.answer.seq >= ledger[e.key].seq
      /\ Stamped(stamp)
      /\ \A r \in Requests : Stamped(req[r].stamp)
      /\ FreshAnswers
  BY DEF FreshInv
\* The rows.
<1>1. \A i \in DOMAIN ledger' : ledger'[i].seq <= data'.seq
  <2>1. CASE DOMAIN ledger' = DOMAIN ledger
    BY <1>0, <1>k, <1>d, <2>1
  <2>2. ASSUME NEW w \in Writers, Commit(w)
        PROVE  \A i \in DOMAIN ledger' : ledger'[i].seq <= data'.seq
    <3>1. CASE txn[w].kind \in {"publish", "candidate"}
      <4>1. /\ Len(ledger') = Len(ledger) + 1 /\ ledger' \in Seq(Release)
            /\ ledger'[Len(ledger) + 1] =
                  Row(txn[w], IF txn[w].kind = "publish" THEN "active" ELSE "pending")
        BY <2>2, <3>1, CommitShape
      <4>2. DOMAIN ledger' = 1..(Len(ledger) + 1)
        BY <4>1
      <4>3. ledger'[Len(ledger) + 1].seq = data.seq
        BY <4>1 DEF Row
      <4> QED BY <1>0, <1>k, <1>d, <4>2, <4>3
    <3>2. CASE txn[w].kind = "backfill"
      <4>1. DOMAIN ledger' = DOMAIN ledger
        BY <2>2, <3>2, CommitShape
      <4> QED BY <2>1, <4>1
    <3> QED BY <3>1, <3>2 DEF TypeOK, Txn
  <2> QED
    BY <2>1, <2>2 DEF Next, vars, Load, BeginPublish, BeginBackfill, BeginCandidate, Scan,
       ScanFails, Decide, DecideBackfill, Abort, DropCandidate, UseStamp, ReadStamp, Hit,
       Compute, Store, SkipStore, Forget
\* The lookups: those that keep their record, and the one that moves.
<1>2. ASSUME NEW q \in Requests, req'[q] = req[q]
      PROVE  /\ req'[q].stamp = NoStamp \/ req'[q].stamp.id \in DOMAIN ledger'
             /\ req'[q].pc \in {"computed", "answered"} /\ req'[q].stamp # NoStamp
                   => req'[q].answer.seq >= ledger'[req'[q].stamp.id].seq
  BY <1>0, <1>k, <1>2 DEF Stamped, FreshAnswers
<1>3. ASSUME UNCHANGED req
      PROVE  (\A r \in Requests : Stamped(req[r].stamp))' /\ FreshAnswers'
  BY <1>2, <1>3 DEF FreshAnswers, Stamped
<1>4. ASSUME NEW r \in Requests,
             \/ UseStamp(r) \/ ReadStamp(r) \/ Hit(r) \/ Compute(r)
             \/ Store(r) \/ SkipStore(r) \/ Forget(r)
      PROVE  FreshInv'
  <2>1. ledger' = ledger /\ data' = data /\ \A q \in Requests : q # r => req'[q] = req[q]
    BY <1>4 DEF UseStamp, ReadStamp, Hit, Compute, Store, SkipStore, Forget, TypeOK
  <2>2. Stamped(ActiveStamp) /\ Stamped(NoStamp)
    BY ActiveIsHead DEF Stamped, ActiveStamp, IsHead
  <2>3. Stamped(stamp)'
    <3>1. stamp' \in {stamp, ActiveStamp, NoStamp}
      BY <1>4 DEF UseStamp, ReadStamp, Hit, Compute, Store, SkipStore, Forget
    <3>2. stamp' = NoStamp \/ stamp'.id \in DOMAIN ledger
      BY <1>0, <2>2, <3>1 DEF Stamped
    <3> QED BY <2>1, <3>2 DEF Stamped
  <2>4. \A e \in geoCache' : e.key \in DOMAIN ledger' /\ e.answer.seq >= ledger'[e.key].seq
    <3>1. CASE geoCache' = geoCache
      BY <1>0, <2>1, <3>1
    <3>2. CASE Store(r)
      <4>1. \A e \in geoCache' : \/ e \in geoCache
                                 \/ e = [key |-> req[r].stamp.id, answer |-> req[r].answer]
        BY <3>2 DEF Store, CacheKey
      <4>2. /\ req[r].stamp.id \in DOMAIN ledger
            /\ req[r].answer.seq >= ledger[req[r].stamp.id].seq
        BY <1>0, <3>2 DEF Store, Stamped, FreshAnswers
      <4> QED BY <1>0, <2>1, <4>1, <4>2
    <3> QED BY <1>4, <3>1, <3>2 DEF UseStamp, ReadStamp, Hit, Compute, SkipStore, Forget
  <2>5. /\ Stamped(req'[r].stamp)
        /\ req'[r].pc \in {"computed", "answered"} /\ req'[r].stamp # NoStamp
              => req'[r].answer.seq >= ledger[req'[r].stamp.id].seq
    <3>1. CASE UseStamp(r) \/ ReadStamp(r)
      <4>1. PICK s \in {stamp, ActiveStamp, NoStamp} :
              req' = [req EXCEPT ![r] = [req[r] EXCEPT !.pc = "stamped", !.stamp = s]]
        BY <3>1 DEF UseStamp, ReadStamp
      <4>2. req'[r].pc = "stamped" /\ req'[r].stamp = s
        BY <4>1 DEF TypeOK, Req
      <4> QED BY <1>0, <2>2, <4>2
    <3>2. CASE Hit(r)
      <4>1. PICK e \in geoCache :
              /\ e.key = req[r].stamp.id
              /\ req' = [req EXCEPT ![r] = [req[r] EXCEPT !.pc = "answered", !.answer = e.answer]]
        BY <3>2 DEF Hit, CacheKey
      <4>2. req'[r].stamp = req[r].stamp /\ req'[r].answer = e.answer
        BY <4>1 DEF TypeOK, Req
      <4> QED BY <1>0, <4>1, <4>2
    <3>3. CASE Compute(r)
      <4>1. req' = [req EXCEPT ![r] = [req[r] EXCEPT !.pc = "computed", !.answer = data]]
        BY <3>3 DEF Compute
      <4>2. req'[r].stamp = req[r].stamp /\ req'[r].answer = data
        BY <4>1 DEF TypeOK, Req
      <4> QED BY <1>0, <4>2 DEF Stamped
    <3>4. CASE Store(r) \/ SkipStore(r)
      <4>1. /\ req' = [req EXCEPT ![r] = [req[r] EXCEPT !.pc = "answered"]]
            /\ req[r].pc = "computed"
        BY <3>4 DEF Store, SkipStore
      <4>2. req'[r].stamp = req[r].stamp /\ req'[r].answer = req[r].answer
        BY <4>1 DEF TypeOK, Req
      <4> QED BY <1>0, <4>1, <4>2 DEF FreshAnswers
    <3>5. CASE Forget(r)
      <4>1. req' = [req EXCEPT ![r] = [req[r] EXCEPT !.pc = "idle", !.stamp = NoStamp]]
        BY <3>5 DEF Forget
      <4>2. req'[r].pc = "idle" /\ req'[r].stamp = NoStamp
        BY <4>1 DEF TypeOK, Req
      <4> QED BY <2>2, <4>2
    <3> QED BY <1>4, <3>1, <3>2, <3>3, <3>4, <3>5
  <2>6. \A q \in Requests : /\ Stamped(req'[q].stamp)
                            /\ req'[q].pc \in {"computed", "answered"} /\ req'[q].stamp # NoStamp
                                  => req'[q].answer.seq >= ledger[req'[q].stamp.id].seq
    BY <1>0, <2>1, <2>5 DEF FreshAnswers
  <2> QED BY <1>1, <2>1, <2>3, <2>4, <2>6 DEF FreshInv, FreshAnswers, Stamped
<1>5. ASSUME UNCHANGED <<req, stamp>>, geoCache' \subseteq geoCache
      PROVE  FreshInv'
  <2>1. \A e \in geoCache' : e.key \in DOMAIN ledger' /\ e.answer.seq >= ledger'[e.key].seq
    BY <1>0, <1>k, <1>5
  <2>2. Stamped(stamp)'
    BY <1>0, <1>k, <1>5 DEF Stamped
  <2> QED BY <1>1, <1>3, <1>5, <2>1, <2>2 DEF FreshInv
<1> QED
  BY <1>4, <1>5 DEF Next, vars, Load, BeginPublish, BeginBackfill, BeginCandidate, Scan,
     ScanFails, Decide, DecideBackfill, Commit, Abort, DropCandidate

--------------------------------------------------------------------------------
\* The invariant is inductive.
LEMMA InvInit ==
    ASSUME Init
    PROVE  IInv
<1> /\ ledger = <<>> /\ Len(ledger) = 0 /\ DOMAIN ledger = {}
    /\ data \in Data /\ NoStamp \in Stamp /\ IdleTxn \in Txn
    /\ IdleTxn.before = 0 /\ IdleTxn.kind = "publish" /\ IdleTxn.pc = "idle"
    /\ IdleTxn.fp = NoFp
  BY DEF Init, IdleTxn, Txn, NoStamp, Stamp, Token
<1>1. TypeOK
  BY ServingAssumption DEF Init, TypeOK, Req
<1>2. HeadInv /\ LinearLineage
  BY DEF HeadInv, LinearLineage
<1>3. ActiveId = 0
  BY DEF ActiveId, ActiveIds
<1>4. TxnInv /\ ScanInv
  BY ServingAssumption DEF Init, TxnInv, ScanInv
<1>5. HonestFingerprint
  BY <1>3 DEF HonestFingerprint
<1>6. FreshInv
  BY DEF Init, FreshInv, Stamped, FreshAnswers
<1> QED BY <1>1, <1>2, <1>4, <1>5, <1>6 DEF IInv

LEMMA InvStep ==
    ASSUME IInv, [Next]_vars
    PROVE  IInv'
<1>1. TypeOK'
  BY TypeStep DEF IInv
<1>2. HeadInv' /\ LinearLineage'
  <2>1. CASE Quiet
    BY <1>1, <2>1, QuietStep DEF IInv
  <2>2. ASSUME NEW w \in Writers, Commit(w), txn[w].kind = "publish"
        PROVE  HeadInv' /\ LinearLineage'
    BY <1>1, <2>2, PublishStep DEF IInv
  <2> QED BY <2>1, <2>2, StepKinds DEF IInv
<1>3. TxnInv'
  BY <1>1, TxnStep DEF IInv
<1>4. ScanInv'
  BY <1>1, ScanStep DEF IInv
<1>5. HonestFingerprint'
  BY <1>1, HonestStep DEF IInv
<1>6. FreshInv'
  BY <1>1, FreshStep DEF IInv
<1> QED BY <1>1, <1>2, <1>3, <1>4, <1>5, <1>6 DEF IInv

\* In every behaviour: the inductive invariant of the ledger, of its
\* transactions and of the cache.
THEOREM ServingInductive == Spec => []IInv
<1>1. Init => IInv
  BY InvInit
<1>2. IInv /\ [Next]_vars => IInv'
  BY InvStep
<1> QED BY <1>1, <1>2, PTL DEF Spec

\* The state is always well typed.
THEOREM ServingTypeCorrect == Spec => []TypeOK
<1>1. IInv => TypeOK
  BY DEF IInv
<1> QED BY <1>1, ServingInductive, PTL

\* The scan before the lock and the check under it never leave the token of
\* other data on the active release.
THEOREM HonestFingerprintHolds == Spec => []HonestFingerprint
<1>1. IInv => HonestFingerprint
  BY DEF IInv
<1> QED BY <1>1, ServingInductive, PTL

\* Racing activations, restore candidates and dropped candidates leave one chain.
THEOREM LinearLineageHolds == Spec => []LinearLineage
<1>1. IInv => LinearLineage
  BY DEF IInv
<1> QED BY <1>1, ServingInductive, PTL

\* No answer is older than the release it is labelled with.
THEOREM FreshAnswersHold == Spec => []FreshAnswers
<1>1. IInv => FreshAnswers
  BY DEF IInv, FreshInv
<1> QED BY <1>1, ServingInductive, PTL

\* A step changes no fingerprint but that of the active release.
THEOREM HistoryIsFixedHolds == Spec => HistoryIsFixed
<1> DEFINE Fixed == \A i \in DOMAIN ledger :
                       /\ i \in DOMAIN ledger'
                       /\ ledger'[i].fp # ledger[i].fp => ledger[i].state = "active"
<1>1. ASSUME IInv, [Next]_vars
      PROVE  Fixed
  <2> /\ Len(ledger) \in Nat /\ DOMAIN ledger = 1..Len(ledger)
      /\ ActiveId # 0 => ledger[ActiveId].state = "active"
      /\ \A j \in DOMAIN ledger : ledger[j] \in Release
      /\ TypeOK /\ HeadInv /\ TxnInv
    BY <1>1, ActiveIsHead DEF IInv, TypeOK, IsHead
  <2>1. CASE ledger' = ledger
    BY <2>1
  <2>2. ASSUME NEW i \in DOMAIN ledger, DropCandidate(i)
        PROVE  Fixed
    <3>1. ledger' = [ledger EXCEPT ![i] = [ledger[i] EXCEPT !.state = "deleted"]]
      BY <2>2 DEF DropCandidate
    <3>2. [ledger[i] EXCEPT !.state = "deleted"].fp = ledger[i].fp
      BY DEF Release
    <3> QED BY <3>1, <3>2
  <2>3. ASSUME NEW w \in Writers, Commit(w)
        PROVE  Fixed
    <3>1. CASE txn[w].kind = "publish"
      BY <2>3, <3>1, Published
    <3>2. CASE txn[w].kind = "candidate"
      <4>1. /\ ledger' \in Seq(Release) /\ Len(ledger') = Len(ledger) + 1
            /\ \A i \in 1..Len(ledger) : ledger'[i] = ledger[i]
        BY <2>3, <3>2, CommitShape
      <4> QED BY <4>1
    <3>3. CASE txn[w].kind = "backfill"
      <4>1. /\ ActiveId \in 1..Len(ledger)
            /\ ledger' = [ledger EXCEPT ![ActiveId].fp = txn[w].fp]
        BY <2>3, <3>3, CommitShape
      <4> QED BY <4>1
    <3> QED BY <3>1, <3>2, <3>3 DEF TypeOK, Txn
  <2> QED
    BY <1>1, <2>1, <2>2, <2>3 DEF Next, vars, Load, BeginPublish, BeginBackfill, BeginCandidate,
       Scan, ScanFails, Decide, DecideBackfill, Abort, UseStamp, ReadStamp, Hit, Compute,
       Store, SkipStore, Forget
<1>2. IInv /\ [Next]_vars => [Fixed]_vars
  BY <1>1
<1> QED BY <1>2, ServingInductive, PTL DEF Spec, HistoryIsFixed
--------------------------------------------------------------------------------
(* The ledger implements the chain that consumers are promised.            *)

\* Labels are ids that have been active, and nothing is newer than the data.
Known(s) == s = NoStamp \/ (s.id \in DOMAIN ledger /\ Activated(s.id))

ConsumerInv ==
    /\ Known(stamp)
    /\ \A r \in Requests : Known(req[r].stamp) /\ req[r].answer.seq <= data.seq
    /\ \A e \in geoCache : e.answer.seq <= data.seq

CInv == IInv /\ ConsumerInv

LEMMA ConsumerInit == Init => ConsumerInv
<1> SUFFICES ASSUME Init PROVE ConsumerInv
  OBVIOUS
<1>1. data.seq = 0 /\ geoCache = {} /\ stamp = NoStamp
  BY DEF Init
<1>2. \A r \in Requests : req[r].stamp = NoStamp /\ req[r].answer = data
  BY DEF Init
<1> QED BY <1>1, <1>2 DEF ConsumerInv, Known

\* What has been active stays in the chain.
LEMMA ActivatedKept ==
    ASSUME IInv, IInv', [Next]_vars
    PROVE  \A i \in DOMAIN ledger : Activated(i) => i \in DOMAIN ledger' /\ Activated(i)'
<1> TypeOK /\ TypeOK' /\ HeadInv /\ TxnInv
  BY DEF IInv
<1>1. CASE Quiet
  BY <1>1, SeqKept DEF Quiet
<1>2. ASSUME NEW w \in Writers, Commit(w), txn[w].kind = "publish"
      PROVE  \A i \in DOMAIN ledger : Activated(i) => i \in DOMAIN ledger' /\ Activated(i)'
  BY <1>2, Published
<1> QED BY <1>1, <1>2, StepKinds

LEMMA ConsumerStep ==
    ASSUME CInv, IInv', [Next]_vars
    PROVE  ConsumerInv'
<1> /\ TypeOK /\ HeadInv
    /\ data.seq \in Nat /\ data \in Data
    /\ \A e \in geoCache : e.answer.seq \in Nat
    /\ \A r \in Requests : req[r] \in Req /\ req[r].answer.seq \in Nat
  <2>1. /\ \A d \in Data : d.seq \in Nat
        /\ \A q \in Req : q.answer \in Data
    BY ServingAssumption DEF Data, Req
  <2> QED BY <2>1 DEF CInv, IInv, TypeOK
<1>k. \A s : Known(s) => Known(s)'
  BY ActivatedKept DEF CInv, Known
<1>0. /\ Known(stamp)
      /\ \A r \in Requests : Known(req[r].stamp) /\ req[r].answer.seq <= data.seq
      /\ \A e \in geoCache : e.answer.seq <= data.seq
  BY DEF CInv, ConsumerInv
<1>a. Known(ActiveStamp) /\ Known(NoStamp)
  BY ActiveIsHead DEF Known, ActiveStamp, IsHead, Activated
<1>1. ASSUME NEW w \in Writers, Load(w) PROVE ConsumerInv'
  <2>1. data'.seq = data.seq + 1 /\ UNCHANGED <<geoCache, stamp, req>>
    BY <1>1 DEF Load
  <2>2. \A r \in Requests : Known(req[r].stamp)' /\ req[r].answer.seq <= data'.seq
    BY <1>0, <1>k, <2>1
  <2> QED BY <1>0, <1>k, <2>1, <2>2 DEF ConsumerInv, Known
<1>2. ASSUME NEW r \in Requests,
             \/ UseStamp(r) \/ ReadStamp(r) \/ Hit(r) \/ Compute(r)
             \/ Store(r) \/ SkipStore(r) \/ Forget(r)
      PROVE  ConsumerInv'
  <2>1. /\ ledger' = ledger /\ data' = data
        /\ \A q \in Requests : q # r => req'[q] = req[q]
    BY <1>2 DEF UseStamp, ReadStamp, Hit, Compute, Store, SkipStore, Forget, TypeOK
  <2>2. Known(stamp')
    <3>1. stamp' \in {stamp, ActiveStamp, NoStamp}
      BY <1>2 DEF UseStamp, ReadStamp, Hit, Compute, Store, SkipStore, Forget
    <3> QED BY <1>0, <1>a, <3>1
  <2>3. \A e \in geoCache' : e.answer.seq <= data.seq
    <3>1. CASE geoCache' = geoCache
      BY <1>0, <3>1
    <3>2. CASE Store(r)
      <4>1. \A e \in geoCache' : \/ e \in geoCache
                                 \/ e = [key |-> req[r].stamp.id, answer |-> req[r].answer]
        BY <3>2 DEF Store, CacheKey
      <4> QED BY <1>0, <4>1
    <3> QED BY <1>2, <3>1, <3>2 DEF UseStamp, ReadStamp, Hit, Compute, SkipStore, Forget
  <2>4. Known(req'[r].stamp) /\ req'[r].answer.seq <= data.seq
    <3>1. CASE UseStamp(r) \/ ReadStamp(r)
      <4>1. PICK s \in {stamp, ActiveStamp, NoStamp} :
              req' = [req EXCEPT ![r] = [req[r] EXCEPT !.pc = "stamped", !.stamp = s]]
        BY <3>1 DEF UseStamp, ReadStamp
      <4>2. req'[r].answer = req[r].answer /\ req'[r].stamp = s
        BY <4>1 DEF TypeOK, Req
      <4> QED BY <1>0, <1>a, <4>2
    <3>2. CASE Hit(r)
      <4>1. PICK e \in geoCache :
              req' = [req EXCEPT ![r] = [req[r] EXCEPT !.pc = "answered", !.answer = e.answer]]
        BY <3>2 DEF Hit
      <4>2. req'[r].stamp = req[r].stamp /\ req'[r].answer = e.answer
        BY <4>1 DEF TypeOK, Req
      <4> QED BY <1>0, <4>1, <4>2
    <3>3. CASE Compute(r)
      <4>1. req' = [req EXCEPT ![r] = [req[r] EXCEPT !.pc = "computed", !.answer = data]]
        BY <3>3 DEF Compute
      <4>2. req'[r].stamp = req[r].stamp /\ req'[r].answer = data
        BY <4>1 DEF TypeOK, Req
      <4> QED BY <1>0, <4>2
    <3>4. CASE Store(r) \/ SkipStore(r)
      <4>1. req' = [req EXCEPT ![r] = [req[r] EXCEPT !.pc = "answered"]]
        BY <3>4 DEF Store, SkipStore
      <4>2. req'[r].stamp = req[r].stamp /\ req'[r].answer = req[r].answer
        BY <4>1 DEF TypeOK, Req
      <4> QED BY <1>0, <4>2
    <3>5. CASE Forget(r)
      <4>1. req' = [req EXCEPT ![r] = [req[r] EXCEPT !.pc = "idle", !.stamp = NoStamp]]
        BY <3>5 DEF Forget
      <4>2. req'[r].answer = req[r].answer /\ req'[r].stamp = NoStamp
        BY <4>1 DEF TypeOK, Req
      <4> QED BY <1>0, <1>a, <4>2
    <3> QED BY <1>2, <3>1, <3>2, <3>3, <3>4, <3>5
  <2>5. \A q \in Requests : Known(req'[q].stamp) /\ req'[q].answer.seq <= data.seq
    BY <1>0, <2>1, <2>4
  <2> QED BY <2>1, <2>2, <2>3, <2>5 DEF ConsumerInv, Known, Activated
<1>3. ASSUME UNCHANGED <<data, stamp, req>>, geoCache' \subseteq geoCache
      PROVE  ConsumerInv'
  <2>1. \A r \in Requests : Known(req[r].stamp)'
    BY <1>0, <1>k, <1>3 DEF Known
  <2> QED BY <1>0, <1>k, <1>3, <2>1 DEF ConsumerInv, Known
<1> QED
  BY <1>1, <1>2, <1>3 DEF Next, vars, BeginPublish, BeginBackfill, BeginCandidate, Scan,
     ScanFails, Decide, DecideBackfill, Commit, Abort, DropCandidate

--------------------------------------------------------------------------------
\* The newest release of the chain is the active one.
LEMMA NewestIsActive ==
    ASSUME TypeOK, HeadInv
    PROVE  /\ Chain!Newest = ActiveId
           /\ DOMAIN Served = {} <=> ActiveId = 0
           /\ ActiveId # 0 => ActiveId \in DOMAIN Served
           /\ \A j \in DOMAIN Served : j <= ActiveId /\ j \in DOMAIN ledger
<1> /\ DOMAIN ledger = 1..Len(ledger) /\ Len(ledger) \in Nat
    /\ DOMAIN Served = {j \in DOMAIN ledger : Activated(j)}
  BY DEF TypeOK, Served
<1>1. CASE ActiveId = 0
  <2>1. DOMAIN Served = {}
    BY <1>1, ActiveIsHead
  <2> QED BY <1>1, <2>1 DEF Chain!Newest
<1>2. CASE ActiveId # 0
  <2>1. ActiveId \in DOMAIN Served /\ ActiveId \in Nat
    BY <1>2, ActiveIsHead DEF IsHead, Activated
  <2>2. \A j \in DOMAIN Served : j <= ActiveId
    BY <1>2, ActiveIsHead DEF IsHead
  <2>3. \A i \in DOMAIN Served : (\A j \in DOMAIN Served : j <= i) => i = ActiveId
    BY <2>1, <2>2
  <2>4. Chain!Newest = ActiveId
    BY <2>1, <2>2, <2>3 DEF Chain!Newest
  <2> QED BY <1>2, <2>1, <2>2, <2>4
<1> QED BY <1>1, <1>2

\* Rows of which the consumers see nothing leave the chain as it is.
LEMMA ServedKept ==
    ASSUME TypeOK, TypeOK', DOMAIN ledger \subseteq DOMAIN ledger',
           \A i \in DOMAIN ledger : /\ Activated(i)' <=> Activated(i)
                                    /\ ledger'[i].prev = ledger[i].prev
                                    /\ ledger'[i].fp = ledger[i].fp
                                    /\ ledger'[i].seq = ledger[i].seq,
           \A i \in DOMAIN ledger' \ DOMAIN ledger : ~Activated(i)'
    PROVE  Served' = Served
<1>1. {j \in DOMAIN ledger : Activated(j)}' = {j \in DOMAIN ledger : Activated(j)}
  OBVIOUS
<1>2. \A i \in {j \in DOMAIN ledger : Activated(j)} :
         [prev |-> ledger[i].prev, fp |-> ledger[i].fp, seq |-> ledger[i].seq]'
            = [prev |-> ledger[i].prev, fp |-> ledger[i].fp, seq |-> ledger[i].seq]
  OBVIOUS
<1> QED BY <1>1, <1>2 DEF Served

\* A publication adds one release to the chain.
LEMMA PublishMaps ==
    ASSUME IInv, IInv', NEW w \in Writers, Commit(w), txn[w].kind = "publish"
    PROVE  Chain!Publish(Len(ledger) + 1) /\ Len(ledger) + 1 \in Ids
<1> PICK n \in Nat : n = Len(ledger) + 1
  BY DEF IInv, TypeOK
<1>1. /\ DOMAIN ledger = 1..(n - 1) /\ DOMAIN ledger' = 1..n
      /\ ledger'[n] = Row(txn[w], "active") /\ txn[w].prev = ActiveId
      /\ \A i \in 1..(n - 1) : /\ Activated(i)' <=> Activated(i)
                               /\ ledger'[i].prev = ledger[i].prev
                               /\ ledger'[i].seq = ledger[i].seq
                               /\ ledger'[i].fp = ledger[i].fp
  BY Published DEF IInv
<1>2. n \in Ids
  BY <1>1 DEF IInv, TypeOK, Ids
<1>3. Activated(n)'
  BY <1>1 DEF Activated, Row
<1>4. DOMAIN Served' = DOMAIN Served \cup {n}
  BY <1>1, <1>3 DEF Served
<1>5. \A j \in DOMAIN Served : j < n /\ j \in 1..(n - 1) /\ Activated(j)
  BY <1>1 DEF Served
<1>6. Served'[n] = [prev |-> Chain!Newest, fp |-> txn[w].fp, seq |-> data.seq]
  BY <1>1, <1>3, NewestIsActive DEF IInv, Served, Row
<1>7. \A j \in DOMAIN Served : Served'[j] = Served[j]
  BY <1>1, <1>5 DEF Served
<1>8. Served' = [j \in DOMAIN Served \cup {n} |->
          IF j = n THEN [prev |-> Chain!Newest, fp |-> txn[w].fp, seq |-> data.seq]
          ELSE Served[j]]
  <2>1. Served' = [j \in DOMAIN Served' |-> Served'[j]]
    BY DEF Served
  <2> QED BY <1>4, <1>5, <1>6, <1>7, <2>1
<1>9. txn[w].fp \in Token
  BY DEF IInv, TypeOK, Txn
<1>10. UNCHANGED <<data.seq, Answers>>
  BY DEF Commit, Answers, Labelled
<1> QED BY <1>2, <1>5, <1>8, <1>9, <1>10 DEF Chain!Publish

\* A backfill is a late token of the newest release.
LEMMA BackfillMaps ==
    ASSUME IInv, IInv', NEW w \in Writers, Commit(w), txn[w].kind = "backfill"
    PROVE  Chain!Fingerprint
<1>1. /\ ActiveId \in 1..Len(ledger) /\ ledger' = [ledger EXCEPT ![ActiveId].fp = txn[w].fp]
      /\ DOMAIN ledger = 1..Len(ledger) /\ \A i \in DOMAIN ledger : ledger[i] \in Release
  BY CommitShape DEF IInv, TypeOK
<1>2. /\ DOMAIN ledger' = DOMAIN ledger
      /\ \A i \in DOMAIN ledger : /\ ledger'[i].state = ledger[i].state
                                  /\ ledger'[i].prev = ledger[i].prev
                                  /\ ledger'[i].seq = ledger[i].seq
                                  /\ ledger'[i].fp = IF i = ActiveId THEN txn[w].fp
                                                     ELSE ledger[i].fp
  BY <1>1 DEF Release
<1>3. /\ DOMAIN Served' = DOMAIN Served /\ ActiveId \in DOMAIN Served
      /\ Chain!Newest = ActiveId
  BY <1>1, <1>2, NewestIsActive DEF IInv, Served, Activated
<1>4. \A i \in DOMAIN Served : /\ Served[i] = [prev |-> ledger[i].prev, fp |-> ledger[i].fp,
                                               seq |-> ledger[i].seq]
                               /\ i \in DOMAIN ledger
  BY DEF Served
<1>5. \A i \in DOMAIN Served : Served'[i] = [prev |-> ledger'[i].prev, fp |-> ledger'[i].fp,
                                             seq |-> ledger'[i].seq]
  BY <1>3 DEF Served
<1>6. \A i \in DOMAIN Served :
         Served'[i] = IF i = ActiveId THEN [Served[i] EXCEPT !.fp = txn[w].fp] ELSE Served[i]
  <2> SUFFICES ASSUME NEW i \in DOMAIN Served
               PROVE  Served'[i] = IF i = ActiveId THEN [Served[i] EXCEPT !.fp = txn[w].fp]
                                   ELSE Served[i]
    OBVIOUS
  <2>1. /\ Served[i] = [prev |-> ledger[i].prev, fp |-> ledger[i].fp, seq |-> ledger[i].seq]
        /\ Served'[i] = [prev |-> ledger[i].prev, fp |-> ledger'[i].fp, seq |-> ledger[i].seq]
        /\ ledger'[i].fp = IF i = ActiveId THEN txn[w].fp ELSE ledger[i].fp
    BY <1>2, <1>4, <1>5
  <2> QED BY <2>1
<1>7. Served' = [Served EXCEPT ![ActiveId].fp = txn[w].fp]
  <2>1. /\ Served = [i \in DOMAIN Served |-> Served[i]]
        /\ Served' = [i \in DOMAIN Served' |-> Served'[i]]
    BY DEF Served
  <2> QED BY <1>3, <1>6, <2>1
<1>8. txn[w].fp \in Token
  BY DEF IInv, TypeOK, Txn
<1>9. UNCHANGED <<data.seq, Answers>>
  BY DEF Commit, Answers, Labelled
<1> QED BY <1>3, <1>7, <1>8, <1>9 DEF Chain!Fingerprint

\* What a lookup gives its client is an answer of the chain, or no answer yet.
LEMMA LookupMaps ==
    ASSUME CInv, NEW r \in Requests,
           \/ UseStamp(r) \/ ReadStamp(r) \/ Hit(r) \/ Compute(r)
           \/ Store(r) \/ SkipStore(r) \/ Forget(r)
    PROVE  \/ UNCHANGED Chain!vars
           \/ Chain!Forget(r)
           \/ \E i \in DOMAIN Served : Chain!Answer(r, i)
<1>1. /\ TypeOK /\ req[r] \in Req /\ UNCHANGED <<ledger, data>>
      /\ \A q \in Requests \ {r} : req'[q] = req[q]
  BY DEF CInv, IInv, TypeOK, UseStamp, ReadStamp, Hit, Compute, Store, SkipStore, Forget
<1>2. Served' = Served /\ data'.seq = data.seq
  BY <1>1 DEF Served, Activated
<1>3. \A q \in Requests \ {r} : Answers'[q] = Answers[q]
  BY <1>1 DEF Answers, Labelled
<1>4. ASSUME Answers'[r] = Answers[r] PROVE UNCHANGED Chain!vars
  <2>1. Answers' = Answers
    BY <1>3, <1>4 DEF Answers
  <2> QED BY <1>2, <2>1 DEF Chain!vars
<1>5. CASE UseStamp(r) \/ ReadStamp(r) \/ Compute(r)
  <2>1. req[r].pc # "answered" /\ req'[r].pc # "answered"
    <3>1. CASE UseStamp(r) \/ ReadStamp(r)
      <4>1. PICK s :
              /\ req' = [req EXCEPT ![r] = [req[r] EXCEPT !.pc = "stamped", !.stamp = s]]
              /\ req[r].pc = "idle"
        BY <3>1 DEF UseStamp, ReadStamp
      <4> QED BY <1>1, <4>1 DEF TypeOK, Req
    <3>2. CASE Compute(r)
      <4>1. /\ req' = [req EXCEPT ![r] = [req[r] EXCEPT !.pc = "computed", !.answer = data]]
            /\ req[r].pc = "stamped"
        BY <3>2 DEF Compute
      <4> QED BY <1>1, <4>1 DEF TypeOK, Req
    <3> QED BY <1>5, <3>1, <3>2
  <2>2. ~Labelled(r) /\ ~Labelled(r)'
    BY <2>1 DEF Labelled
  <2>3. Answers'[r] = Chain!NoAnswer /\ Answers[r] = Chain!NoAnswer
    BY <2>2 DEF Answers, Chain!NoAnswer
  <2> QED BY <1>4, <2>3
<1>6. CASE Forget(r)
  <2>1. req'[r].pc = "idle"
    BY <1>1, <1>6 DEF Forget, TypeOK, Req
  <2>2. Answers'[r] = Chain!NoAnswer
    BY <2>1 DEF Answers, Labelled, Chain!NoAnswer
  <2>3. Answers' = [Answers EXCEPT ![r] = Chain!NoAnswer]
    BY <1>3, <2>2 DEF Answers
  <2> QED BY <1>2, <2>3 DEF Chain!Forget
<1>7. CASE Hit(r) \/ Store(r) \/ SkipStore(r)
  <2>1. PICK a \in Data :
           /\ req[r].pc # "answered" /\ req'[r].pc = "answered"
           /\ req'[r].stamp = req[r].stamp /\ req'[r].answer = a
           /\ a.seq <= data.seq
           /\ req[r].stamp # NoStamp => a.seq >= ledger[req[r].stamp.id].seq
    <3>1. CASE Hit(r)
      <4>1. PICK e \in geoCache :
              /\ e.key = req[r].stamp.id
              /\ req' = [req EXCEPT ![r] = [req[r] EXCEPT !.pc = "answered", !.answer = e.answer]]
        BY <3>1 DEF Hit, CacheKey
      <4>2. e.answer \in Data /\ e.answer.seq <= data.seq /\ e.answer.seq >= ledger[e.key].seq
        BY <1>1 DEF TypeOK, CInv, IInv, ConsumerInv, FreshInv
      <4>3. req[r].pc = "stamped"
        BY <3>1 DEF Hit
      <4> QED BY <1>1, <4>1, <4>2, <4>3 DEF TypeOK, Req
    <3>2. CASE Store(r) \/ SkipStore(r)
      <4>1. /\ req' = [req EXCEPT ![r] = [req[r] EXCEPT !.pc = "answered"]]
            /\ req[r].pc = "computed"
        BY <3>2 DEF Store, SkipStore
      <4>2. /\ req[r].answer \in Data /\ req[r].answer.seq <= data.seq
            /\ req[r].stamp # NoStamp => req[r].answer.seq >= ledger[req[r].stamp.id].seq
        BY <1>1, <4>1 DEF Req, CInv, IInv, ConsumerInv, FreshInv, FreshAnswers
      <4> QED BY <1>1, <4>1, <4>2 DEF TypeOK, Req
    <3> QED BY <1>7, <3>1, <3>2
  <2>2. CASE req[r].stamp = NoStamp
    BY <1>4, <2>1, <2>2 DEF Answers, Labelled
  <2>3. CASE req[r].stamp # NoStamp
    <3> PICK i, v : i = req[r].stamp.id /\ v = a.seq
      OBVIOUS
    <3>1. i \in DOMAIN ledger /\ Activated(i)
      BY <2>3 DEF CInv, ConsumerInv, Known
    <3>2. i \in DOMAIN Served /\ Served[i].seq = ledger[i].seq
      BY <3>1 DEF Served
    <3>3. v \in Served[i].seq..data.seq
      <4>1. ledger[i].seq \in Nat /\ data.seq \in Nat /\ v \in Nat
        <5>1. ledger[i] \in Release /\ data \in Data
          BY <1>1, <3>1 DEF TypeOK
        <5>2. /\ \A x \in Release : x.seq \in Nat
              /\ \A d \in Data : d.seq \in Nat
          BY ServingAssumption DEF Release, Data
        <5> QED BY <5>1, <5>2
      <4> QED BY <2>1, <2>3, <3>2, <4>1
    <3>4. Answers[r] = Chain!NoAnswer
      BY <2>1 DEF Answers, Labelled, Chain!NoAnswer
    <3>5. Answers'[r] = [id |-> i, seq |-> v]
      BY <2>1, <2>3 DEF Answers, Labelled
    <3>6. Answers' = [Answers EXCEPT ![r] = [id |-> i, seq |-> v]]
      BY <1>3, <3>5 DEF Answers
    <3> QED BY <1>2, <3>2, <3>3, <3>4, <3>6 DEF Chain!Answer
  <2> QED BY <2>2, <2>3
<1> QED BY <1>5, <1>6, <1>7

\* Every step is a step of the chain or none.
LEMMA ChainStep ==
    ASSUME CInv, IInv', [Next]_vars
    PROVE  [Chain!Next]_(Chain!vars)
<1> TypeOK /\ TypeOK' /\ HeadInv /\ TxnInv
  BY DEF CInv, IInv
<1>1. ASSUME UNCHANGED <<ledger, data, req>> PROVE UNCHANGED Chain!vars
  BY <1>1 DEF Chain!vars, Served, Activated, Answers, Labelled
<1>2. ASSUME NEW w \in Writers, Load(w) PROVE Chain!Next
  <2>1. data'.seq = data.seq + 1 /\ UNCHANGED <<ledger, req>>
    BY <1>2 DEF Load
  <2>2. UNCHANGED <<Served, Answers>>
    BY <2>1 DEF Served, Activated, Answers, Labelled
  <2> QED BY <2>1, <2>2 DEF Chain!Next, Chain!Change
<1>3. ASSUME NEW w \in Writers, Commit(w) PROVE [Chain!Next]_(Chain!vars)
  <2>1. CASE txn[w].kind = "publish"
    BY <1>3, <2>1, PublishMaps DEF CInv, Chain!Next
  <2>2. CASE txn[w].kind = "backfill"
    BY <1>3, <2>2, BackfillMaps DEF CInv, Chain!Next
  <2>3. CASE txn[w].kind = "candidate"
    <3>1. /\ DOMAIN ledger = 1..Len(ledger) /\ DOMAIN ledger' = 1..(Len(ledger) + 1)
          /\ Len(ledger) \in Nat /\ ledger'[Len(ledger) + 1].state = "pending"
          /\ \A i \in 1..Len(ledger) : ledger'[i] = ledger[i]
      <4>1. /\ ledger' \in Seq(Release) /\ Len(ledger') = Len(ledger) + 1
            /\ ledger'[Len(ledger) + 1] = Row(txn[w], "pending")
            /\ \A i \in 1..Len(ledger) : ledger'[i] = ledger[i]
        BY <1>3, <2>3, CommitShape
      <4> QED BY <4>1 DEF TypeOK, Row
    <3>2. Served' = Served
      BY <3>1, ServedKept DEF Activated
    <3> QED BY <1>3, <3>2 DEF Commit, Chain!vars, Answers, Labelled
  <2> QED BY <2>1, <2>2, <2>3 DEF TypeOK, Txn
<1>4. ASSUME NEW i \in DOMAIN ledger, DropCandidate(i) PROVE UNCHANGED Chain!vars
  <2>1. /\ ledger' = [ledger EXCEPT ![i].state = "deleted"] /\ ledger[i].state = "pending"
        /\ UNCHANGED <<data, req>> /\ \A j \in DOMAIN ledger : ledger[j] \in Release
    BY <1>4 DEF DropCandidate, TypeOK
  <2>2. /\ DOMAIN ledger' = DOMAIN ledger
        /\ \A j \in DOMAIN ledger :
              /\ ledger'[j].state = IF j = i THEN "deleted" ELSE ledger[j].state
              /\ ledger'[j].prev = ledger[j].prev
              /\ ledger'[j].fp = ledger[j].fp
              /\ ledger'[j].seq = ledger[j].seq
    BY <2>1 DEF Release
  <2>3. Served' = Served
    BY <2>1, <2>2, ServedKept DEF Activated
  <2> QED BY <2>1, <2>3 DEF Chain!vars, Answers, Labelled
<1>5. ASSUME NEW r \in Requests,
             \/ UseStamp(r) \/ ReadStamp(r) \/ Hit(r) \/ Compute(r)
             \/ Store(r) \/ SkipStore(r) \/ Forget(r)
      PROVE  [Chain!Next]_(Chain!vars)
  BY <1>5, LookupMaps DEF Chain!Next
<1> QED
  BY <1>1, <1>2, <1>3, <1>4, <1>5 DEF Next, vars, BeginPublish, BeginBackfill, BeginCandidate,
     Scan, ScanFails, Decide, DecideBackfill, Abort

LEMMA ChainInit == Init => Chain!Init
<1> SUFFICES ASSUME Init PROVE Chain!Init
  OBVIOUS
<1>1. data.seq = 0 /\ ledger = <<>> /\ \A r \in Requests : req[r].pc = "idle"
  BY DEF Init
<1>2. Served = [i \in {} |-> 0]
  BY <1>1 DEF Served
<1>3. Answers = [r \in Requests |-> Chain!NoAnswer]
  BY <1>1 DEF Answers, Labelled, Chain!NoAnswer
<1> QED BY <1>1, <1>2, <1>3 DEF Chain!Init

\* Whatever its writers, their scans and the caches do, the ledger is to its consumers a
\* chain that grows by one release at a time, whose past does not change, and whose ids
\* label no answer that is older (infra/admin_repo.py, infra/dataset_ref.py, client.py).
THEOREM RefinesChain == Spec => ImplementsChain
<1>1. CInv /\ IInv' /\ [Next]_vars => ConsumerInv'
  BY ConsumerStep
<1>2. CInv /\ IInv' /\ [Next]_vars => [Chain!Next]_(Chain!vars)
  BY ChainStep
<1> QED
  BY <1>1, <1>2, ConsumerInit, ChainInit, ServingInductive, PTL
     DEF Spec, CInv, ImplementsChain, Chain!Spec
================================================================================
