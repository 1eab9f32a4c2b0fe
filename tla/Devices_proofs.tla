----------------------------- MODULE Devices_proofs -----------------------------
EXTENDS SyncEngine, MCDevices, FiniteSetTheorems, SequenceTheorems, TLAPS
(***************************************************************************)
(* Delta sync with one worker: no push widens a record, and with room for  *)
(* every record in a pull no device misses a change.  The leases of a      *)
(* device: the time of a purge never goes back, and a run that ends has    *)
(* removed all that was due.  What a device is granted (its login, its     *)
(* cached keys, its sealed cache, its policy snapshot and its signals),    *)
(* part by part and for the device as a whole.                             *)
(***************************************************************************)

-----------------------------------------------------------------------------
(* SyncEngine                                                              *)

\* The server has one worker: the handlers have no await.
OneWorker == \A v, w \in Workers : v = w

\* Every pull has room for all records.
NoneCut == IsFiniteSet(Documents) /\ Cardinality(Documents) <= Limit

\* The rows of a changelog are in the order of their stamps, the last of them not after t.
Stamped(rows, t) ==
    /\ \A i \in 1..Len(rows) : 0 < rows[i].at /\ rows[i].at <= t
    /\ \A i, j \in 1..Len(rows) : i < j => rows[i].at < rows[j].at

\* No record of s is gone from db or is wider in it.
Narrowed(s, db) ==
    \A r \in Documents : s[r] # NoDocument =>
        db[r] # NoDocument /\ db[r].acl \subseteq s[r].acl /\ db[r].rank <= s[r].rank

\* These rows go on where the log ends, and have a row for every record that db changes.
Extends(db, rows) ==
    /\ Len(log) <= Len(rows)
    /\ \A i \in 1..Len(log) : rows[i] = log[i]
    /\ \A r \in Documents : db[r] # store[r] =>
          \E i \in 1..Len(rows) : i > Len(log) /\ rows[i].record = r

\* What a push has read or written is still so when it commits.
PushSound(w) ==
    LET q == request[w] IN
    /\ q.pc = "push" =>
          /\ Accepted(store, q.who, q.first)
          /\ 0 < q.at /\ q.at = stamped /\ \A i \in 1..Len(log) : log[i].at < q.at
    /\ q.pc = "transaction" =>
          Narrowed(store, q.store) /\ Extends(q.store, q.log) /\ Stamped(q.log, stamped)

\* A pull has all that its client has missed.
PullSound(w) ==
    LET q == request[w]
        missed == {r \in ChangedSince(StampOf(client[q.who].token)) : Visible(q.who, r)}
    IN  /\ q.pc = "rows" => q.since = StampOf(client[q.who].token)
        /\ q.pc = "token" => /\ missed \subseteq DOMAIN q.rows
                             /\ \A r \in DOMAIN q.rows : q.rows[r] = store[r]

SyncIInv ==
    /\ SyncTypeOK
    /\ Stamped(log, stamped)
    /\ \A p \in Principals : client[p].token <= Len(log)
    /\ \A w \in Workers : PushSound(w)
    /\ NoneCut => NothingMissed /\ \A w \in Workers : PullSound(w)

PushCall == [pc: {"push"}, who: Principals, at: Nat, first: Pushed, rest: Seq(Pushed)]
Transaction == [pc: {"transaction"}, who: Principals, rest: Seq(Pushed),
                store: [Documents -> Record \union {NoDocument}], log: Seq(Row)]
RowsCall == [pc: {"rows"}, who: Principals, since: Nat]
TokenCall == [pc: {"token"}, who: Principals,
              rows: UNION {[found -> Record] : found \in SUBSET Documents}]

LEMMA RequestKinds ==
    Request = {Unasked} \union PushCall \union Transaction \union RowsCall \union TokenCall
BY DEF Request, PushCall, Transaction, RowsCall, TokenCall

LEMMA RequestTyped ==
    ASSUME SyncTypeOK, NEW w \in Workers
    PROVE  /\ request[w].pc = "push" => request[w] \in PushCall
           /\ request[w].pc = "transaction" => request[w] \in Transaction
           /\ request[w].pc = "rows" => request[w] \in RowsCall
           /\ request[w].pc = "token" => request[w] \in TokenCall
BY RequestKinds
   DEF SyncTypeOK, Unasked, PushCall, Transaction, RowsCall, TokenCall

LEMMA RowsTyped ==
    ASSUME NEW rows \in Seq(Row)
    PROVE  /\ Len(rows) \in Nat
           /\ \A i \in 1..Len(rows) : rows[i].at \in Nat /\ rows[i].record \in Documents
<1>1. Len(rows) \in Nat /\ \A i \in 1..Len(rows) : rows[i] \in Row OBVIOUS
<1>2. \A row \in Row : row.at \in Nat /\ row.record \in Documents BY DEF Row
<1>3. QED BY <1>1, <1>2

LEMMA RanksAreNumbers == \A body \in Record : body.rank \in Int
<1>1. \A body \in Record : body.rank \in Ranks BY DEF Record
<1>2. \A n \in Ranks : n \in Int BY RanksAssumption
<1>3. QED BY <1>1, <1>2

LEMMA SyncInitIInv == SyncInit => SyncIInv
<1> SUFFICES ASSUME SyncInit PROVE SyncIInv OBVIOUS
<1>1. SyncTypeOK
  <2>1. store \in [Documents -> Record \union {NoDocument}] /\ log \in Seq(Row)
        /\ stamped \in Nat
    BY DEF SyncInit
  <2>2. request \in [Workers -> Request] BY RequestKinds DEF SyncInit
  <2>3. client \in [Principals -> [token: Nat, copy: [Documents -> Record \union {NoDocument}]]]
    BY DEF SyncInit
  <2>4. QED BY <2>1, <2>2, <2>3 DEF SyncTypeOK
<1>2. Stamped(log, stamped) BY DEF SyncInit, Stamped
<1>3. \A p \in Principals : client[p].token <= Len(log) BY DEF SyncInit
<1>4. \A w \in Workers : PushSound(w) /\ PullSound(w)
  BY DEF SyncInit, Unasked, PushSound, PullSound
<1>5. NothingMissed BY DEF SyncInit, NothingMissed, Visible
<1>6. QED BY <1>1, <1>2, <1>3, <1>4, <1>5 DEF SyncIInv

\* A step of the only worker that leaves the database and the clients alone.
LEMMA OnlyRequest ==
    ASSUME OneWorker, SyncIInv, NEW w \in Workers, NEW q \in Request,
           request' = [request EXCEPT ![w] = q],
           stamped' \in Nat, stamped <= stamped', UNCHANGED <<store, log, client>>,
           PushSound(w)', NoneCut => PullSound(w)'
    PROVE  SyncIInv'
<1>1. SyncTypeOK' BY DEF SyncIInv, SyncTypeOK
<1>2. Stamped(log, stamped)'
  <2>1. \A i \in 1..Len(log) : log[i].at \in Nat BY RowsTyped DEF SyncIInv, SyncTypeOK
  <2>2. QED BY <2>1 DEF SyncIInv, SyncTypeOK, Stamped
<1>3. \A p \in Principals : client'[p].token <= Len(log') BY DEF SyncIInv
<1>4. \A v \in Workers : v = w BY DEF OneWorker
<1>5. NothingMissed = NothingMissed'
  BY DEF NothingMissed, Visible, ChangedSince, StampOf
<1>6. QED BY <1>1, <1>2, <1>3, <1>4, <1>5 DEF SyncIInv

LEMMA PushCheckKeeps ==
    ASSUME OneWorker, SyncIInv, NEW w \in Workers, NEW p \in Principals, NEW delta \in Deltas,
           PushCheck(w, p, delta)
    PROVE  SyncIInv'
<1>1. delta \in Seq(Pushed)
  <2>1. PICK n \in 1..MaxBatch : delta \in [1..n -> Pushed] BY DEF Deltas
  <2>2. n \in Nat OBVIOUS
  <2>3. QED BY <2>1, <2>2
<1>2. PICK i \in 1..Len(delta) :
         /\ Accepted(store, p, delta[i])
         /\ stamped' = stamped + 1
         /\ request' = [request EXCEPT ![w] =
                [pc |-> "push", who |-> p, at |-> stamped + 1, first |-> delta[i],
                 rest |-> SubSeq(delta, i + 1, Len(delta))]]
  BY DEF PushCheck
<1> DEFINE q == [pc |-> "push", who |-> p, at |-> stamped + 1, first |-> delta[i],
                 rest |-> SubSeq(delta, i + 1, Len(delta))]
<1>3. UNCHANGED <<store, log, client>> BY DEF PushCheck
<1>4. stamped \in Nat BY DEF SyncIInv, SyncTypeOK
<1>5. SubSeq(delta, i + 1, Len(delta)) \in Seq(Pushed)
  <2>1. Len(delta) \in Nat /\ i + 1 \in 1..(Len(delta) + 1) BY <1>1
  <2>2. \A k \in (i + 1)..Len(delta) : delta[k] \in Pushed BY <1>1, <2>1
  <2>3. QED BY <1>1, <2>1, <2>2
<1>6. q \in PushCall BY <1>1, <1>4, <1>5 DEF PushCall
<1>7. q \in Request BY <1>6, RequestKinds
<1>8. request'[w] = q BY <1>2 DEF SyncIInv, SyncTypeOK
<1>9. PushSound(w)'
  <2>1. \A k \in 1..Len(log) : log[k].at \in Nat /\ log[k].at <= stamped
    BY RowsTyped DEF SyncIInv, SyncTypeOK, Stamped
  <2>2. 0 < stamped + 1 /\ \A k \in 1..Len(log) : log[k].at < stamped + 1 BY <1>4, <2>1
  <2>3. QED BY <1>2, <1>3, <1>8, <2>2 DEF PushSound, Accepted
<1>10. PullSound(w)' BY <1>8 DEF PullSound
<1> HIDE DEF q
<1>11. request' = [request EXCEPT ![w] = q] BY <1>2 DEF q
<1>12. stamped' \in Nat /\ stamped <= stamped' BY <1>2, <1>4
<1>13. QED BY <1>3, <1>7, <1>9, <1>10, <1>11, <1>12, OnlyRequest

\* An upsert narrows what is there, and logs it with a later stamp.
LEMMA UpsertSound ==
    ASSUME SyncTypeOK, NEW db, db.store \in [Documents -> Record \union {NoDocument}],
           db.log \in Seq(Row), NEW rec \in Pushed, NEW at \in Nat, NEW who \in Principals,
           Accepted(db.store, who, rec), Narrowed(store, db.store),
           Extends(db.store, db.log), 0 < at, \A i \in 1..Len(db.log) : db.log[i].at < at,
           Stamped(db.log, at),
           NEW s, NEW rows, s = Upsert(db, rec, at).store, rows = Upsert(db, rec, at).log
    PROVE  /\ s \in [Documents -> Record \union {NoDocument}] /\ rows \in Seq(Row)
           /\ Narrowed(store, s) /\ Extends(s, rows) /\ Stamped(rows, at)
<1>1. /\ s = [db.store EXCEPT ![rec.id] = rec.body]
      /\ rows = Append(db.log, [record |-> rec.id, at |-> at])
  BY DEF Upsert, ChangeLogged
<1>2. rec.id \in Documents /\ rec.body \in Record /\ rec.body # NoDocument
  BY NoDocumentAssumption DEF Pushed
<1>3. /\ s \in [Documents -> Record \union {NoDocument}] /\ s[rec.id] = rec.body
      /\ \A r \in Documents : r # rec.id => s[r] = db.store[r]
  BY <1>1, <1>2
<1>4. [record |-> rec.id, at |-> at] \in Row BY <1>2 DEF Row
<1>5. /\ rows \in Seq(Row) /\ Len(rows) = Len(db.log) + 1 /\ Len(db.log) \in Nat
      /\ \A i \in 1..Len(db.log) : rows[i] = db.log[i]
      /\ rows[Len(db.log) + 1] = [record |-> rec.id, at |-> at]
  BY <1>1, <1>4
<1>6. Narrowed(store, s)
  <2> SUFFICES ASSUME NEW r \in Documents, store[r] # NoDocument
               PROVE  s[r] # NoDocument /\ s[r].acl \subseteq store[r].acl
                      /\ s[r].rank <= store[r].rank
    BY DEF Narrowed
  <2>1. db.store[r] # NoDocument /\ db.store[r].acl \subseteq store[r].acl
        /\ db.store[r].rank <= store[r].rank
    BY DEF Narrowed
  <2>2. CASE r # rec.id BY <1>3, <2>1, <2>2
  <2>3. CASE r = rec.id
    <3>1. rec.body.acl \subseteq db.store[r].acl /\ rec.body.rank <= db.store[r].rank
      BY <2>1, <2>3 DEF Accepted, NotWider
    <3>2. store[r] \in Record /\ db.store[r] \in Record BY <2>1 DEF SyncTypeOK
    <3>3. /\ rec.body.rank \in Int /\ store[r].rank \in Int /\ db.store[r].rank \in Int
      BY <1>2, <3>2, RanksAreNumbers
    <3>4. QED BY <1>2, <1>3, <2>1, <2>3, <3>1, <3>3
  <2>4. QED BY <2>2, <2>3
<1>7. Extends(s, rows)
  <2>1. Len(log) \in Nat BY DEF SyncTypeOK
  <2>2. Len(log) <= Len(db.log) /\ \A i \in 1..Len(log) : db.log[i] = log[i] BY DEF Extends
  <2>3. Len(log) <= Len(rows) /\ \A i \in 1..Len(log) : rows[i] = log[i]
    BY <1>5, <2>1, <2>2
  <2>4. ASSUME NEW r \in Documents, s[r] # store[r]
        PROVE  \E i \in 1..Len(rows) : i > Len(log) /\ rows[i].record = r
    <3>1. CASE r = rec.id
      <4>1. Len(rows) \in 1..Len(rows) /\ Len(rows) > Len(log) BY <1>5, <2>1, <2>2
      <4>2. rows[Len(rows)].record = r BY <1>5, <3>1
      <4>3. QED BY <4>1, <4>2
    <3>2. CASE r # rec.id
      <4>1. db.store[r] # store[r] BY <1>3, <2>4, <3>2
      <4>2. PICK i \in 1..Len(db.log) : i > Len(log) /\ db.log[i].record = r
        BY <4>1 DEF Extends
      <4>3. i \in 1..Len(rows) /\ rows[i] = db.log[i] BY <1>5
      <4>4. QED BY <4>2, <4>3
    <3>3. QED BY <3>1, <3>2
  <2>5. QED BY <2>3, <2>4 DEF Extends
<1>8. Stamped(rows, at)
  <2>1. \A i \in 1..Len(rows) : i \in 1..Len(db.log) \/ i = Len(db.log) + 1 BY <1>5
  <2>2. \A i \in 1..Len(db.log) : 0 < db.log[i].at /\ db.log[i].at <= at BY DEF Stamped
  <2>3. \A i \in 1..Len(rows) : 0 < rows[i].at /\ rows[i].at <= at
    BY <1>5, <2>1, <2>2
  <2>4. ASSUME NEW i \in 1..Len(rows), NEW j \in 1..Len(rows), i < j
        PROVE  rows[i].at < rows[j].at
    <3>1. i \in 1..Len(db.log) BY <1>5, <2>4
    <3>2. CASE j = Len(db.log) + 1 BY <1>5, <3>1, <3>2
    <3>3. CASE j \in 1..Len(db.log) BY <1>5, <2>4, <3>1, <3>3 DEF Stamped
    <3>4. QED BY <2>1, <3>2, <3>3
  <2>5. QED BY <2>3, <2>4 DEF Stamped
<1>9. QED BY <1>3, <1>5, <1>6, <1>7, <1>8

LEMMA PushBeginKeeps ==
    ASSUME OneWorker, SyncIInv, NEW w \in Workers, PushBegin(w)
    PROVE  SyncIInv'
<1> DEFINE q == request[w]
           db == [store |-> store, log |-> log]
           s == Upsert(db, q.first, q.at).store
           rows == Upsert(db, q.first, q.at).log
           t == [pc |-> "transaction", who |-> q.who, rest |-> q.rest, store |-> s, log |-> rows]
<1>1. /\ q.pc = "push" /\ request' = [request EXCEPT ![w] = t]
      /\ UNCHANGED <<store, log, stamped, client>>
  BY DEF PushBegin
<1>2. q \in PushCall BY <1>1, RequestTyped DEF SyncIInv
<1>3. /\ SyncTypeOK /\ store \in [Documents -> Record \union {NoDocument}]
      /\ log \in Seq(Row) /\ stamped \in Nat
  BY DEF SyncIInv, SyncTypeOK
<1>4. /\ Accepted(store, q.who, q.first) /\ q.at = stamped /\ 0 < q.at
      /\ \A i \in 1..Len(log) : log[i].at < q.at
  BY <1>1 DEF SyncIInv, PushSound
<1>5. q.first \in Pushed /\ q.at \in Nat /\ q.who \in Principals /\ q.rest \in Seq(Pushed)
  BY <1>2 DEF PushCall
<1>6. Narrowed(store, store) /\ Extends(store, log) /\ Stamped(log, q.at)
  <2>1. \A r \in Documents : store[r] # NoDocument => store[r].rank \in Int
    BY <1>3, RanksAreNumbers
  <2>2. Narrowed(store, store) BY <2>1 DEF Narrowed
  <2>3. QED BY <1>3, <1>4, <2>2 DEF Extends, SyncIInv
<1>7. /\ s \in [Documents -> Record \union {NoDocument}] /\ rows \in Seq(Row)
      /\ Narrowed(store, s) /\ Extends(s, rows) /\ Stamped(rows, q.at)
  <2>1. db.store = store /\ db.log = log OBVIOUS
  <2> HIDE DEF db, q
  <2>2. QED BY <1>3, <1>4, <1>5, <1>6, <2>1, UpsertSound
<1> HIDE DEF s, rows
<1>8. t \in Transaction BY <1>5, <1>7 DEF Transaction
<1>9. t \in Request BY <1>8, RequestKinds
<1>10. request'[w] = t BY <1>1 DEF SyncIInv, SyncTypeOK
<1>11. PushSound(w)'
  BY <1>1, <1>4, <1>7, <1>10 DEF PushSound, Narrowed, Extends, Stamped
<1>12. PullSound(w)' BY <1>10 DEF PullSound
<1>13. stamped' \in Nat /\ stamped <= stamped' BY <1>1, <1>3
<1> HIDE DEF t
<1>14. QED BY <1>1, <1>9, <1>11, <1>12, <1>13, OnlyRequest

LEMMA PushNextKeeps ==
    ASSUME OneWorker, SyncIInv, NEW w \in Workers, PushNext(w)
    PROVE  SyncIInv'
<1> DEFINE q == request[w]
           rec == Head(q.rest)
           fine == Accepted(q.store, q.who, rec)
           s == IF fine THEN Upsert(q, rec, stamped + 1).store ELSE q.store
           rows == IF fine THEN Upsert(q, rec, stamped + 1).log ELSE q.log
           t == [pc |-> "transaction", who |-> q.who, rest |-> Tail(q.rest),
                 store |-> s, log |-> rows]
<1>1. /\ q.pc = "transaction" /\ q.rest # <<>> /\ request' = [request EXCEPT ![w] = t]
      /\ stamped' = IF fine THEN stamped + 1 ELSE stamped
      /\ UNCHANGED <<store, log, client>>
  BY DEF PushNext
<1>2. q \in Transaction BY <1>1, RequestTyped DEF SyncIInv
<1>3. SyncTypeOK /\ stamped \in Nat BY DEF SyncIInv, SyncTypeOK
<1>4. /\ q.who \in Principals /\ q.rest \in Seq(Pushed) /\ q.log \in Seq(Row)
      /\ q.store \in [Documents -> Record \union {NoDocument}]
  BY <1>2 DEF Transaction
<1>5. rec \in Pushed /\ Tail(q.rest) \in Seq(Pushed) BY <1>1, <1>4
<1>6. Narrowed(store, q.store) /\ Extends(q.store, q.log) /\ Stamped(q.log, stamped)
  BY <1>1 DEF SyncIInv, PushSound
<1>7. /\ stamped' \in Nat /\ stamped <= stamped'
      /\ stamped + 1 \in Nat /\ 0 < stamped + 1
      /\ \A i \in 1..Len(q.log) : q.log[i].at < stamped + 1
      /\ Stamped(q.log, stamped + 1)
  <2>1. \A i \in 1..Len(q.log) : q.log[i].at \in Nat BY <1>4, RowsTyped
  <2>2. QED BY <1>1, <1>3, <1>6, <2>1 DEF Stamped
<1>8. /\ s \in [Documents -> Record \union {NoDocument}] /\ rows \in Seq(Row)
      /\ Narrowed(store, s) /\ Extends(s, rows) /\ Stamped(rows, stamped')
  <2>1. CASE fine
    <3> HIDE DEF q, rec
    <3>1. s = Upsert(q, rec, stamped + 1).store /\ rows = Upsert(q, rec, stamped + 1).log
          /\ stamped' = stamped + 1
      BY <1>1, <2>1
    <3> HIDE DEF s, rows
    <3>2. Accepted(q.store, q.who, rec) BY <2>1
    <3>3. QED BY <1>3, <1>4, <1>5, <1>6, <1>7, <3>1, <3>2, UpsertSound
  <2>2. CASE ~fine BY <1>1, <1>4, <1>6, <2>2
  <2>3. QED BY <2>1, <2>2
<1> HIDE DEF s, rows, fine, rec
<1>9. t \in Transaction BY <1>4, <1>5, <1>8 DEF Transaction
<1>10. t \in Request BY <1>9, RequestKinds
<1>11. request'[w] = t BY <1>1 DEF SyncIInv, SyncTypeOK
<1>12. PushSound(w)'
  BY <1>1, <1>8, <1>11 DEF PushSound, Narrowed, Extends, Stamped
<1>13. PullSound(w)' BY <1>11 DEF PullSound
<1> HIDE DEF t
<1>14. QED BY <1>1, <1>7, <1>10, <1>12, <1>13, OnlyRequest

\* A token's stamp is of a row, or before all rows.
LEMMA StampOfToken ==
    ASSUME SyncIInv, NEW p \in Principals
    PROVE  /\ StampOf(client[p].token) \in Nat
           /\ \A i \in 1..Len(log) :
                 i > client[p].token <=> log[i].at > StampOf(client[p].token)
<1> DEFINE k == client[p].token
<1>1. k \in Nat /\ k <= Len(log) /\ Len(log) \in Nat
  BY DEF SyncIInv, SyncTypeOK
<1>2. \A i \in 1..Len(log) : log[i].at \in Nat /\ 0 < log[i].at
  BY RowsTyped DEF SyncIInv, SyncTypeOK, Stamped
<1>3. \A i, j \in 1..Len(log) : i < j => log[i].at < log[j].at BY DEF SyncIInv, Stamped
<1> HIDE DEF k
<1>4. CASE k = 0 BY <1>1, <1>2, <1>4 DEF StampOf, k
<1>5. CASE k # 0
  <2>1. k \in 1..Len(log) BY <1>1, <1>5
  <2>2. StampOf(k) = log[k].at BY <2>1 DEF StampOf
  <2>3. ASSUME NEW i \in 1..Len(log) PROVE i > k <=> log[i].at > log[k].at
    <3>1. i < k \/ i = k \/ i > k BY <2>1
    <3>2. QED BY <1>2, <1>3, <2>1, <3>1
  <2>4. QED BY <1>2, <2>1, <2>2, <2>3 DEF k
<1>6. QED BY <1>4, <1>5

LEMMA PushCommitKeeps ==
    ASSUME OneWorker, SyncIInv, NEW w \in Workers, PushCommit(w)
    PROVE  SyncIInv' /\ Narrowed(store, store')
<1> DEFINE q == request[w]
<1>1. /\ q.pc = "transaction" /\ store' = q.store /\ log' = q.log
      /\ request' = [request EXCEPT ![w] = Unasked]
      /\ UNCHANGED <<stamped, client>>
  BY DEF PushCommit
<1>2. q \in Transaction BY <1>1, RequestTyped DEF SyncIInv
<1>3. Narrowed(store, q.store) /\ Extends(q.store, q.log) /\ Stamped(q.log, stamped)
  BY <1>1 DEF SyncIInv, PushSound
<1>4. SyncTypeOK'
  BY <1>1, <1>2, RequestKinds DEF SyncIInv, SyncTypeOK, Transaction
<1>5. \A v \in Workers : PushSound(v)' /\ PullSound(v)'
  <2>1. \A v \in Workers : request'[v] = Unasked
    BY <1>1 DEF OneWorker, SyncIInv, SyncTypeOK
  <2>2. QED BY <2>1 DEF PushSound, PullSound, Unasked
<1>6. Len(log) \in Nat /\ Len(log') \in Nat /\ Len(log) <= Len(log')
  BY <1>1, <1>3, <1>4 DEF SyncIInv, SyncTypeOK, Extends
<1>7. \A p \in Principals : client'[p].token <= Len(log')
  <2>1. \A p \in Principals : client[p].token \in Nat /\ client[p].token <= Len(log)
    BY DEF SyncIInv, SyncTypeOK
  <2>2. QED BY <1>1, <1>6, <2>1
<1>8. Stamped(log, stamped)' BY <1>1, <1>3 DEF Stamped
<1>9. ASSUME NoneCut PROVE NothingMissed'
  <2> SUFFICES ASSUME NEW p \in Principals, NEW r \in Documents,
                      Visible(p, r)', client[p].copy[r] # store'[r]
               PROVE  (r \in ChangedSince(StampOf(client[p].token)))'
    BY <1>1 DEF NothingMissed
  <2> DEFINE k == client[p].token
  <2>1. k \in Nat /\ k <= Len(log) BY DEF SyncIInv, SyncTypeOK
  <2>2. StampOf(k)' = StampOf(k)
    <3>1. k \in 1..Len(log) <=> k \in 1..Len(log') BY <1>6, <2>1
    <3>2. k \in 1..Len(log) => log'[k] = log[k] BY <1>1, <1>3 DEF Extends
    <3>3. QED BY <1>1, <3>1, <3>2 DEF StampOf
  <2> HIDE DEF k
  <2>3. PICK i \in 1..Len(log') : log'[i].record = r /\ log'[i].at > StampOf(k)
    <3>1. CASE store'[r] = store[r]
      <4>1. r \in ChangedSince(StampOf(k))
        BY <1>9, <3>1 DEF Visible, SyncIInv, NothingMissed, k
      <4>2. PICK i \in 1..Len(log) : log[i].record = r /\ log[i].at > StampOf(k)
        BY <4>1 DEF ChangedSince
      <4>3. i \in 1..Len(log') /\ log'[i] = log[i] BY <1>1, <1>3, <1>6 DEF Extends
      <4>4. QED BY <4>2, <4>3
    <3>2. CASE store'[r] # store[r]
      <4>1. PICK i \in 1..Len(log') : i > Len(log) /\ log'[i].record = r
        BY <1>1, <1>3, <3>2 DEF Extends
      <4>2. log'[i].at \in Nat /\ 0 < log'[i].at
        BY <1>4, <1>8, RowsTyped DEF SyncTypeOK, Stamped
      <4>3. CASE k = 0 BY <4>1, <4>2, <4>3 DEF StampOf
      <4>4. CASE k # 0
        <5>1. k \in 1..Len(log) BY <2>1, <4>4
        <5>2. k \in 1..Len(log') /\ k < i BY <1>6, <4>1, <5>1
        <5>3. log'[k].at < log'[i].at BY <1>8, <5>2 DEF Stamped
        <5>4. StampOf(k) = log[k].at /\ log'[k] = log[k]
          BY <1>1, <1>3, <5>1 DEF StampOf, Extends
        <5>5. log'[k].at \in Nat BY <1>4, <5>2, RowsTyped DEF SyncTypeOK
        <5>6. QED BY <4>1, <4>2, <5>3, <5>4, <5>5
      <4>5. QED BY <4>3, <4>4
    <3>3. QED BY <3>1, <3>2
  <2>4. QED BY <2>2, <2>3 DEF ChangedSince, k
<1>10. QED BY <1>1, <1>3, <1>4, <1>5, <1>7, <1>8, <1>9 DEF SyncIInv

LEMMA PullSinceKeeps ==
    ASSUME OneWorker, SyncIInv, NEW w \in Workers, NEW p \in Principals, PullSince(w, p)
    PROVE  SyncIInv'
<1> DEFINE t == [pc |-> "rows", who |-> p, since |-> StampOf(client[p].token)]
<1>1. request' = [request EXCEPT ![w] = t] /\ UNCHANGED <<store, log, stamped, client>>
  BY DEF PullSince
<1>2. StampOf(client[p].token) \in Nat BY StampOfToken
<1>3. t \in RowsCall BY <1>2 DEF RowsCall
<1>4. t \in Request BY <1>3, RequestKinds
<1>5. request'[w] = t BY <1>1 DEF SyncIInv, SyncTypeOK
<1>6. PushSound(w)' BY <1>5 DEF PushSound
<1>7. PullSound(w)' BY <1>1, <1>5 DEF PullSound, StampOf
<1>8. stamped' \in Nat /\ stamped <= stamped' BY <1>1 DEF SyncIInv, SyncTypeOK
<1> HIDE DEF t
<1>9. QED BY <1>1, <1>4, <1>6, <1>7, <1>8, OnlyRequest

LEMMA PullRowsKeeps ==
    ASSUME OneWorker, SyncIInv, NEW w \in Workers, PullRows(w)
    PROVE  SyncIInv'
<1> DEFINE q == request[w]
           found == {r \in ChangedSince(q.since) : Visible(q.who, r)}
           size == IF Cardinality(found) <= Limit THEN Cardinality(found) ELSE Limit
<1>1. PICK rows \in SUBSET found :
         /\ Cardinality(rows) = size
         /\ request' = [request EXCEPT ![w] =
                [pc |-> "token", who |-> q.who, rows |-> [r \in rows |-> store[r]]]]
  BY DEF PullRows
<1> DEFINE t == [pc |-> "token", who |-> q.who, rows |-> [r \in rows |-> store[r]]]
<1>2. q.pc = "rows" /\ UNCHANGED <<store, log, stamped, client>> BY DEF PullRows
<1>3. q \in RowsCall BY <1>2, RequestTyped DEF SyncIInv
<1>4. found \subseteq Documents /\ \A r \in found : store[r] \in Record
  <2>1. ChangedSince(q.since) \subseteq Documents
    BY RowsTyped DEF ChangedSince, SyncIInv, SyncTypeOK
  <2>2. QED BY <2>1 DEF Visible, SyncIInv, SyncTypeOK
<1>5. t \in TokenCall
  <2>1. rows \in SUBSET Documents /\ [r \in rows |-> store[r]] \in [rows -> Record] BY <1>4
  <2>2. [r \in rows |-> store[r]] \in UNION {[f -> Record] : f \in SUBSET Documents} BY <2>1
  <2>3. QED BY <1>3, <2>2 DEF TokenCall, RowsCall
<1>6. t \in Request BY <1>5, RequestKinds
<1>7. request'[w] = t BY <1>1 DEF SyncIInv, SyncTypeOK
<1>8. PushSound(w)' BY <1>7 DEF PushSound
<1>9. ASSUME NoneCut PROVE PullSound(w)'
  <2>1. rows = found
    <3>1. /\ IsFiniteSet(found) /\ Cardinality(found) <= Cardinality(Documents)
          /\ Cardinality(found) \in Nat /\ Cardinality(Documents) \in Nat
      BY <1>4, <1>9, FS_Subset, FS_CardinalityType DEF NoneCut
    <3>2. Cardinality(found) <= Limit BY <1>9, <3>1, SyncEngineBounds DEF NoneCut
    <3>3. Cardinality(rows) = Cardinality(found) BY <1>1, <3>2
    <3> HIDE DEF found
    <3>4. QED BY <1>1, <3>1, <3>3, FS_Subset
  <2>2. q.since = StampOf(client[q.who].token) BY <1>2, <1>9 DEF SyncIInv, PullSound
  <2>3. DOMAIN t.rows = found /\ \A r \in DOMAIN t.rows : t.rows[r] = store[r] BY <2>1
  <2>4. request'[w].pc = "token" /\ request'[w].who = q.who /\ request'[w].rows = t.rows
    BY <1>7
  <2>5. (StampOf(client[request[w].who].token))' = StampOf(client[q.who].token)
    BY <1>2, <2>4 DEF StampOf
  <2>6. ASSUME NEW r, (r \in ChangedSince(StampOf(client[request[w].who].token)))',
               Visible(request[w].who, r)'
        PROVE  r \in found
    <3>1. PICK i \in 1..Len(log) :
             log[i].record = r /\ log[i].at > StampOf(client[q.who].token)
      BY <1>2, <2>5, <2>6 DEF ChangedSince
    <3>2. r \in ChangedSince(q.since) BY <2>2, <3>1 DEF ChangedSince
    <3>3. Visible(q.who, r) BY <1>2, <2>4, <2>6 DEF Visible
    <3>4. QED BY <3>2, <3>3
  <2> HIDE DEF found, t
  <2>7. QED BY <1>2, <2>3, <2>4, <2>6 DEF PullSound
<1>10. stamped' \in Nat /\ stamped <= stamped' BY <1>2 DEF SyncIInv, SyncTypeOK
<1>11. request' = [request EXCEPT ![w] = t] BY <1>1
<1> HIDE DEF t
<1>12. QED BY <1>2, <1>6, <1>8, <1>9, <1>10, <1>11, OnlyRequest

\* What a client did not miss before, or gets now, it has.
LEMMA PullTokenKeeps ==
    ASSUME OneWorker, SyncIInv, NEW w \in Workers, PullToken(w)
    PROVE  SyncIInv'
<1> DEFINE q == request[w]
           who == q.who
           got == [r \in Documents |-> IF r \in DOMAIN q.rows THEN q.rows[r]
                                       ELSE client[who].copy[r]]
           t == [token |-> Len(log), copy |-> got]
<1>1. /\ q.pc = "token" /\ request' = [request EXCEPT ![w] = Unasked]
      /\ client' = [client EXCEPT ![who] = t]
      /\ UNCHANGED <<store, log, stamped>>
  BY DEF PullToken, LatestToken
<1>2. q \in TokenCall /\ who \in Principals BY <1>1, RequestTyped DEF SyncIInv, TokenCall
<1>3. got \in [Documents -> Record \union {NoDocument}]
  <2>1. PICK f \in SUBSET Documents : q.rows \in [f -> Record] BY <1>2 DEF TokenCall
  <2>2. client[who].copy \in [Documents -> Record \union {NoDocument}]
    BY <1>2 DEF SyncIInv, SyncTypeOK
  <2>3. QED BY <2>1, <2>2
<1>4. Len(log) \in Nat BY DEF SyncIInv, SyncTypeOK
<1> HIDE DEF got
<1>5. client' \in [Principals -> [token: Nat, copy: [Documents -> Record \union {NoDocument}]]]
  BY <1>1, <1>3, <1>4 DEF SyncIInv, SyncTypeOK
<1>6. SyncTypeOK' BY <1>1, <1>5, RequestKinds DEF SyncIInv, SyncTypeOK
<1>7. client'[who] = t /\ \A p \in Principals : p # who => client'[p] = client[p]
  BY <1>1, <1>2 DEF SyncIInv, SyncTypeOK
<1>8. Stamped(log, stamped)' BY <1>1 DEF SyncIInv, Stamped
<1>9. \A p \in Principals : client'[p].token <= Len(log') BY <1>1, <1>4, <1>7 DEF SyncIInv
<1>10. \A v \in Workers : PushSound(v)' /\ PullSound(v)'
  <2>1. \A v \in Workers : request'[v] = Unasked
    BY <1>1 DEF OneWorker, SyncIInv, SyncTypeOK
  <2>2. QED BY <2>1 DEF PushSound, PullSound, Unasked
<1>11. ASSUME NoneCut PROVE NothingMissed'
  <2> SUFFICES ASSUME NEW p \in Principals, NEW r \in Documents,
                      Visible(p, r), client'[p].copy[r] # store[r]
               PROVE  (r \in ChangedSince(StampOf(client[p].token)))'
    BY <1>1 DEF NothingMissed, Visible
  <2>1. CASE p # who
    <3>1. r \in ChangedSince(StampOf(client[p].token))
      BY <1>7, <1>11, <2>1 DEF SyncIInv, NothingMissed
    <3>2. client'[p] = client[p] BY <1>7, <2>1
    <3>3. QED BY <1>1, <3>1, <3>2 DEF ChangedSince, StampOf
  <2>2. CASE p = who
    <3>1. client'[p].copy[r] = got[r] BY <1>7, <2>2
    <3>2. /\ \A x \in ChangedSince(StampOf(client[who].token)) :
                 Visible(who, x) => x \in DOMAIN q.rows
          /\ \A x \in DOMAIN q.rows : q.rows[x] = store[x]
      BY <1>1, <1>11 DEF SyncIInv, PullSound
    <3>3. CASE r \in DOMAIN q.rows BY <3>1, <3>2, <3>3 DEF got
    <3>4. CASE r \notin DOMAIN q.rows
      <4>1. r \notin ChangedSince(StampOf(client[who].token)) BY <2>2, <3>2, <3>4
      <4>2. client[who].copy[r] = store[r]
        BY <1>11, <2>2, <4>1 DEF SyncIInv, NothingMissed
      <4>3. QED BY <3>1, <3>4, <4>2 DEF got
    <3>5. QED BY <3>3, <3>4
  <2>3. QED BY <2>1, <2>2
<1>12. QED BY <1>6, <1>8, <1>9, <1>10, <1>11 DEF SyncIInv

LEMMA PullLostKeeps ==
    ASSUME OneWorker, SyncIInv, NEW w \in Workers, PullLost(w)
    PROVE  SyncIInv'
<1>1. request' = [request EXCEPT ![w] = Unasked] /\ UNCHANGED <<store, log, stamped, client>>
  BY DEF PullLost
<1>2. Unasked \in Request BY RequestKinds
<1>3. request'[w] = Unasked BY <1>1 DEF SyncIInv, SyncTypeOK
<1>4. PushSound(w)' /\ PullSound(w)' BY <1>3 DEF PushSound, PullSound, Unasked
<1>5. stamped' \in Nat /\ stamped <= stamped' BY <1>1 DEF SyncIInv, SyncTypeOK
<1>6. QED BY <1>1, <1>2, <1>4, <1>5, OnlyRequest

LEMMA SyncKeeps == OneWorker /\ SyncIInv /\ [SyncNext]_syncVars => SyncIInv'
<1> SUFFICES ASSUME OneWorker, SyncIInv, [SyncNext]_syncVars PROVE SyncIInv' OBVIOUS
<1>1. CASE UNCHANGED syncVars
  BY <1>1 DEF syncVars, SyncIInv, SyncTypeOK, Stamped, PushSound, PullSound, NothingMissed,
              Visible, ChangedSince, StampOf, Extends, Narrowed, Accepted
<1>2. CASE SyncNext
  BY <1>2, PushCheckKeeps, PushBeginKeeps, PushNextKeeps, PushCommitKeeps, PullSinceKeeps,
     PullRowsKeeps, PullTokenKeeps, PullLostKeeps
     DEF SyncNext
<1>3. QED BY <1>1, <1>2

THEOREM SyncInvariance == ASSUME OneWorker PROVE SyncSpec => []SyncIInv
<1>1. SyncIInv /\ [SyncNext]_syncVars => SyncIInv' BY SyncKeeps
<1>2. QED BY <1>1, SyncInitIInv, PTL DEF SyncSpec

\* With one worker and pulls that take all records, a device that has a stale copy of a record
\* it may read gets it with its next pull, whatever is pushed and which answers are lost.
\* (sync_pull, latest_token and datetime_for_token on three connections.)
THEOREM PullsMissNothing ==
    ASSUME OneWorker, NoneCut PROVE SyncSpec => []NothingMissed
<1>1. SyncIInv => NothingMissed BY DEF SyncIInv
<1>2. QED BY <1>1, SyncInvariance, PTL

\* With one worker no push gives a record more readers or a looser label, however many records
\* it has.  (_server_wins_on_acl, in sync_push.)
THEOREM PushesNarrow == ASSUME OneWorker PROVE SyncSpec => NoWidening
<1> DEFINE Kept == \A r \in Documents : store[r] # NoDocument =>
                      /\ store'[r].acl \subseteq store[r].acl
                      /\ store'[r].rank <= store[r].rank
<1>1. SyncIInv /\ [SyncNext]_syncVars => [Kept]_syncVars
  <2> SUFFICES ASSUME SyncIInv, SyncNext PROVE Kept OBVIOUS
  <2>1. CASE \E w \in Workers : PushCommit(w)
    BY <2>1, PushCommitKeeps DEF Narrowed
  <2>2. CASE store' = store
    <3>1. \A r \in Documents : store[r] # NoDocument => store[r].rank \in Int
      BY RanksAreNumbers DEF SyncIInv, SyncTypeOK
    <3>2. QED BY <2>2, <3>1
  <2>3. QED
    BY <2>1, <2>2
       DEF SyncNext, PushCheck, PushBegin, PushNext, PullSince, PullRows, PullToken, PullLost
<1>2. QED BY <1>1, SyncInvariance, PTL DEF SyncSpec, NoWidening

-----------------------------------------------------------------------------
(* OfflineLease                                                            *)

\* What a run of the purge engine still has to do, by its stage.
SweepUnderWay ==
    /\ purge.pc = "asleep" => due = {}
    /\ purge.pc = "delete" =>
          \A r \in due : r \in purge.todo \/ (lease[r] = None /\ r \notin cached)
    /\ purge.pc = "wipe record" =>
          \A r \in due : \/ r \in purge.todo
                         \/ lease[r] = None /\ (r \notin cached \/ r = purge.record)
    /\ purge.pc = "wipe all" => \A r \in due : lease[r] = None
    /\ purge.pc = "wipe token" => \A r \in due : lease[r] = None /\ r \notin cached

\* The mark in memory is the persisted one, and no run is ahead of it.
LeaseIInv ==
    /\ TypeOK
    /\ due \subseteq Records
    /\ mark = hwm
    /\ RunAnchored
    /\ SweepUnderWay
    /\ purge.pc = "wipe record" => purge.record \in Records
    /\ manager.pc # "idle" => manager.record \in Records
    /\ manager.pc = "upsert" => manager.level \in Levels

LEMMA TimesTyped == ASSUME TypeOK PROVE clock \in Nat /\ mark \in Nat /\ hwm \in Nat
<1>1. clock \in 0..MaxTime /\ mark \in Nat /\ hwm \in Nat BY DEF TypeOK, Time
<1>2. QED BY <1>1, BoundsAssumption

\* The evaluation time is the later of the clock and the mark, and the mark persisted.
LEMMA LaterIsLater ==
    ASSUME NEW now \in Nat, NEW past \in Nat
    PROVE  Later(now, past) \in Nat /\ Later(now, past) >= past
BY DEF Later

LEMMA PersistedFollows ==
    ASSUME clock \in Nat, mark \in Nat, hwm = mark
    PROVE  Persisted(Later(clock, mark)) = Later(clock, mark)
<1>1. CASE clock > mark BY <1>1 DEF Later, Persisted
<1>2. CASE ~(clock > mark)
  <2>1. Later(clock, mark) = mark BY <1>2 DEF Later
  <2>2. QED BY <2>1 DEF Persisted
<1>3. QED BY <1>1, <1>2

LEMMA TimesStay ==
    ASSUME hwm \in Nat, mark \in Nat, hwm' = hwm, mark' = mark
    PROVE  hwm' >= hwm /\ mark' >= mark
OBVIOUS

LEMMA GrantedTyped ==
    ASSUME NEW level \in Levels, NEW issued \in Nat
    PROVE  Granted(level, issued) \in Lease
BY TtlAssumption DEF Granted, Lease

LEMMA LeaseTyped ==
    ASSUME TypeOK, NEW r \in Records
    PROVE  /\ lease[r] = None \/ lease[r] \in Lease
           /\ lease[r] # None => lease[r].level \in Levels /\ lease[r].expires \in Nat
BY DEF TypeOK, Lease

LEMMA RunStarts == RunInit => LeaseIInv
BY BoundsAssumption, NoneAssumption
   DEF RunInit, Init, LeaseIInv, TypeOK, Idle, Asleep, RunAnchored, SweepUnderWay, Time

\* The records that the manager of a lease writes or wipes are no longer due, or are gone.
LEMMA ManagerKeepsDue ==
    ASSUME LeaseIInv, UNCHANGED <<hwm, mark, purge>>, due' = NextDue,
           \A r \in Records : r \in cached' => r \in cached \/ lease'[r] # None
    PROVE  due' \subseteq Records /\ RunAnchored' /\ SweepUnderWay'
<1> USE DEF LeaseIInv
<1>1. CASE purge.pc = "asleep"
  BY <1>1 DEF NextDue, RunAnchored, SweepUnderWay
<1>2. CASE purge.pc = "list"
  BY <1>2 DEF NextDue, RunAnchored, SweepUnderWay
<1>3. CASE purge.pc \notin {"asleep", "list"}
  <2>1. due' = {r \in due : lease'[r] = None \/ lease'[r] = lease[r]} BY <1>3 DEF NextDue
  <2>2. ASSUME NEW r \in due'
        PROVE  /\ r \in due
               /\ lease[r] = None => lease'[r] = None /\ (r \notin cached => r \notin cached')
    BY <2>1
  <2>3. QED BY <1>3, <2>1, <2>2 DEF RunAnchored, SweepUnderWay
<1>4. QED BY <1>1, <1>2, <1>3

LEMMA ManagerStepKept ==
    ASSUME LeaseIInv, due' = NextDue,
           \/ \E r \in Records : \E level \in LevelsOf[r] : Issue(r, level)
           \/ \E r \in Records : RenewGranted(r) \/ RenewDenied(r)
           \/ RenewUpsert \/ DeniedWipeRecord \/ DeniedWipeToken
    PROVE  LeaseIInv'
<1> USE DEF LeaseIInv
<1>0. /\ lease \in [Records -> Lease \union {None}] /\ clock \in Nat
      /\ manager \in [pc: {"idle", "upsert", "wipe record", "wipe token"},
                      record: Records \union {None}, level: Levels \union {None}, moment: Nat]
  BY TimesTyped DEF TypeOK
<1>1. ASSUME NEW r \in Records, NEW level \in LevelsOf[r], Issue(r, level) PROVE LeaseIInv'
  <2>1. level \in Levels BY LevelsAssumption
  <2>2. Granted(level, clock) \in Lease BY <1>0, <2>1, GrantedTyped
  <2>3. lease' = [lease EXCEPT ![r] = Granted(level, clock)]
        /\ cached' = cached \union {r}
        /\ UNCHANGED <<hwm, mark, token, clock, manager, purge, crashes>>
    BY <1>1 DEF Issue
  <2>4. lease'[r] # None BY <1>0, <2>2, <2>3, NoneAssumption
  <2>5. \A q \in Records : q \in cached' => q \in cached \/ lease'[q] # None BY <2>3, <2>4
  <2>6. TypeOK' BY <1>0, <2>2, <2>3 DEF TypeOK
  <2>7. QED BY <2>3, <2>5, <2>6, ManagerKeepsDue
<1>2. ASSUME NEW r \in Records, RenewGranted(r) PROVE LeaseIInv'
  <2>1. UNCHANGED <<lease, hwm, cached, token, mark, clock, purge, crashes>>
    BY <1>2 DEF RenewGranted, stored
  <2>2. manager' = IF lease[r] = None
                   THEN [Idle EXCEPT !.pc = "wipe record", !.record = r]
                   ELSE [pc |-> "upsert", record |-> r, level |-> lease[r].level,
                         moment |-> clock]
    BY <1>2 DEF RenewGranted
  <2>3. manager' \in [pc: {"idle", "upsert", "wipe record", "wipe token"},
                      record: Records \union {None}, level: Levels \union {None}, moment: Nat]
        /\ manager'.record = r /\ (manager'.pc = "upsert" => manager'.level \in Levels)
    BY <1>0, <2>2, LeaseTyped DEF Idle
  <2>4. TypeOK' BY <2>1, <2>3 DEF TypeOK
  <2>5. QED BY <2>1, <2>3, <2>4, ManagerKeepsDue
<1>3. ASSUME NEW r \in Records, RenewDenied(r) PROVE LeaseIInv'
  <2>1. /\ lease' = [lease EXCEPT ![r] = None]
        /\ manager' = [Idle EXCEPT !.pc = "wipe record", !.record = r]
        /\ UNCHANGED <<hwm, mark, cached, token, clock, purge, crashes>>
    BY <1>3 DEF RenewDenied
  <2>2. manager' \in [pc: {"idle", "upsert", "wipe record", "wipe token"},
                      record: Records \union {None}, level: Levels \union {None}, moment: Nat]
        /\ manager'.record = r /\ manager'.pc = "wipe record"
    BY <2>1 DEF Idle
  <2>3. lease' \in [Records -> Lease \union {None}] BY <1>0, <2>1
  <2>4. TypeOK' BY <2>1, <2>2, <2>3 DEF TypeOK
  <2>5. QED BY <2>1, <2>2, <2>4, ManagerKeepsDue
<1>4. CASE RenewUpsert
  <2>1. /\ manager.pc = "upsert"
        /\ lease' = [lease EXCEPT ![manager.record] = Granted(manager.level, manager.moment)]
        /\ manager' = Idle
        /\ UNCHANGED <<hwm, mark, cached, token, clock, purge, crashes>>
    BY <1>4 DEF RenewUpsert
  <2>2. manager.record \in Records /\ manager.level \in Levels /\ manager.moment \in Nat
    BY <1>0, <2>1
  <2>3. Granted(manager.level, manager.moment) \in Lease BY <2>2, GrantedTyped
  <2>4. lease' \in [Records -> Lease \union {None}] BY <1>0, <2>1, <2>3
  <2>5. manager' \in [pc: {"idle", "upsert", "wipe record", "wipe token"},
                      record: Records \union {None}, level: Levels \union {None}, moment: Nat]
        /\ manager'.pc = "idle"
    BY <2>1 DEF Idle
  <2>6. TypeOK' BY <2>1, <2>4, <2>5 DEF TypeOK
  <2>7. QED BY <2>1, <2>5, <2>6, ManagerKeepsDue
<1>5. CASE DeniedWipeRecord
  <2>1. /\ manager.pc = "wipe record"
        /\ cached' = cached \ {manager.record}
        /\ manager' = [manager EXCEPT !.pc = "wipe token"]
        /\ UNCHANGED <<lease, hwm, mark, token, clock, purge, crashes>>
    BY <1>5 DEF DeniedWipeRecord
  <2>2. manager' \in [pc: {"idle", "upsert", "wipe record", "wipe token"},
                      record: Records \union {None}, level: Levels \union {None}, moment: Nat]
        /\ manager'.pc = "wipe token" /\ manager'.record = manager.record
    BY <1>0, <2>1
  <2>3. TypeOK' BY <2>1, <2>2 DEF TypeOK
  <2>4. QED BY <2>1, <2>2, <2>3, ManagerKeepsDue
<1>6. CASE DeniedWipeToken
  <2>1. /\ token' = FALSE /\ manager' = Idle
        /\ UNCHANGED <<lease, hwm, mark, cached, clock, purge, crashes>>
    BY <1>6 DEF DeniedWipeToken
  <2>2. manager' \in [pc: {"idle", "upsert", "wipe record", "wipe token"},
                      record: Records \union {None}, level: Levels \union {None}, moment: Nat]
        /\ manager'.pc = "idle"
    BY <2>1 DEF Idle
  <2>3. TypeOK' BY <2>1, <2>2 DEF TypeOK
  <2>4. QED BY <2>1, <2>2, <2>3, ManagerKeepsDue
<1>7. QED BY <1>1, <1>2, <1>3, <1>4, <1>5, <1>6

\* A run takes the later of the clock and the mark as its time, and the mark with it.
LEMMA ObserveKept ==
    ASSUME LeaseIInv, due' = NextDue, NEW next \in {"list", "clear"}, Observe(next)
    PROVE  LeaseIInv' /\ hwm' >= hwm /\ mark' >= mark
<1> USE DEF LeaseIInv
<1> DEFINE now == Later(clock, mark)
<1>1. /\ purge.pc = "asleep" /\ mark' = now /\ hwm' = Persisted(now)
      /\ purge' = [Asleep EXCEPT !.pc = next, !.now = now]
      /\ UNCHANGED <<lease, cached, token, clock, manager, crashes>>
  BY DEF Observe
<1>2. clock \in Nat /\ mark \in Nat /\ hwm = mark BY TimesTyped
<1>3. now \in Nat /\ now >= mark /\ Persisted(now) = now
  BY <1>2, LaterIsLater, PersistedFollows
<1> HIDE DEF now
<1>4. purge' = [pc |-> next, now |-> now, todo |-> {}, record |-> None]
  BY <1>1 DEF Asleep
<1>5. purge' \in [pc: {"asleep", "list", "delete", "wipe record", "clear", "wipe all",
                       "wipe token"},
                  now: Nat, todo: SUBSET Records, record: Records \union {None}]
  BY <1>3, <1>4
<1>6. purge'.pc = next /\ purge'.now = now BY <1>4
<1>7. TypeOK' BY <1>1, <1>3, <1>5 DEF TypeOK
<1>8. due' \subseteq Records BY DEF NextDue
<1>9. SweepUnderWay' BY <1>6 DEF SweepUnderWay
<1>10. RunAnchored' BY <1>1, <1>3, <1>6 DEF RunAnchored
<1>11. hwm' >= hwm /\ mark' >= mark /\ mark' = hwm' BY <1>1, <1>2, <1>3
<1>12. (purge'.pc = "wipe record" => purge'.record \in Records)
       /\ (manager'.pc # "idle" => manager'.record \in Records)
       /\ (manager'.pc = "upsert" => manager'.level \in Levels)
  BY <1>1, <1>6
<1>13. QED BY <1>7, <1>8, <1>9, <1>10, <1>11, <1>12

LEMMA PurgeStepKept ==
    ASSUME LeaseIInv, due' = NextDue, PurgeStep
    PROVE  /\ LeaseIInv' /\ hwm' >= hwm /\ mark' >= mark
           /\ purge'.pc = "asleep" => \A r \in due : lease'[r] = None /\ r \notin cached'
<1> USE DEF LeaseIInv
<1>0. /\ purge \in [pc: {"asleep", "list", "delete", "wipe record", "clear", "wipe all",
                         "wipe token"},
                    now: Nat, todo: SUBSET Records, record: Records \union {None}]
      /\ lease \in [Records -> Lease \union {None}] /\ cached \subseteq Records
      /\ hwm \in Nat /\ mark \in Nat
  BY DEF TypeOK
<1>1. CASE ListExpired
  <2> DEFINE todo == {r \in Records : Expired(lease[r], purge.now)}
  <2>1. /\ purge.pc = "list" /\ purge' = [purge EXCEPT !.pc = "delete", !.todo = todo]
        /\ UNCHANGED <<lease, hwm, cached, token, mark, clock, manager, crashes>>
    BY <1>1 DEF ListExpired, stored
  <2>2. todo \in SUBSET Records OBVIOUS
  <2>3. todo = {r \in Records : lease[r] # None /\ lease[r].expires <= purge.now}
    <3>1. \A r \in Records : Expired(lease[r], purge.now) <=>
                             lease[r] # None /\ lease[r].expires <= purge.now
      BY <1>0, LeaseTyped DEF Expired
    <3>2. QED BY <3>1
  <2> HIDE DEF todo
  <2>4. purge' \in [pc: {"asleep", "list", "delete", "wipe record", "clear", "wipe all",
                         "wipe token"},
                    now: Nat, todo: SUBSET Records, record: Records \union {None}]
        /\ purge'.pc = "delete" /\ purge'.todo = todo /\ purge'.now = purge.now
    BY <1>0, <2>1, <2>2
  <2>5. due' = todo BY <2>1, <2>3, <2>4 DEF NextDue
  <2>6. TypeOK' BY <2>1, <2>4 DEF TypeOK
  <2>7. SweepUnderWay' /\ RunAnchored' BY <2>1, <2>4, <2>5 DEF SweepUnderWay, RunAnchored
  <2>8. LeaseIInv' BY <2>1, <2>2, <2>4, <2>5, <2>6, <2>7
  <2>9. hwm' >= hwm /\ mark' >= mark BY <1>0, <2>1, TimesStay
  <2>10. purge'.pc # "asleep" BY <2>4
  <2>11. QED BY <2>8, <2>9, <2>10
<1>2. CASE DeleteLease
  <2>1. PICK r \in purge.todo :
           /\ purge.pc = "delete" /\ lease' = [lease EXCEPT ![r] = None]
           /\ purge' = [purge EXCEPT !.pc = "wipe record", !.todo = @ \ {r}, !.record = r]
           /\ UNCHANGED <<hwm, mark, cached, token, clock, manager, crashes>>
    BY <1>2 DEF DeleteLease
  <2>2. r \in Records /\ purge.todo \ {r} \in SUBSET Records BY <1>0
  <2>3. purge' \in [pc: {"asleep", "list", "delete", "wipe record", "clear", "wipe all",
                         "wipe token"},
                    now: Nat, todo: SUBSET Records, record: Records \union {None}]
        /\ purge'.pc = "wipe record" /\ purge'.todo = purge.todo \ {r} /\ purge'.record = r
        /\ purge'.now = purge.now
    BY <1>0, <2>1, <2>2
  <2>4. lease' \in [Records -> Lease \union {None}] /\ lease'[r] = None
        /\ \A q \in Records : q # r => lease'[q] = lease[q]
    BY <1>0, <2>1, <2>2
  <2>5. TypeOK' BY <2>1, <2>3, <2>4 DEF TypeOK
  <2>6. due' \subseteq due BY <2>1, <2>3 DEF NextDue
  <2>7. SweepUnderWay' /\ RunAnchored'
    BY <2>1, <2>3, <2>4, <2>6 DEF SweepUnderWay, RunAnchored
  <2>8. LeaseIInv' BY <2>1, <2>2, <2>3, <2>5, <2>6, <2>7
  <2>9. hwm' >= hwm /\ mark' >= mark BY <1>0, <2>1, TimesStay
  <2>10. purge'.pc # "asleep" BY <2>3
  <2>11. QED BY <2>8, <2>9, <2>10
<1>3. CASE WipeRecord
  <2>1. /\ purge.pc = "wipe record" /\ cached' = cached \ {purge.record}
        /\ purge' = [purge EXCEPT !.pc = "delete", !.record = None]
        /\ UNCHANGED <<lease, hwm, mark, token, clock, manager, crashes>>
    BY <1>3 DEF WipeRecord, CacheWithout
  <2>2. purge' \in [pc: {"asleep", "list", "delete", "wipe record", "clear", "wipe all",
                         "wipe token"},
                    now: Nat, todo: SUBSET Records, record: Records \union {None}]
        /\ purge'.pc = "delete" /\ purge'.todo = purge.todo /\ purge'.now = purge.now
    BY <1>0, <2>1
  <2>3. TypeOK' BY <1>0, <2>1, <2>2 DEF TypeOK
  <2>4. due' \subseteq due BY <2>1, <2>2 DEF NextDue
  <2>5. SweepUnderWay' /\ RunAnchored'
    BY <2>1, <2>2, <2>4 DEF SweepUnderWay, RunAnchored
  <2>6. LeaseIInv' BY <2>1, <2>2, <2>3, <2>4, <2>5
  <2>7. hwm' >= hwm /\ mark' >= mark BY <1>0, <2>1, TimesStay
  <2>8. purge'.pc # "asleep" BY <2>2
  <2>9. QED BY <2>6, <2>7, <2>8
<1>4. CASE PurgeDone
  <2>1. /\ purge.pc = "delete" /\ purge.todo = {} /\ purge' = Asleep
        /\ UNCHANGED <<lease, hwm, cached, token, mark, clock, manager, crashes>>
    BY <1>4 DEF PurgeDone, stored
  <2>2. purge' \in [pc: {"asleep", "list", "delete", "wipe record", "clear", "wipe all",
                         "wipe token"},
                    now: Nat, todo: SUBSET Records, record: Records \union {None}]
        /\ purge'.pc = "asleep"
    BY <2>1 DEF Asleep
  <2>3. TypeOK' BY <2>1, <2>2 DEF TypeOK
  <2>4. due' = {} BY <2>2 DEF NextDue
  <2>5. SweepUnderWay' /\ RunAnchored' BY <2>2, <2>4 DEF SweepUnderWay, RunAnchored
  <2>6. \A r \in due : lease'[r] = None /\ r \notin cached' BY <2>1 DEF SweepUnderWay
  <2>7. LeaseIInv' BY <2>1, <2>2, <2>3, <2>4, <2>5
  <2>8. hwm' >= hwm /\ mark' >= mark BY <1>0, <2>1, TimesStay
  <2>9. QED BY <2>7, <2>8, <2>6
<1>5. QED BY <1>1, <1>2, <1>3, <1>4 DEF PurgeStep

LEMMA RevokeStepKept ==
    ASSUME LeaseIInv, due' = NextDue, RevokeStep
    PROVE  /\ LeaseIInv' /\ hwm' >= hwm /\ mark' >= mark
           /\ purge'.pc = "asleep" => \A r \in due : lease'[r] = None /\ r \notin cached'
<1> USE DEF LeaseIInv
<1>0. /\ purge \in [pc: {"asleep", "list", "delete", "wipe record", "clear", "wipe all",
                         "wipe token"},
                    now: Nat, todo: SUBSET Records, record: Records \union {None}]
      /\ lease \in [Records -> Lease \union {None}] /\ cached \subseteq Records
      /\ hwm \in Nat /\ mark \in Nat
  BY DEF TypeOK
<1>1. CASE RevokeClear
  <2>1. /\ purge.pc = "clear" /\ lease' = [r \in Records |-> None]
        /\ purge' = [purge EXCEPT !.pc = "wipe all"]
        /\ UNCHANGED <<hwm, mark, cached, token, clock, manager, crashes>>
    BY <1>1 DEF RevokeClear
  <2>2. purge' \in [pc: {"asleep", "list", "delete", "wipe record", "clear", "wipe all",
                         "wipe token"},
                    now: Nat, todo: SUBSET Records, record: Records \union {None}]
        /\ purge'.pc = "wipe all" /\ purge'.now = purge.now
    BY <1>0, <2>1
  <2>3. TypeOK' BY <2>1, <2>2 DEF TypeOK
  <2>4. due' \subseteq due BY <2>1, <2>2 DEF NextDue
  <2>5. SweepUnderWay' /\ RunAnchored'
    BY <2>1, <2>2, <2>4 DEF SweepUnderWay, RunAnchored
  <2>6. LeaseIInv' BY <2>1, <2>2, <2>3, <2>4, <2>5
  <2>7. hwm' >= hwm /\ mark' >= mark BY <1>0, <2>1, TimesStay
  <2>8. purge'.pc # "asleep" BY <2>2
  <2>9. QED BY <2>6, <2>7, <2>8
<1>2. CASE RevokeWipeAll
  <2>1. /\ purge.pc = "wipe all" /\ cached' = {}
        /\ purge' = [purge EXCEPT !.pc = "wipe token"]
        /\ UNCHANGED <<lease, hwm, mark, token, clock, manager, crashes>>
    BY <1>2 DEF RevokeWipeAll
  <2>2. purge' \in [pc: {"asleep", "list", "delete", "wipe record", "clear", "wipe all",
                         "wipe token"},
                    now: Nat, todo: SUBSET Records, record: Records \union {None}]
        /\ purge'.pc = "wipe token" /\ purge'.now = purge.now
    BY <1>0, <2>1
  <2>3. TypeOK' BY <2>1, <2>2 DEF TypeOK
  <2>4. due' \subseteq due BY <2>1, <2>2 DEF NextDue
  <2>5. SweepUnderWay' /\ RunAnchored'
    BY <2>1, <2>2, <2>4 DEF SweepUnderWay, RunAnchored
  <2>6. LeaseIInv' BY <2>1, <2>2, <2>3, <2>4, <2>5
  <2>7. hwm' >= hwm /\ mark' >= mark BY <1>0, <2>1, TimesStay
  <2>8. purge'.pc # "asleep" BY <2>2
  <2>9. QED BY <2>6, <2>7, <2>8
<1>3. CASE RevokeWipeToken
  <2>1. /\ purge.pc = "wipe token" /\ token' = FALSE /\ purge' = Asleep
        /\ UNCHANGED <<lease, hwm, mark, cached, clock, manager, crashes>>
    BY <1>3 DEF RevokeWipeToken
  <2>2. purge' \in [pc: {"asleep", "list", "delete", "wipe record", "clear", "wipe all",
                         "wipe token"},
                    now: Nat, todo: SUBSET Records, record: Records \union {None}]
        /\ purge'.pc = "asleep"
    BY <2>1 DEF Asleep
  <2>3. TypeOK' BY <2>1, <2>2 DEF TypeOK
  <2>4. due' = {} BY <2>2 DEF NextDue
  <2>5. SweepUnderWay' /\ RunAnchored' BY <2>2, <2>4 DEF SweepUnderWay, RunAnchored
  <2>6. \A r \in due : lease'[r] = None /\ r \notin cached' BY <2>1 DEF SweepUnderWay
  <2>7. LeaseIInv' BY <2>1, <2>2, <2>3, <2>4, <2>5
  <2>8. hwm' >= hwm /\ mark' >= mark BY <1>0, <2>1, TimesStay
  <2>9. QED BY <2>7, <2>8, <2>6
<1>4. QED BY <1>1, <1>2, <1>3 DEF RevokeStep

LEMMA ClockStepKept ==
    ASSUME LeaseIInv, due' = NextDue, SetClock
    PROVE  LeaseIInv' /\ hwm' >= hwm /\ mark' >= mark
<1> USE DEF LeaseIInv
<1>1. clock' \in Time /\ UNCHANGED <<lease, hwm, cached, token, mark, manager, purge, crashes>>
  BY DEF SetClock, stored
<1>2. TypeOK' BY <1>1 DEF TypeOK
<1>3. due' \subseteq Records /\ RunAnchored' /\ SweepUnderWay' BY <1>1, ManagerKeepsDue
<1>4. hwm' >= hwm /\ mark' >= mark
  <2>1. hwm' = hwm /\ mark' = mark /\ hwm \in Nat /\ mark \in Nat BY <1>1, TimesTyped
  <2>2. QED BY ONLY <2>1
<1>5. LeaseIInv' BY <1>1, <1>2, <1>3
<1>6. QED BY <1>4, <1>5

LEMMA RestartKept ==
    ASSUME LeaseIInv, due' = NextDue, Restart
    PROVE  LeaseIInv' /\ hwm' >= hwm /\ mark' >= mark /\ crashes' # crashes
<1> USE DEF LeaseIInv
<1>1. /\ crashes < MaxCrashes /\ crashes' = crashes + 1 /\ mark' = hwm
      /\ manager' = Idle /\ purge' = Asleep
      /\ UNCHANGED <<lease, hwm, cached, token, clock>>
  BY DEF Restart, LoadedMark, stored
<1>2. crashes \in 0..MaxCrashes BY DEF TypeOK
<1>3. crashes' \in 0..MaxCrashes /\ crashes' # crashes
  <2>1. MaxCrashes \in Nat BY BoundsAssumption
  <2>2. QED BY ONLY <1>1, <1>2, <2>1
<1>4. purge'.pc = "asleep" /\ manager'.pc = "idle" BY <1>1 DEF Asleep, Idle
<1>5. TypeOK' BY <1>1, <1>3 DEF TypeOK, Asleep, Idle
<1>6. due' = {} BY <1>4 DEF NextDue
<1>7. SweepUnderWay' /\ RunAnchored' BY <1>4, <1>6 DEF SweepUnderWay, RunAnchored
<1>8. hwm' >= hwm /\ mark' >= mark
  <2>1. hwm' = hwm /\ mark' = mark /\ hwm \in Nat /\ mark \in Nat BY <1>1, TimesTyped
  <2>2. QED BY ONLY <2>1
<1>9. LeaseIInv' BY <1>1, <1>4, <1>5, <1>6, <1>7
<1>10. QED BY <1>3, <1>8, <1>9

\* What a step does to the times and to a run that ends with it.
StepSound ==
    /\ hwm' >= hwm /\ mark' >= mark
    /\ purge.pc # "asleep" /\ purge'.pc = "asleep" /\ crashes' = crashes =>
          \A r \in due : lease'[r] = None /\ r \notin cached'

LEMMA RunStepKept ==
    ASSUME LeaseIInv, RunNext
    PROVE  LeaseIInv' /\ StepSound
<1>1. due' = NextDue BY DEF RunNext
<1>2. hwm \in Nat /\ mark \in Nat BY TimesTyped DEF LeaseIInv
<1>3. CASE \/ \E r \in Records : \E level \in LevelsOf[r] : Issue(r, level)
           \/ \E r \in Records : RenewGranted(r) \/ RenewDenied(r)
           \/ RenewUpsert \/ DeniedWipeRecord \/ DeniedWipeToken
  <2>1. LeaseIInv' BY <1>1, <1>3, ManagerStepKept
  <2>2. UNCHANGED <<hwm, mark, purge>>
    BY <1>3 DEF Issue, RenewGranted, RenewDenied, RenewUpsert, DeniedWipeRecord,
                DeniedWipeToken, stored
  <2>3. QED BY <1>2, <2>1, <2>2 DEF StepSound
<1>4. CASE RunOnTimer
  <2>1. purge.pc = "asleep" BY <1>4 DEF RunOnTimer, Observe
  <2>2. QED BY <1>1, <1>4, <2>1, ObserveKept DEF RunOnTimer, StepSound
<1>5. CASE RunOnRevoke
  <2>1. purge.pc = "asleep" BY <1>5 DEF RunOnRevoke, Observe
  <2>2. QED BY <1>1, <1>5, <2>1, ObserveKept DEF RunOnRevoke, StepSound
<1>6. CASE PurgeStep BY <1>1, <1>6, PurgeStepKept DEF StepSound
<1>7. CASE RevokeStep BY <1>1, <1>7, RevokeStepKept DEF StepSound
<1>8. CASE SetClock
  <2>1. purge' = purge BY <1>8 DEF SetClock
  <2>2. QED BY <1>1, <1>8, <2>1, ClockStepKept DEF StepSound
<1>9. CASE Restart BY <1>1, <1>9, RestartKept DEF StepSound
<1>10. QED BY <1>3, <1>4, <1>5, <1>6, <1>7, <1>8, <1>9 DEF RunNext, Next

LEMMA RunStutterKept ==
    ASSUME LeaseIInv, UNCHANGED runVars
    PROVE  LeaseIInv' /\ StepSound
<1>1. UNCHANGED <<lease, hwm, mark, cached, token, clock, manager, purge, crashes, due>>
  BY DEF runVars, vars
<1>2. LeaseIInv' BY <1>1 DEF LeaseIInv, TypeOK, RunAnchored, SweepUnderWay
<1>3. hwm \in Nat /\ mark \in Nat BY TimesTyped DEF LeaseIInv
<1>4. QED BY <1>1, <1>2, <1>3 DEF StepSound

\* The purge engine, the lease manager, the clock and restarts keep the inductive
\* invariant, with any number of records and levels and any TTL of at least a day.
\* (LeaseManager, PurgeEngine.)
THEOREM LeaseInvariance == RunSpec => []LeaseIInv
<1>1. RunInit => LeaseIInv BY RunStarts
<1>2. LeaseIInv /\ [RunNext]_runVars => LeaseIInv' BY RunStepKept, RunStutterKept
<1>3. QED BY <1>1, <1>2, PTL DEF RunSpec

\* The time of a purge never goes back, whatever the clock does and however often the
\* application restarts, and a run that ends has removed all that was due when it began,
\* although leases are issued and renewed meanwhile.  (PurgeEngine, LeaseManager.)
THEOREM PurgesAreSound == RunSpec => PurgesSound
<1>1. LeaseIInv /\ [RunNext]_runVars => StepSound /\ RunAnchored'
  BY RunStepKept, RunStutterKept DEF LeaseIInv
<1>2. LeaseIInv /\ [RunNext]_runVars => [hwm' >= hwm /\ mark' >= mark /\ RunAnchored']_vars
  BY <1>1 DEF StepSound
<1>3. LeaseIInv /\ [RunNext]_runVars =>
         [(purge.pc # "asleep" /\ purge'.pc = "asleep" /\ crashes' = crashes) =>
             \A r \in due : lease'[r] = None /\ r \notin cached']_runVars
  BY <1>1 DEF StepSound
<1>4. RunSpec => Anchored BY <1>2, LeaseInvariance, PTL DEF RunSpec, Anchored
<1>5. RunSpec => Swept BY <1>3, LeaseInvariance, PTL DEF RunSpec, Swept
<1>6. QED BY <1>4, <1>5 DEF PurgesSound
-----------------------------------------------------------------------------
(* Identity: the login with a device code                                  *)

LoginRecord ==
    {Off}
    \union [pc: {"asked", "enrolling"}, at: Nat]
    \union [pc: {"poll"}, interval: Nat, deadline: Nat, slowed: Nat]
    \union [pc: {"polled"}, at: Nat, interval: Nat, deadline: Nat, slowed: Nat]
    \union [pc: {"asleep"}, wake: Nat, interval: Nat, deadline: Nat, slowed: Nat]
    \union [pc: {"save"}, device: DeviceIds]
Pace == [last: {Never} \union Nat, asked: Nat]

LoginTyped ==
    /\ second \in Nat
    /\ login \in [Programs -> LoginRecord]
    /\ paces \in [Programs -> Pace]

\* The login's own interval is not shorter than what the provider asks for, and the next
\* poll, whenever the program comes to it, is that long after the last.
PollsApart(p) ==
    /\ paces[p].last # Never => paces[p].last <= second
    /\ login[p].pc \in {"poll", "polled", "asleep"} => paces[p].asked <= login[p].interval
    /\ login[p].pc = "poll" /\ paces[p].last # Never =>
          paces[p].last + paces[p].asked <= second
    /\ login[p].pc = "asleep" /\ paces[p].last # Never =>
          paces[p].last + paces[p].asked <= login[p].wake

\* It polls before its deadline only, and sleeps no longer than its interval.
EndsInTime(p) ==
    /\ login[p].pc = "polled" =>
          /\ login[p].at <= login[p].deadline
          /\ second <= login[p].at + RequestTime
    /\ login[p].pc = "asleep" =>
          /\ second <= login[p].wake
          /\ login[p].wake <= login[p].deadline + login[p].interval + RequestTime

LoginIInv == LoginTyped /\ ~hasty /\ \A p \in Programs : PollsApart(p) /\ EndsInTime(p)

\* What a record of a login has, by where the login is.
LEMMA LoginIs ==
    ASSUME NEW r \in LoginRecord
    PROVE  /\ r.pc \in {"asked", "enrolling", "polled"} => r.at \in Nat
           /\ r.pc \in {"poll", "polled", "asleep"} =>
                 r.interval \in Nat /\ r.deadline \in Nat /\ r.slowed \in Nat
           /\ r.pc = "asleep" => r.wake \in Nat
           /\ r.pc = "save" => r.device \in DeviceIds
BY DEF LoginRecord, Off

LEMMA MaxOfPair ==
    ASSUME NEW i \in Nat
    PROVE  Max({i, 1}) \in Nat /\ i <= Max({i, 1})
<1>1. \E x \in {i, 1} : \A y \in {i, 1} : x >= y
  <2>1. CASE i >= 1 BY <2>1
  <2>2. CASE ~(i >= 1) BY <2>2
  <2>3. QED BY <2>1, <2>2
<1>2. Max({i, 1}) \in {i, 1} /\ \A y \in {i, 1} : Max({i, 1}) >= y BY <1>1 DEF Max
<1>3. QED BY <1>2

LEMMA LoginInitIInv == LoginInit => LoginIInv
BY DEF LoginInit, LoginIInv, LoginTyped, LoginRecord, Pace, PollsApart, EndsInTime, Off, Never

\* One login goes on: the others are as they were.
LEMMA OneLogin ==
    ASSUME NEW p \in Programs, NEW rec \in LoginRecord, NEW pace \in Pace, LoginIInv,
           login' = [login EXCEPT ![p] = rec], paces' = [paces EXCEPT ![p] = pace],
           second' = second, ~hasty', PollsApart(p)', EndsInTime(p)'
    PROVE  LoginIInv'
<1>1. LoginTyped' BY DEF LoginIInv, LoginTyped
<1>2. \A q \in Programs : q # p => login'[q] = login[q] /\ paces'[q] = paces[q]
  BY DEF LoginIInv, LoginTyped
<1>3. ASSUME NEW q \in Programs PROVE PollsApart(q)' /\ EndsInTime(q)'
  <2>1. CASE q = p BY <2>1
  <2>2. CASE q # p BY <1>2, <2>2 DEF LoginIInv, PollsApart, EndsInTime
  <2>3. QED BY <2>1, <2>2
<1>4. QED BY <1>1, <1>3 DEF LoginIInv

\* Its pace stays.
LEMMA OneLoginOnly ==
    ASSUME NEW p \in Programs, NEW rec \in LoginRecord, LoginIInv,
           login' = [login EXCEPT ![p] = rec], UNCHANGED <<second, paces, hasty>>,
           PollsApart(p)', EndsInTime(p)'
    PROVE  LoginIInv'
<1>1. paces' = [paces EXCEPT ![p] = paces[p]] /\ paces[p] \in Pace
  BY DEF LoginIInv, LoginTyped
<1>2. ~hasty' BY DEF LoginIInv
<1>3. QED BY <1>1, <1>2, OneLogin

\* A login at which neither poll nor sleep is ahead promises nothing.
LEMMA OffKeeps ==
    ASSUME NEW p \in Programs, NEW rec \in LoginRecord, LoginIInv,
           login' = [login EXCEPT ![p] = rec], UNCHANGED <<second, paces, hasty>>,
           rec.pc \notin {"poll", "polled", "asleep"}
    PROVE  LoginIInv'
<1>1. login'[p] = rec BY DEF LoginIInv, LoginTyped
<1>2. PollsApart(p) BY DEF LoginIInv
<1>3. PollsApart(p)' /\ EndsInTime(p)' BY <1>1, <1>2 DEF PollsApart, EndsInTime
<1>4. QED BY <1>3, OneLoginOnly

LEMMA SecondPassesKeeps == LoginIInv /\ SecondPasses => LoginIInv'
<1> SUFFICES ASSUME LoginIInv, SecondPasses PROVE LoginIInv' OBVIOUS
<1>1. /\ second' = second + 1 /\ UNCHANGED <<login, paces, hasty>>
      /\ \A p \in Programs : ~Urgent(p)
      /\ second \in Nat /\ RequestTime \in Nat
  BY LoginBounds DEF SecondPasses, LoginIInv, LoginTyped
<1>2. ASSUME NEW p \in Programs PROVE PollsApart(p)' /\ EndsInTime(p)'
  <2>1. PollsApart(p) /\ EndsInTime(p) /\ login[p] \in LoginRecord /\ paces[p] \in Pace
    BY DEF LoginIInv, LoginTyped
  <2>2. paces[p].asked \in Nat /\ (paces[p].last # Never => paces[p].last \in Nat)
    BY <2>1 DEF Pace
  <2>3. PollsApart(p)' BY <1>1, <2>1, <2>2 DEF PollsApart
  <2>4. EndsInTime(p)' BY <1>1, <2>1, LoginIs DEF EndsInTime, Urgent
  <2>5. QED BY <2>3, <2>4
<1>3. QED BY <1>1, <1>2 DEF LoginIInv, LoginTyped

LEMMA StartDeviceCodeKeeps ==
    ASSUME NEW p \in Programs, NEW i \in Intervals, LoginIInv, StartDeviceCode(p, i)
    PROVE  LoginIInv'
<1> DEFINE rec == [pc |-> "poll", interval |-> Max({i, 1}), deadline |-> second + MaxWait,
                   slowed |-> 0]
           pace == [last |-> Never, asked |-> i]
<1>1. login' = [login EXCEPT ![p] = rec] /\ paces' = [paces EXCEPT ![p] = pace]
      /\ second' = second /\ hasty' = hasty
  BY DEF StartDeviceCode, Became
<1>2. i \in Nat /\ MaxWait \in Nat /\ second \in Nat BY LoginBounds DEF LoginIInv, LoginTyped
<1>3. Max({i, 1}) \in Nat /\ i <= Max({i, 1}) BY <1>2, MaxOfPair
<1>4. rec \in LoginRecord /\ pace \in Pace BY <1>2, <1>3 DEF LoginRecord, Pace
<1>5. login'[p] = rec /\ paces'[p] = pace BY <1>1 DEF LoginIInv, LoginTyped
<1>6. PollsApart(p)' /\ EndsInTime(p)' BY <1>3, <1>5 DEF PollsApart, EndsInTime
<1>7. ~hasty' BY <1>1 DEF LoginIInv
<1>8. QED BY <1>1, <1>4, <1>6, <1>7, OneLogin

LEMMA PollKeeps ==
    ASSUME NEW p \in Programs, LoginIInv, Poll(p)
    PROVE  LoginIInv'
<1>1. /\ login[p].pc = "poll" /\ second' = second
      /\ login[p] \in LoginRecord /\ paces[p] \in Pace /\ second \in Nat
      /\ PollsApart(p) /\ EndsInTime(p) /\ ~hasty
  BY DEF Poll, LoginIInv, LoginTyped
<1>2. login[p].interval \in Nat /\ login[p].deadline \in Nat /\ login[p].slowed \in Nat
  BY <1>1, LoginIs
<1>3. CASE second >= login[p].deadline
  <2>1. login' = [login EXCEPT ![p] = Off] /\ UNCHANGED <<second, paces, hasty>>
    BY <1>3 DEF Poll, Became
  <2>2. Off \in LoginRecord /\ Off.pc = "off" BY DEF LoginRecord, Off
  <2>3. QED BY <2>1, <2>2, OffKeeps
<1>4. CASE ~(second >= login[p].deadline)
  <2> DEFINE rec == [pc |-> "polled", at |-> second, interval |-> login[p].interval,
                     deadline |-> login[p].deadline, slowed |-> login[p].slowed]
             pace == [paces[p] EXCEPT !.last = second]
  <2>1. /\ login' = [login EXCEPT ![p] = rec]
        /\ hasty' = (hasty \/ (paces[p].last # Never
                               /\ second - paces[p].last < paces[p].asked))
        /\ paces' = [paces EXCEPT ![p] = pace]
    BY <1>4 DEF Poll
  <2>2. rec \in LoginRecord BY <1>1, <1>2 DEF LoginRecord
  <2>3. pace \in Pace /\ pace.last = second /\ pace.asked = paces[p].asked
    BY <1>1 DEF Pace
  <2>4. paces[p].asked \in Nat /\ (paces[p].last # Never => paces[p].last \in Nat)
    BY <1>1 DEF Pace
  <2>5. ~hasty'
    <3>1. ~(paces[p].last # Never /\ second - paces[p].last < paces[p].asked)
      BY <1>1, <2>4 DEF PollsApart
    <3>2. QED BY <1>1, <2>1, <3>1, Zenon
  <2> HIDE DEF pace
  <2>6. login'[p] = rec /\ paces'[p] = pace BY <2>1 DEF LoginIInv, LoginTyped
  <2>7. PollsApart(p)'
    <3>1. paces[p].asked <= login[p].interval BY <1>1 DEF PollsApart
    <3>2. QED BY <1>1, <2>3, <2>6, <3>1 DEF PollsApart
  <2>8. EndsInTime(p)' BY <1>1, <1>2, <1>4, <2>6, LoginBounds DEF EndsInTime
  <2>9. QED BY <1>1, <2>1, <2>2, <2>3, <2>5, <2>7, <2>8, OneLogin
<1>5. QED BY <1>3, <1>4

\* From the answer on the program sleeps, and for longer if it is told so.
LEMMA SleepKeeps ==
    ASSUME NEW p \in Programs, NEW more \in Nat, NEW slowed \in Nat, LoginIInv,
           login[p].pc = "polled",
           login' = [login EXCEPT ![p] = Sleeping(p, login[p].interval + more, slowed)],
           paces' = [paces EXCEPT ![p].asked = @ + more],
           second' = second, hasty' = hasty
    PROVE  LoginIInv'
<1> DEFINE rec == Sleeping(p, login[p].interval + more, slowed)
           pace == [paces[p] EXCEPT !.asked = paces[p].asked + more]
<1>1. /\ login[p] \in LoginRecord /\ paces[p] \in Pace /\ second \in Nat
      /\ PollsApart(p) /\ EndsInTime(p) /\ ~hasty
      /\ paces \in [Programs -> Pace] /\ login \in [Programs -> LoginRecord]
  BY DEF LoginIInv, LoginTyped
<1>2. /\ login[p].interval \in Nat /\ login[p].deadline \in Nat /\ login[p].at \in Nat
      /\ RequestTime \in Nat
  BY <1>1, LoginIs, LoginBounds
<1>3. /\ rec \in LoginRecord /\ rec.pc = "asleep"
      /\ rec.wake = second + (login[p].interval + more)
      /\ rec.interval = login[p].interval + more /\ rec.deadline = login[p].deadline
  BY <1>1, <1>2 DEF Sleeping, LoginRecord
<1>4. paces[p].asked \in Nat /\ (paces[p].last # Never => paces[p].last \in Nat)
  BY <1>1 DEF Pace
<1>5. pace \in Pace /\ pace.asked = paces[p].asked + more /\ pace.last = paces[p].last
  BY <1>1, <1>4 DEF Pace
<1>6. paces' = [paces EXCEPT ![p] = pace] BY <1>1
<1> HIDE DEF rec, pace
<1>7. login'[p] = rec /\ paces'[p] = pace BY <1>1, <1>6 DEF rec
<1>8. PollsApart(p)' BY <1>1, <1>2, <1>3, <1>4, <1>5, <1>7 DEF PollsApart
<1>9. EndsInTime(p)' BY <1>1, <1>2, <1>3, <1>7 DEF EndsInTime
<1>10. login' = [login EXCEPT ![p] = rec] BY DEF rec
<1>11. ~hasty' BY <1>1
<1>12. QED BY <1>3, <1>5, <1>6, <1>8, <1>9, <1>10, <1>11, OneLogin

LEMMA WakeKeeps ==
    ASSUME NEW p \in Programs, LoginIInv, Wake(p)
    PROVE  LoginIInv'
<1> DEFINE rec == [pc |-> "poll", interval |-> login[p].interval,
                   deadline |-> login[p].deadline, slowed |-> login[p].slowed]
<1>1. /\ login[p].pc = "asleep" /\ second >= login[p].wake
      /\ login' = [login EXCEPT ![p] = rec] /\ UNCHANGED <<second, paces, hasty>>
      /\ login[p] \in LoginRecord /\ paces[p] \in Pace /\ second \in Nat
      /\ PollsApart(p)
  BY DEF Wake, Became, LoginIInv, LoginTyped
<1>2. /\ login[p].interval \in Nat /\ login[p].deadline \in Nat /\ login[p].slowed \in Nat
      /\ login[p].wake \in Nat
  BY <1>1, LoginIs
<1>3. rec \in LoginRecord BY <1>2 DEF LoginRecord
<1>4. paces[p].asked \in Nat /\ (paces[p].last # Never => paces[p].last \in Nat)
  BY <1>1 DEF Pace
<1>5. login'[p] = rec BY <1>1 DEF LoginIInv, LoginTyped
<1>6. PollsApart(p)' /\ EndsInTime(p)' BY <1>1, <1>2, <1>4, <1>5 DEF PollsApart, EndsInTime
<1>7. QED BY <1>1, <1>3, <1>6, OneLoginOnly

LEMMA LoginSteps == LoginIInv /\ [LoginNext]_loginVars => LoginIInv'
<1> SUFFICES ASSUME LoginIInv, [LoginNext]_loginVars PROVE LoginIInv' OBVIOUS
<1>1. CASE SecondPasses BY <1>1, SecondPassesKeeps
<1>2. ASSUME NEW p \in Programs,
             EnsureEnrolled(p) \/ Authorized(p) \/ LoginFails(p) \/ EnrollFails(p) \/ Save(p)
             \/ \E d \in DeviceIds : Enroll(p, d)
      PROVE  LoginIInv'
  <2>1. second \in Nat BY DEF LoginIInv, LoginTyped
  <2>2. PICK rec \in LoginRecord :
           /\ login' = [login EXCEPT ![p] = rec] /\ UNCHANGED <<second, paces, hasty>>
           /\ rec.pc \notin {"poll", "polled", "asleep"}
    BY <1>2, <2>1 DEF EnsureEnrolled, Authorized, LoginFails, EnrollFails, Save, Enroll,
                      Became, LoginRecord, Off
  <2>3. QED BY <2>2, OffKeeps
<1>3. ASSUME NEW p \in Programs, NEW i \in Intervals, StartDeviceCode(p, i)
      PROVE  LoginIInv'
  BY <1>3, StartDeviceCodeKeeps
<1>4. ASSUME NEW p \in Programs, Poll(p) PROVE LoginIInv' BY <1>4, PollKeeps
<1>5. ASSUME NEW p \in Programs, Pending(p) \/ SlowDown(p) PROVE LoginIInv'
  <2>1. /\ login[p].pc = "polled" /\ login[p] \in LoginRecord /\ paces[p] \in Pace
        /\ paces \in [Programs -> Pace]
    BY <1>5 DEF Pending, SlowDown, LoginIInv, LoginTyped
  <2>2. /\ login[p].interval \in Nat /\ login[p].slowed \in Nat /\ Slower \in Nat
        /\ 0 \in Nat
    BY <2>1, LoginIs, LoginBounds
  <2>3. paces[p].asked \in Nat BY <2>1 DEF Pace
  <2>4. CASE Pending(p)
    <3>1. login[p].interval + 0 = login[p].interval /\ paces[p].asked + 0 = paces[p].asked
      BY <2>2, <2>3
    <3>2. [paces EXCEPT ![p].asked = @ + 0] = paces BY <2>1, <3>1 DEF Pace
    <3>3. QED BY <2>1, <2>2, <2>4, <3>1, <3>2, SleepKeeps DEF Pending, Became
  <2>5. CASE SlowDown(p)
    <3>1. login[p].slowed + 1 \in Nat BY <2>2
    <3>2. QED BY <2>1, <2>2, <2>5, <3>1, SleepKeeps DEF SlowDown, SlowerNow, Became
  <2>6. QED BY <1>5, <2>4, <2>5
<1>6. ASSUME NEW p \in Programs, Wake(p) PROVE LoginIInv' BY <1>6, WakeKeeps
<1>7. CASE Delete \/ KeychainChanges \/ (\E d \in DeviceIds : Revoke(d))
            \/ UNCHANGED loginVars
  <2>1. UNCHANGED <<second, login, paces, hasty>>
    BY <1>7 DEF Delete, KeychainChanges, Revoke, loginVars
  <2>2. QED BY <2>1 DEF LoginIInv, LoginTyped, PollsApart, EndsInTime
<1>8. QED BY <1>1, <1>2, <1>3, <1>4, <1>5, <1>6, <1>7 DEF LoginNext

\* However long a poll, an answer or a sleep takes, the program asks no sooner than it was
\* told, and not after its deadline (OidcClient).
THEOREM LoginInvariance == LoginSpec => []LoginIInv
BY LoginInitIInv, LoginSteps, PTL DEF LoginSpec

LEMMA LoginPolls == LoginIInv => PolledInTime
<1> SUFFICES ASSUME LoginIInv, NEW p \in Programs, login[p].pc \in {"polled", "asleep"}
             PROVE  second <= login[p].deadline + login[p].interval + RequestTime
  BY DEF PolledInTime, LoginIInv
<1>1. EndsInTime(p) /\ login[p] \in LoginRecord /\ second \in Nat BY DEF LoginIInv, LoginTyped
<1>2. RequestTime \in Nat BY LoginBounds
<1>3. QED BY <1>1, <1>2, LoginIs DEF EndsInTime
-----------------------------------------------------------------------------
(* Identity: the cached key set                                            *)

BearerRecord ==
    {Resting}
    \union [pc: {"lock"}, kid: Kids, steady: BOOLEAN]
    \union [pc: {"asked"}, kid: Kids, steady: BOOLEAN, since: Nat]
    \union [pc: {"reply"}, kid: Kids, steady: BOOLEAN, since: Nat, reply: SUBSET Kids]

KeySetTyped ==
    /\ moment \in Nat /\ fetchedAt \in Nat
    /\ published \in SUBSET Kids /\ keys \in SUBSET Kids
    /\ bearer \in [Bearers -> BearerRecord]
    /\ seen \in [Kids -> Nat]

\* A key of a set that the provider took back was in its document when the set was asked
\* for, or later.
SeenSince(set, time) == \A k \in set \ published : time <= seen[k]

\* A request whose key is steady finds it in the answer, and no answer is older than a
\* fetch takes.
RequestFits(b) ==
    /\ bearer[b].pc # "resting" /\ bearer[b].steady => bearer[b].kid \in published
    /\ bearer[b].pc \in {"asked", "reply"} =>
          bearer[b].since <= moment /\ moment <= bearer[b].since + FetchTime
    /\ bearer[b].pc = "reply" =>
          /\ SeenSince(bearer[b].reply, bearer[b].since)
          /\ bearer[b].steady => bearer[b].kid \in bearer[b].reply

KeySetIInv ==
    /\ KeySetTyped
    /\ fetchedAt <= moment
    /\ SeenSince(keys, fetchedAt - FetchTime)
    /\ \A b \in Bearers : RequestFits(b)
    /\ verdicts = {}

LEMMA BearerIs ==
    ASSUME NEW r \in BearerRecord
    PROVE  /\ r.pc \in {"resting", "lock", "asked", "reply"}
           /\ r.pc # "resting" => r.kid \in Kids /\ r.steady \in BOOLEAN
           /\ r.pc \in {"asked", "reply"} => r.since \in Nat
           /\ r.pc = "reply" => r.reply \in SUBSET Kids
BY DEF BearerRecord, Resting

LEMMA NotSteady ==
    ASSUME NEW r \in BearerRecord, r.pc # "resting",
           NEW s, s = [r EXCEPT !.steady = FALSE]
    PROVE  /\ s \in BearerRecord /\ s.pc = r.pc /\ s.kid = r.kid /\ ~s.steady
           /\ r.pc \in {"asked", "reply"} => s.since = r.since
           /\ r.pc = "reply" => s.reply = r.reply
<1>1. r # Resting BY DEF Resting
<1>2. CASE r \in [pc: {"lock"}, kid: Kids, steady: BOOLEAN] BY <1>2 DEF BearerRecord
<1>3. CASE r \in [pc: {"asked"}, kid: Kids, steady: BOOLEAN, since: Nat]
  BY <1>3 DEF BearerRecord
<1>4. CASE r \in [pc: {"reply"}, kid: Kids, steady: BOOLEAN, since: Nat, reply: SUBSET Kids]
  BY <1>4 DEF BearerRecord
<1>5. QED BY <1>1, <1>2, <1>3, <1>4 DEF BearerRecord

LEMMA KeySetInitIInv == KeySetInit => KeySetIInv
<1> SUFFICES ASSUME KeySetInit PROVE KeySetIInv OBVIOUS
<1>1. Resting \in BearerRecord /\ Resting.pc = "resting" BY DEF BearerRecord, Resting
<1>2. KeySetTyped BY <1>1 DEF KeySetInit, KeySetTyped
<1>3. \A b \in Bearers : RequestFits(b) BY <1>1 DEF KeySetInit, RequestFits
<1>4. QED BY <1>2, <1>3 DEF KeySetInit, KeySetIInv, SeenSince

\* One request goes on, while time, the provider and the keys stay.
LEMMA OneRequest ==
    ASSUME NEW b \in Bearers, NEW rec \in BearerRecord, KeySetIInv,
           bearer' = [bearer EXCEPT ![b] = rec],
           UNCHANGED <<moment, published, keys, fetchedAt, seen>>, verdicts' = {},
           RequestFits(b)'
    PROVE  KeySetIInv'
<1>1. KeySetTyped' BY DEF KeySetIInv, KeySetTyped
<1>2. SeenSince(keys, fetchedAt - FetchTime)' BY DEF KeySetIInv, SeenSince
<1>3. ASSUME NEW d \in Bearers PROVE RequestFits(d)'
  <2>1. CASE d = b BY <2>1
  <2>2. CASE d # b
    <3>1. bearer'[d] = bearer[d] BY <2>2 DEF KeySetIInv, KeySetTyped
    <3>2. QED BY <3>1 DEF KeySetIInv, RequestFits, SeenSince
  <2>3. QED BY <2>1, <2>2
<1>4. QED BY <1>1, <1>2, <1>3 DEF KeySetIInv

\* An acceptance by a key of a set that is not older than it may be is noted by nobody.
LEMMA JudgedInTime ==
    ASSUME NEW b \in Bearers, NEW kid \in Kids, KeySetIInv, Judge(b, kid),
           kid \notin published => moment < seen[kid] + KeyTtl + FetchTime
    PROVE  bearer' = [bearer EXCEPT ![b] = Resting] /\ verdicts' = {}
<1>1. moment \in Nat /\ seen[kid] \in Nat /\ KeyTtl \in Nat /\ FetchTime \in Nat
  BY KeySetBounds DEF KeySetIInv, KeySetTyped
<1>2. ~(kid \notin published /\ moment >= seen[kid] + KeyTtl + FetchTime) BY <1>1
<1>3. QED BY <1>2 DEF Judge, KeySetIInv

LEMMA ServedByCache ==
    ASSUME NEW b \in Bearers, NEW kid \in keys, KeySetIInv, ~Stale, Judge(b, kid),
           UNCHANGED <<moment, published, keys, fetchedAt, seen>>
    PROVE  KeySetIInv'
<1>1. /\ moment \in Nat /\ fetchedAt \in Nat /\ KeyTtl \in Nat /\ FetchTime \in Nat
      /\ kid \in Kids /\ seen[kid] \in Nat
  BY KeySetBounds DEF KeySetIInv, KeySetTyped
<1>2. moment < fetchedAt + KeyTtl BY <1>1 DEF Stale
<1>3. kid \notin published => fetchedAt - FetchTime <= seen[kid]
  BY DEF KeySetIInv, SeenSince
<1>4. kid \notin published => moment < seen[kid] + KeyTtl + FetchTime BY <1>1, <1>2, <1>3
<1>5. bearer' = [bearer EXCEPT ![b] = Resting] /\ verdicts' = {}
  BY <1>1, <1>4, JudgedInTime
<1>6. Resting \in BearerRecord /\ Resting.pc = "resting" BY DEF BearerRecord, Resting
<1>7. bearer'[b] = Resting BY <1>5 DEF KeySetIInv, KeySetTyped
<1>8. RequestFits(b)' BY <1>6, <1>7 DEF RequestFits
<1>9. QED BY <1>5, <1>6, <1>8, OneRequest

LEMMA ArriveKeeps ==
    ASSUME NEW b \in Bearers, NEW kid \in Kids, KeySetIInv, Arrive(b, kid)
    PROVE  KeySetIInv'
<1>1. UNCHANGED <<moment, published, keys, fetchedAt, seen>> BY DEF Arrive
<1>2. CASE ~Stale /\ kid \in keys BY <1>1, <1>2, ServedByCache DEF Arrive
<1>3. CASE ~(~Stale /\ kid \in keys)
  <2>1. bearer' = [bearer EXCEPT ![b] = Waiting(kid)] /\ verdicts' = {}
    BY <1>3 DEF Arrive, KeySetIInv
  <2>2. /\ Waiting(kid) \in BearerRecord /\ Waiting(kid).pc = "lock"
        /\ Waiting(kid).kid = kid /\ Waiting(kid).steady = (kid \in published)
    BY DEF Waiting, BearerRecord
  <2>3. bearer'[b] = Waiting(kid) BY <2>1 DEF KeySetIInv, KeySetTyped
  <2>4. RequestFits(b)' BY <1>1, <2>2, <2>3 DEF RequestFits
  <2>5. QED BY <1>1, <2>1, <2>2, <2>4, OneRequest
<1>4. QED BY <1>2, <1>3

LEMMA EnterKeeps ==
    ASSUME NEW b \in Bearers, KeySetIInv, Enter(b)
    PROVE  KeySetIInv'
<1>1. /\ UNCHANGED <<moment, published, keys, fetchedAt, seen>>
      /\ bearer[b].pc = "lock" /\ bearer[b] \in BearerRecord /\ moment \in Nat
      /\ RequestFits(b)
  BY DEF Enter, KeySetIInv, KeySetTyped
<1>2. bearer[b].kid \in Kids /\ bearer[b].steady \in BOOLEAN BY <1>1, BearerIs
<1>3. CASE ~Stale /\ bearer[b].kid \in keys BY <1>1, <1>3, ServedByCache DEF Enter
<1>4. CASE ~(~Stale /\ bearer[b].kid \in keys)
  <2> DEFINE rec == Fetching(b)
  <2>1. bearer' = [bearer EXCEPT ![b] = rec] /\ verdicts' = {}
    BY <1>4 DEF Enter, KeySetIInv
  <2>2. /\ rec \in BearerRecord /\ rec.pc = "asked" /\ rec.kid = bearer[b].kid
        /\ rec.steady = bearer[b].steady /\ rec.since = moment
    BY <1>1, <1>2 DEF Fetching, BearerRecord
  <2>3. bearer'[b] = rec BY <2>1 DEF KeySetIInv, KeySetTyped
  <2> HIDE DEF rec
  <2>4. RequestFits(b)' BY <1>1, <1>2, <2>2, <2>3, KeySetBounds DEF RequestFits
  <2>5. QED BY <1>1, <2>1, <2>2, <2>4, OneRequest
<1>5. QED BY <1>3, <1>4

LEMMA ServedKeeps ==
    ASSUME NEW b \in Bearers, KeySetIInv, Served(b)
    PROVE  KeySetIInv'
<1> DEFINE rec == [pc |-> "reply", kid |-> bearer[b].kid, steady |-> bearer[b].steady,
                   since |-> bearer[b].since, reply |-> published]
<1>1. /\ UNCHANGED <<moment, published, keys, fetchedAt, seen>>
      /\ bearer[b].pc = "asked" /\ bearer[b] \in BearerRecord
      /\ bearer' = [bearer EXCEPT ![b] = rec] /\ verdicts' = {}
      /\ RequestFits(b) /\ published \in SUBSET Kids
  BY DEF Served, KeySetIInv, KeySetTyped
<1>2. bearer[b].kid \in Kids /\ bearer[b].steady \in BOOLEAN /\ bearer[b].since \in Nat
  BY <1>1, BearerIs
<1>3. rec \in BearerRecord BY <1>1, <1>2 DEF BearerRecord
<1>4. bearer'[b] = rec BY <1>1 DEF KeySetIInv, KeySetTyped
<1>5. RequestFits(b)' BY <1>1, <1>4 DEF RequestFits, SeenSince
<1>6. QED BY <1>1, <1>3, <1>5, OneRequest

\* The answer becomes the key set: it is as old as the fetch at most.
LEMMA RefreshedKeeps ==
    ASSUME NEW b \in Bearers, KeySetIInv, Refreshed(b)
    PROVE  KeySetIInv'
<1> DEFINE kid == bearer[b].kid
           since == bearer[b].since
<1>1. /\ bearer[b].pc = "reply" /\ keys' = bearer[b].reply /\ fetchedAt' = moment
      /\ UNCHANGED <<moment, published, seen>>
      /\ bearer[b] \in BearerRecord /\ RequestFits(b)
  BY DEF Refreshed, KeySetIInv, KeySetTyped
<1>2. kid \in Kids /\ bearer[b].reply \in SUBSET Kids /\ since \in Nat BY <1>1, BearerIs
<1>3. /\ moment \in Nat /\ KeyTtl \in Nat /\ KeyTtl > 0 /\ FetchTime \in Nat
      /\ \A k \in Kids : seen[k] \in Nat
  BY KeySetBounds DEF KeySetIInv, KeySetTyped
<1>4. /\ moment <= since + FetchTime
      /\ \A k \in keys' \ published : since <= seen[k]
      /\ bearer[b].steady => kid \in keys'
  BY <1>1 DEF RequestFits, SeenSince
<1>5. bearer' = [bearer EXCEPT ![b] = Resting] /\ verdicts' = {}
  <2>1. CASE kid \in keys'
    <3>1. kid \notin published => moment < seen[kid] + KeyTtl + FetchTime
      BY <1>2, <1>3, <1>4, <2>1
    <3>2. Judge(b, kid) BY <2>1 DEF Refreshed
    <3>3. QED BY <1>2, <3>1, <3>2, JudgedInTime
  <2>2. CASE kid \notin keys'
    <3>1. Unknown(b) BY <2>2 DEF Refreshed
    <3>2. ~bearer[b].steady BY <1>4, <2>2
    <3>3. QED BY <3>1, <3>2 DEF Unknown, KeySetIInv
  <2>3. QED BY <2>1, <2>2
<1>6. Resting \in BearerRecord /\ Resting.pc = "resting" BY DEF BearerRecord, Resting
<1>7. KeySetTyped' BY <1>1, <1>2, <1>5, <1>6 DEF KeySetIInv, KeySetTyped
<1>8. SeenSince(keys, fetchedAt - FetchTime)'
  <2> SUFFICES ASSUME NEW k \in keys' \ published PROVE moment - FetchTime <= seen[k]
    BY <1>1 DEF SeenSince
  <2>1. k \in Kids /\ since <= seen[k] BY <1>1, <1>2, <1>4
  <2>2. QED BY <1>2, <1>3, <1>4, <2>1
<1>9. ASSUME NEW d \in Bearers PROVE RequestFits(d)'
  <2>1. CASE d = b
    <3>1. bearer'[d] = Resting BY <1>5, <2>1 DEF KeySetIInv, KeySetTyped
    <3>2. QED BY <1>6, <3>1 DEF RequestFits
  <2>2. CASE d # b
    <3>1. bearer'[d] = bearer[d] BY <1>5, <2>2 DEF KeySetIInv, KeySetTyped
    <3>2. QED BY <1>1, <3>1 DEF KeySetIInv, RequestFits, SeenSince
  <2>3. QED BY <2>1, <2>2
<1>10. fetchedAt' <= moment' BY <1>1, <1>3
<1>11. QED BY <1>5, <1>7, <1>8, <1>9, <1>10 DEF KeySetIInv

\* A fetch that fails leaves the keys.
LEMMA FetchFailsKeeps ==
    ASSUME NEW b \in Bearers, KeySetIInv, FetchFails(b)
    PROVE  KeySetIInv'
<1>1. /\ UNCHANGED <<moment, published, keys, fetchedAt, seen>>
      /\ bearer' = [bearer EXCEPT ![b] = Resting] /\ verdicts' = {}
  BY DEF FetchFails, KeySetIInv
<1>2. Resting \in BearerRecord /\ Resting.pc = "resting" BY DEF BearerRecord, Resting
<1>3. bearer'[b] = Resting BY <1>1 DEF KeySetIInv, KeySetTyped
<1>4. RequestFits(b)' BY <1>2, <1>3 DEF RequestFits
<1>5. QED BY <1>1, <1>2, <1>4, OneRequest

LEMMA PublishesKeeps ==
    ASSUME NEW k \in Kids, KeySetIInv, ProviderPublishes(k)
    PROVE  KeySetIInv'
<1>1. /\ published' = published \union {k}
      /\ UNCHANGED <<moment, keys, fetchedAt, bearer, seen, verdicts>>
  BY DEF ProviderPublishes
<1>2. KeySetTyped' BY <1>1 DEF KeySetIInv, KeySetTyped
<1>3. SeenSince(keys, fetchedAt - FetchTime)' BY <1>1 DEF KeySetIInv, SeenSince
<1>4. \A b \in Bearers : RequestFits(b)' BY <1>1 DEF KeySetIInv, RequestFits, SeenSince
<1>5. QED BY <1>1, <1>2, <1>3, <1>4 DEF KeySetIInv

\* A key that is taken back was there until now, and is steady for no request any more.
LEMMA WithdrawsKeeps ==
    ASSUME NEW k \in Kids, KeySetIInv, ProviderWithdraws(k)
    PROVE  KeySetIInv'
<1>1. /\ published' = published \ {k} /\ seen' = [seen EXCEPT ![k] = moment]
      /\ bearer' = [b \in Bearers |->
            IF bearer[b].pc # "resting" /\ bearer[b].kid = k
            THEN [bearer[b] EXCEPT !.steady = FALSE] ELSE bearer[b]]
      /\ UNCHANGED <<moment, keys, fetchedAt, verdicts>>
  BY DEF ProviderWithdraws
<1>2. KeySetTyped /\ moment \in Nat /\ fetchedAt \in Nat /\ fetchedAt <= moment
      /\ FetchTime \in Nat
  BY KeySetBounds DEF KeySetIInv, KeySetTyped
<1>3. ASSUME NEW b \in Bearers
      PROVE  /\ bearer'[b] \in BearerRecord
             /\ bearer'[b].pc = bearer[b].pc
             /\ bearer[b].pc # "resting" =>
                   /\ bearer'[b].kid = bearer[b].kid
                   /\ bearer'[b].steady => bearer[b].steady /\ bearer[b].kid # k
             /\ bearer[b].pc \in {"asked", "reply"} => bearer'[b].since = bearer[b].since
             /\ bearer[b].pc = "reply" => bearer'[b].reply = bearer[b].reply
  <2>1. bearer[b] \in BearerRecord BY <1>2 DEF KeySetTyped
  <2>2. CASE bearer[b].pc # "resting" /\ bearer[b].kid = k
    <3>1. bearer'[b] = [bearer[b] EXCEPT !.steady = FALSE] BY <1>1, <2>2
    <3>2. QED BY <2>1, <2>2, <3>1, NotSteady
  <2>3. CASE ~(bearer[b].pc # "resting" /\ bearer[b].kid = k)
    <3>1. bearer'[b] = bearer[b] BY <1>1, <2>3
    <3>2. bearer[b].pc # "resting" => bearer[b].kid # k BY <2>3
    <3>3. bearer'[b].steady => bearer[b].steady BY <3>1, Zenon
    <3>4. QED BY <2>1, <3>1, <3>2, <3>3
  <2>4. QED BY <2>2, <2>3
<1>4. bearer' \in [Bearers -> BearerRecord] BY <1>1, <1>3
<1>5. KeySetTyped' BY <1>1, <1>2, <1>4 DEF KeySetTyped
<1>6. \A j \in Kids : seen'[j] = IF j = k THEN moment ELSE seen[j]
  BY <1>1, <1>2 DEF KeySetTyped
<1>7. SeenSince(keys, fetchedAt - FetchTime)'
  <2> SUFFICES ASSUME NEW j \in keys \ published' PROVE fetchedAt - FetchTime <= seen'[j]
    BY <1>1 DEF SeenSince
  <2>1. j \in Kids BY <1>2 DEF KeySetTyped
  <2>2. CASE j = k BY <1>2, <1>6, <2>1, <2>2
  <2>3. CASE j # k
    <3>1. fetchedAt - FetchTime <= seen[j] BY <1>1, <2>3 DEF KeySetIInv, SeenSince
    <3>2. QED BY <1>6, <2>1, <2>3, <3>1
  <2>4. QED BY <2>2, <2>3
<1>8. ASSUME NEW b \in Bearers PROVE RequestFits(b)'
  <2>1. RequestFits(b) /\ bearer[b] \in BearerRecord BY <1>2 DEF KeySetIInv, KeySetTyped
  <2>2. bearer'[b].pc # "resting" /\ bearer'[b].steady => bearer'[b].kid \in published'
    BY <1>1, <1>3, <2>1 DEF RequestFits
  <2>3. bearer'[b].pc \in {"asked", "reply"} =>
           bearer'[b].since <= moment' /\ moment' <= bearer'[b].since + FetchTime
    BY <1>1, <1>3, <2>1 DEF RequestFits
  <2>4. ASSUME bearer[b].pc = "reply"
        PROVE  /\ SeenSince(bearer[b].reply, bearer[b].since)'
               /\ bearer'[b].steady => bearer'[b].kid \in bearer'[b].reply
    <3>1. bearer[b].reply \in SUBSET Kids BY <2>1, <2>4, BearerIs
    <3>2. bearer[b].since <= moment /\ SeenSince(bearer[b].reply, bearer[b].since)
      BY <2>1, <2>4 DEF RequestFits
    <3>3. bearer'[b].since = bearer[b].since /\ bearer'[b].reply = bearer[b].reply
      BY <1>3, <2>4
    <3>4. \A j \in bearer[b].reply \ published' : bearer[b].since <= seen'[j]
      BY <1>1, <1>6, <3>1, <3>2 DEF SeenSince
    <3>5. SeenSince(bearer[b].reply, bearer[b].since)' BY <3>3, <3>4 DEF SeenSince
    <3>6. bearer'[b].steady => bearer'[b].kid \in bearer'[b].reply
      BY <1>3, <2>1, <2>4, <3>3 DEF RequestFits
    <3>7. QED BY <3>5, <3>6
  <2>5. bearer'[b].pc = bearer[b].pc BY <1>3
  <2>6. QED BY <2>2, <2>3, <2>4, <2>5 DEF RequestFits
<1>9. QED BY <1>1, <1>2, <1>5, <1>7, <1>8 DEF KeySetIInv

LEMMA ElapseKeeps == KeySetIInv /\ Elapse => KeySetIInv'
<1> SUFFICES ASSUME KeySetIInv, Elapse PROVE KeySetIInv' OBVIOUS
<1>1. /\ moment' = moment + 1
      /\ UNCHANGED <<published, keys, fetchedAt, bearer, seen, verdicts>>
      /\ KeySetTyped /\ moment \in Nat /\ fetchedAt \in Nat /\ FetchTime \in Nat
      /\ \A b \in Bearers : bearer[b].pc \in {"asked", "reply"} =>
            moment < bearer[b].since + FetchTime
  BY KeySetBounds DEF Elapse, KeySetIInv, KeySetTyped
<1>2. ASSUME NEW b \in Bearers PROVE RequestFits(b)'
  <2>1. RequestFits(b) /\ bearer[b] \in BearerRecord BY <1>1 DEF KeySetIInv, KeySetTyped
  <2>2. bearer[b].pc \in {"asked", "reply"} => bearer[b].since \in Nat BY <2>1, BearerIs
  <2>3. bearer[b].pc \in {"asked", "reply"} =>
           bearer[b].since <= moment + 1 /\ moment + 1 <= bearer[b].since + FetchTime
    BY <1>1, <2>1, <2>2 DEF RequestFits
  <2>4. QED BY <1>1, <2>1, <2>3 DEF RequestFits, SeenSince
<1>3. KeySetTyped' BY <1>1 DEF KeySetTyped
<1>4. SeenSince(keys, fetchedAt - FetchTime)' BY <1>1 DEF KeySetIInv, SeenSince
<1>5. fetchedAt' <= moment' BY <1>1 DEF KeySetIInv
<1>6. QED BY <1>1, <1>2, <1>3, <1>4, <1>5 DEF KeySetIInv

LEMMA KeySetSteps == KeySetIInv /\ [KeySetNext]_keySetVars => KeySetIInv'
<1> SUFFICES ASSUME KeySetIInv, [KeySetNext]_keySetVars PROVE KeySetIInv' OBVIOUS
<1>1. CASE UNCHANGED keySetVars
  BY <1>1 DEF keySetVars, KeySetIInv, KeySetTyped, RequestFits, SeenSince
<1>2. QED
  BY <1>1, ArriveKeeps, EnterKeeps, ServedKeeps, RefreshedKeeps, FetchFailsKeeps,
     PublishesKeeps, WithdrawsKeeps, ElapseKeeps
     DEF KeySetNext

\* The keys held are as old as their fetch, whoever fetched them, and no token is judged by
\* a key that was withdrawn longer ago than the cache lives (JwksCache.get_key).
THEOREM KeySetInvariance == KeySetSpec => []KeySetIInv
BY KeySetInitIInv, KeySetSteps, PTL DEF KeySetSpec
-----------------------------------------------------------------------------
(* DeviceTrust: the sealed cache                                           *)

\* What is left of a change: it ends with the seal.
Leftover(r) ==
    {NothingToDo, Admitting(r), Tail(Admitting(r)), Tail(Tail(Admitting(r))),
     Removing(r), Tail(Removing(r))}

\* The seal is of what was granted when the last change was complete, and so are the leases
\* where no change is under way or was cut off.
SealIInv ==
    /\ filling = NothingToDo \/ \E r \in Papers : filling \in Leftover(r)
    /\ cache \in {"closed", "ready", "wipe"}
    /\ cache # "ready" => filling = NothingToDo
    /\ seal = NoSeal \/ seal = DigestOf(whole)
    /\ seal = NoSeal => cache # "ready" /\ granted = {} /\ whole = {}
    /\ filling = NothingToDo => granted = whole \/ broken
    /\ CacheAsSealed

\* What is done next and what then is left.
LEMMA LeftoverSteps ==
    ASSUME NEW r \in Papers, NEW rest \in Leftover(r), rest # NothingToDo
    PROVE  /\ Tail(rest) \in Leftover(r)
           /\ Head(rest)[1] \in {"record", "lease", "delete", "seal"}
           /\ Tail(rest) = NothingToDo <=> Head(rest)[1] = "seal"
<1>1. Tail(Admitting(r)) = <<<<"lease", r>>, <<"seal", r>>>> BY DEF Admitting
<1>2. Tail(Tail(Admitting(r))) = <<<<"seal", r>>>>
  <2>1. Tail(<<<<"lease", r>>, <<"seal", r>>>>) = <<<<"seal", r>>>> OBVIOUS
  <2>2. QED BY <1>1, <2>1, Zenon
<1>3. Tail(Removing(r)) = <<<<"seal", r>>>> BY DEF Removing
<1>4. Tail(<<<<"seal", r>>>>) = <<>> OBVIOUS
<1>5. rest \in {Admitting(r), <<<<"lease", r>>, <<"seal", r>>>>, <<<<"seal", r>>>>, Removing(r)}
  BY <1>1, <1>2, <1>3 DEF Leftover, NothingToDo
<1>6. CASE rest = Admitting(r)
  <2>1. Head(rest)[1] = "record" /\ Tail(rest) # <<>> BY <1>1, <1>6 DEF Admitting
  <2>2. QED BY <1>6, <2>1 DEF Leftover, NothingToDo
<1>7. CASE rest = <<<<"lease", r>>, <<"seal", r>>>>
  <2>1. Head(rest)[1] = "lease" /\ Tail(rest) = <<<<"seal", r>>>> BY <1>7
  <2>2. <<<<"seal", r>>>> # <<>> OBVIOUS
  <2>3. QED BY <1>2, <2>1, <2>2 DEF Leftover, NothingToDo
<1>8. CASE rest = <<<<"seal", r>>>>
  <2>1. Head(rest)[1] = "seal" /\ Tail(rest) = <<>> BY <1>8
  <2>2. QED BY <2>1 DEF Leftover, NothingToDo
<1>9. CASE rest = Removing(r)
  <2>1. Head(rest)[1] = "delete" /\ Tail(rest) = <<<<"seal", r>>>> BY <1>9 DEF Removing
  <2>2. <<<<"seal", r>>>> # <<>> OBVIOUS
  <2>3. QED BY <1>3, <2>1, <2>2 DEF Leftover, NothingToDo
<1>10. QED BY <1>5, <1>6, <1>7, <1>8, <1>9

LEMMA StatementKeeps == SealIInv /\ Statement => SealIInv'
<1> SUFFICES ASSUME SealIInv, Statement PROVE SealIInv' OBVIOUS
<1>1. filling # NothingToDo /\ filling' = Tail(filling) /\ cache' = cache
  BY DEF Statement
<1>2. PICK r \in Papers : filling \in Leftover(r) BY <1>1 DEF SealIInv
<1>3. /\ filling' \in Leftover(r)
      /\ Head(filling)[1] \in {"record", "lease", "delete", "seal"}
      /\ filling' = NothingToDo <=> Head(filling)[1] = "seal"
  BY <1>1, <1>2, LeftoverSteps
<1>4. cache = "ready" /\ seal # NoSeal BY <1>1 DEF SealIInv
<1>5. CASE Head(filling)[1] = "seal"
  <2>1. /\ filling' = NothingToDo /\ granted' = granted /\ seal' = DigestOf(granted)
        /\ whole' = granted' /\ ~broken'
    BY <1>1, <1>3, <1>5 DEF Statement
  <2>2. DigestOf(granted) # NoSeal BY DEF DigestOf, NoSeal
  <2>3. QED BY <1>1, <1>4, <2>1, <2>2 DEF SealIInv, CacheAsSealed, DigestOf
<1>6. CASE Head(filling)[1] # "seal"
  <2>1. filling' # NothingToDo /\ seal' = seal /\ whole' = whole
    BY <1>1, <1>3, <1>6 DEF Statement
  <2>2. QED BY <1>1, <1>2, <1>3, <1>4, <2>1 DEF SealIInv, CacheAsSealed, DigestOf
<1>7. QED BY <1>5, <1>6

LEMMA OpenCacheKeeps == SealIInv /\ OpenCache => SealIInv'
<1> SUFFICES ASSUME SealIInv, OpenCache PROVE SealIInv' OBVIOUS
<1>1. /\ cache = "closed" /\ filling = NothingToDo
      /\ cache' = IF FirstRun \/ seal = DigestOf(granted) THEN "ready" ELSE "wipe"
      /\ seal' = IF FirstRun THEN DigestOf({}) ELSE seal
      /\ UNCHANGED <<granted, filling, whole, broken>>
  BY DEF OpenCache, SealIInv
<1>2. \A x : DigestOf(x) # NoSeal BY DEF DigestOf, NoSeal
<1>3. \A x, y : DigestOf(x) = DigestOf(y) => x = y BY DEF DigestOf
<1>4. CASE FirstRun
  <2>1. granted = {} /\ whole = {} /\ cache' = "ready" /\ seal' = DigestOf({})
    BY <1>1, <1>4 DEF FirstRun, SealIInv
  <2>2. seal' = DigestOf(whole') BY <1>1, <2>1
  <2>3. QED BY <1>1, <1>2, <2>1, <2>2 DEF SealIInv, CacheAsSealed
<1>5. CASE ~FirstRun
  <2>1. seal' = seal /\ seal # NoSeal BY <1>1, <1>5 DEF FirstRun, SealIInv
  <2>2. seal = DigestOf(whole) BY <2>1 DEF SealIInv
  <2>3. CASE seal = DigestOf(granted)
    <3>1. granted = whole /\ cache' = "ready" BY <1>1, <1>3, <2>2, <2>3
    <3>2. QED BY <1>1, <1>2, <2>1, <2>2, <3>1 DEF SealIInv, CacheAsSealed, DigestOf
  <2>4. CASE seal # DigestOf(granted)
    <3>1. granted # whole /\ cache' = "wipe" BY <1>1, <1>5, <2>2, <2>4
    <3>2. broken BY <1>1, <3>1 DEF SealIInv
    <3>3. QED BY <1>1, <2>1, <2>2, <3>1, <3>2 DEF SealIInv, CacheAsSealed, DigestOf
  <2>5. QED BY <2>3, <2>4
<1>6. QED BY <1>4, <1>5

LEMMA SealSteps == SealIInv /\ [SealNext]_sealVars => SealIInv'
<1> SUFFICES ASSUME SealIInv, [SealNext]_sealVars PROVE SealIInv' OBVIOUS
<1>1. CASE UNCHANGED sealVars BY <1>1 DEF sealVars, SealIInv, CacheAsSealed, DigestOf
<1>2. CASE OpenCache BY <1>2, OpenCacheKeeps
<1>3. CASE Statement BY <1>3, StatementKeeps
<1>4. CASE CloseCache
  <2>1. /\ cache' = "closed" /\ filling = NothingToDo
        /\ UNCHANGED <<granted, seal, filling, whole, broken>>
    BY <1>4 DEF CloseCache
  <2>2. granted = whole \/ broken BY <2>1 DEF SealIInv
  <2>3. QED BY <2>1, <2>2 DEF SealIInv, CacheAsSealed, DigestOf
<1>5. CASE ApplicationDies
  <2>1. /\ cache' = "closed" /\ filling' = NothingToDo
        /\ broken' = (broken \/ filling # NothingToDo)
        /\ UNCHANGED <<granted, seal, whole>>
    BY <1>5 DEF ApplicationDies
  <2>2. granted = whole \/ broken' BY <2>1 DEF SealIInv
  <2>3. QED BY <2>1, <2>2 DEF SealIInv, CacheAsSealed, DigestOf
<1>6. CASE WipeAndResync
  BY <1>6 DEF WipeAndResync, SealIInv, CacheAsSealed, DigestOf
<1>7. ASSUME NEW r \in Papers, Admit(r) \/ Discard(r) PROVE SealIInv'
  <2>1. /\ cache = "ready" /\ filling' \in {Admitting(r), Removing(r)}
        /\ UNCHANGED <<granted, seal, cache, whole, broken>>
    BY <1>7 DEF Admit, Discard, StartsChange
  <2>2. filling' \in Leftover(r) /\ filling' # NothingToDo
    BY <2>1 DEF Leftover, Admitting, Removing, NothingToDo
  <2>3. QED BY <2>1, <2>2 DEF SealIInv, CacheAsSealed, DigestOf
<1>8. QED BY <1>1, <1>2, <1>3, <1>4, <1>5, <1>6, <1>7 DEF SealNext
-----------------------------------------------------------------------------
(* DeviceTrust: the policy snapshot                                        *)

\* The snapshot has roles that were allowed when its life began; the histories grow.
SnapshotIInv ==
    /\ instant \in 0..LastInstant /\ lag \in Lags
    /\ history \in [0..LastInstant -> SUBSET SUBSET Jobs]
    /\ allowed \in SUBSET Jobs /\ allowed \in history[instant]
    /\ snapshot = NoSnapshot
          \/ \E begun \in 0..instant : /\ snapshot.expires = begun + SnapshotTtl
                                       /\ snapshot.roles \in history[begun]
    /\ \A v \in offline : v.when \in 0..instant /\ v.lag \in Int
    /\ SnapshotObeyed

\* A decision stays right while the histories of the past grow.
LEMMA DecisionsStay ==
    ASSUME SnapshotIInv, UNCHANGED offline,
           \A n \in 0..instant : history[n] \subseteq history'[n]
    PROVE  SnapshotObeyed'
<1> SUFFICES ASSUME NEW v \in offline, v.yes /\ v.labelled
             PROVE  \E n \in (v.when - v.lag - SnapshotTtl + 1)..v.when :
                       n >= 0 /\ \E roles \in history'[n] : roles \intersect v.roles # {}
  BY DEF SnapshotObeyed
<1>1. PICK n \in (v.when - v.lag - SnapshotTtl + 1)..v.when :
         n >= 0 /\ \E roles \in history[n] : roles \intersect v.roles # {}
  BY DEF SnapshotIInv, SnapshotObeyed
<1>2. /\ v.when \in 0..instant /\ v.lag \in Int /\ instant \in Nat /\ SnapshotTtl \in Nat
  BY DeviceTrustBounds DEF SnapshotIInv
<1>3. n \in 0..instant BY <1>1, <1>2
<1>4. QED BY <1>1, <1>3

LEMMA InstantPassesKeeps == SnapshotIInv /\ InstantPasses => SnapshotIInv'
<1> SUFFICES ASSUME SnapshotIInv, InstantPasses PROVE SnapshotIInv' OBVIOUS
<1>1. /\ instant < LastInstant /\ instant' = instant + 1
      /\ history' = [history EXCEPT ![instant + 1] = {allowed}]
      /\ UNCHANGED <<lag, allowed, serverKey, snapshot, deviceKey, offline>>
      /\ instant \in Nat /\ LastInstant \in Nat /\ instant \in 0..LastInstant
      /\ history \in [0..LastInstant -> SUBSET SUBSET Jobs] /\ allowed \in SUBSET Jobs
  BY DeviceTrustBounds DEF InstantPasses, SnapshotIInv
<1>2. instant' \in 0..LastInstant BY <1>1
<1>3. history' \in [0..LastInstant -> SUBSET SUBSET Jobs] BY <1>1
<1>4. allowed' \in history'[instant'] BY <1>1, <1>2
<1>5. \A n \in 0..instant : history'[n] = history[n] BY <1>1
<1>6. snapshot' = NoSnapshot
         \/ \E begun \in 0..instant' : /\ snapshot'.expires = begun + SnapshotTtl
                                       /\ snapshot'.roles \in history'[begun]
  <2>1. CASE snapshot = NoSnapshot BY <1>1, <2>1
  <2>2. CASE snapshot # NoSnapshot
    <3>1. PICK begun \in 0..instant : /\ snapshot.expires = begun + SnapshotTtl
                                      /\ snapshot.roles \in history[begun]
      BY <2>2 DEF SnapshotIInv
    <3>2. begun \in 0..instant' BY <1>1
    <3>3. QED BY <1>1, <1>5, <3>1, <3>2
  <2>3. QED BY <2>1, <2>2
<1>7. SnapshotObeyed' BY <1>1, <1>5, DecisionsStay
<1>8. \A v \in offline' : v.when \in 0..instant' /\ v.lag \in Int BY <1>1 DEF SnapshotIInv
<1>9. QED BY <1>1, <1>2, <1>3, <1>4, <1>6, <1>7, <1>8 DEF SnapshotIInv

LEMMA PolicyChangesKeeps ==
    ASSUME NEW roles \in SUBSET Jobs, SnapshotIInv, PolicyChanges(roles)
    PROVE  SnapshotIInv'
<1>1. /\ allowed' = roles
      /\ history' = [history EXCEPT ![instant] = @ \union {roles}]
      /\ UNCHANGED <<instant, lag, serverKey, snapshot, deviceKey, offline>>
      /\ instant \in 0..LastInstant
      /\ history \in [0..LastInstant -> SUBSET SUBSET Jobs]
  BY DEF PolicyChanges, SnapshotIInv
<1>2. history' \in [0..LastInstant -> SUBSET SUBSET Jobs] BY <1>1
<1>3. roles \in history'[instant] BY <1>1
<1>4. \A n \in 0..LastInstant : history[n] \subseteq history'[n] BY <1>1
<1>5. \A n \in 0..instant : n \in 0..LastInstant BY <1>1, DeviceTrustBounds
<1>6. SnapshotObeyed' BY <1>1, <1>4, <1>5, DecisionsStay
<1>7. snapshot' = NoSnapshot
         \/ \E begun \in 0..instant' : /\ snapshot'.expires = begun + SnapshotTtl
                                       /\ snapshot'.roles \in history'[begun]
  BY <1>1, <1>4, <1>5 DEF SnapshotIInv
<1>8. QED BY <1>1, <1>2, <1>3, <1>6, <1>7 DEF SnapshotIInv

\* An allowed decision has a snapshot whose life is not over yet.
LEMMA DecideOfflineKeeps ==
    ASSUME NEW roles \in SUBSET Jobs, NEW labelled \in BOOLEAN, SnapshotIInv,
           DecideOffline(roles, labelled)
    PROVE  SnapshotIInv'
<1> DEFINE v == [roles |-> roles, labelled |-> labelled, when |-> instant,
                 lag |-> lag, yes |-> OfflineAllows(roles, labelled)]
<1>1. /\ offline' = {v}
      /\ UNCHANGED <<instant, lag, allowed, serverKey, snapshot, deviceKey, history>>
      /\ instant \in Nat /\ lag \in Int /\ SnapshotTtl \in Nat
  BY DeviceTrustBounds DEF DecideOffline, SnapshotIInv
<1>2. ASSUME OfflineAllows(roles, labelled), labelled
      PROVE  \E n \in (instant - lag - SnapshotTtl + 1)..instant :
                n >= 0 /\ \E some \in history[n] : some \intersect roles # {}
  <2>1. Verdict = "ok" /\ roles \intersect snapshot.roles # {} BY <1>2 DEF OfflineAllows
  <2>2. snapshot # NoSnapshot /\ ~(instant - lag >= snapshot.expires) BY <2>1 DEF Verdict
  <2>3. PICK begun \in 0..instant : /\ snapshot.expires = begun + SnapshotTtl
                                    /\ snapshot.roles \in history[begun]
    BY <2>2 DEF SnapshotIInv
  <2>4. begun \in (instant - lag - SnapshotTtl + 1)..instant /\ begun >= 0 BY <1>1, <2>2, <2>3
  <2>5. QED BY <2>1, <2>3, <2>4
<1>3. v.when = instant /\ v.lag = lag /\ v.roles = roles /\ v.labelled = labelled
      /\ v.yes = OfflineAllows(roles, labelled)
  OBVIOUS
<1> HIDE DEF v
<1>4. v.yes /\ v.labelled =>
         \E n \in (v.when - v.lag - SnapshotTtl + 1)..v.when :
            n >= 0 /\ \E some \in history[n] : some \intersect v.roles # {}
  <2> SUFFICES ASSUME v.yes, v.labelled
               PROVE  \E n \in (v.when - v.lag - SnapshotTtl + 1)..v.when :
                         n >= 0 /\ \E some \in history[n] : some \intersect v.roles # {}
    OBVIOUS
  <2>1. OfflineAllows(roles, labelled) /\ labelled BY <1>3, Zenon
  <2>2. QED BY <1>2, <1>3, <2>1
<1>5. SnapshotObeyed' BY <1>1, <1>4 DEF SnapshotObeyed
<1>6. \A w \in offline' : w.when \in 0..instant /\ w.lag \in Int BY <1>1, <1>3
<1>7. QED BY <1>1, <1>5, <1>6 DEF SnapshotIInv

LEMMA SnapshotSteps == SnapshotIInv /\ [SnapshotNext]_snapshotVars => SnapshotIInv'
<1> SUFFICES ASSUME SnapshotIInv, [SnapshotNext]_snapshotVars PROVE SnapshotIInv' OBVIOUS
<1>1. CASE UNCHANGED snapshotVars
  BY <1>1 DEF snapshotVars, SnapshotIInv, SnapshotObeyed
<1>2. CASE InstantPasses BY <1>2, InstantPassesKeeps
<1>3. CASE DeviceClockSet \/ KeyChanges \/ DeviceGetsKey
  BY <1>3 DEF DeviceClockSet, KeyChanges, DeviceGetsKey, SnapshotIInv, SnapshotObeyed
<1>4. CASE Sync
  <2>1. /\ snapshot'.expires = instant + SnapshotTtl /\ snapshot'.roles = allowed
        /\ UNCHANGED <<instant, lag, allowed, serverKey, deviceKey, history, offline>>
    BY <1>4 DEF Sync, Expires
  <2>2. instant \in 0..instant BY DeviceTrustBounds DEF SnapshotIInv
  <2>3. QED BY <2>1, <2>2 DEF SnapshotIInv, SnapshotObeyed
<1>5. ASSUME NEW roles \in SUBSET Jobs, PolicyChanges(roles) PROVE SnapshotIInv'
  BY <1>5, PolicyChangesKeeps
<1>6. ASSUME NEW roles \in SUBSET Jobs, NEW labelled \in BOOLEAN,
             DecideOffline(roles, labelled)
      PROVE  SnapshotIInv'
  BY <1>6, DecideOfflineKeeps
<1>7. QED BY <1>1, <1>2, <1>3, <1>4, <1>5, <1>6 DEF SnapshotNext

-----------------------------------------------------------------------------
(* DeviceTrust: the activity signals                                       *)

\* Where a process is; one that prunes knows how many were too many when it counted.
Noting ==
    {NotNoting} \union [pc : {"count"}] \union [pc : {"prune"}, excess : Nat]

\* While there are too many, somebody is about to count them, or has counted no fewer than
\* are too many now.
Attended ==
    Cardinality(signals) > MaxSignals =>
        \E n \in Noters :
           \/ noter[n].pc = "count"
           \/ noter[n].pc = "prune" /\ noter[n].excess >= Cardinality(signals) - MaxSignals

SignalIInv ==
    /\ IsFiniteSet(signals)
    /\ noter \in [Noters -> Noting]
    /\ Attended
    /\ OldSignalsGo

LEMMA LesserOfTwo ==
    ASSUME NEW a \in Nat, NEW b \in Nat
    PROVE  Min({a, b}) \in {a, b} /\ Min({a, b}) <= a /\ Min({a, b}) <= b
<1>1. \E x \in {a, b} : \A y \in {a, b} : x <= y OBVIOUS
<1>2. Min({a, b}) \in {a, b} /\ \A y \in {a, b} : Min({a, b}) <= y BY <1>1 DEF Min
<1>3. QED BY <1>2

\* A process that is not idle attends.
LEMMA AttendedIsEnough == SignalIInv /\ (\A n \in Noters : noter[n] = NotNoting)
                             => Cardinality(signals) <= MaxSignals
<1> SUFFICES ASSUME SignalIInv, \A n \in Noters : noter[n] = NotNoting
             PROVE  Cardinality(signals) <= MaxSignals
  OBVIOUS
<1>1. \A n \in Noters : noter[n].pc = "idle" BY DEF NotNoting
<1>2. Cardinality(signals) \in Nat /\ MaxSignals \in Nat
  BY FS_CardinalityType, DeviceTrustBounds DEF SignalIInv
<1>3. ~(Cardinality(signals) > MaxSignals) BY <1>1 DEF SignalIInv, Attended
<1>4. QED BY <1>2, <1>3

\* What is not pruned stays right, and the number of signals follows from who attends.
LEMMA SignalsFollow ==
    ASSUME SignalIInv, IsFiniteSet(signals)', (noter \in [Noters -> Noting])', Attended',
           \A d \in dropped' : \A ts \in d.kept : d.gone <= ts
    PROVE  SignalIInv'
<1>1. ASSUME \A n \in Noters : noter'[n] = NotNoting
      PROVE  Cardinality(signals') <= MaxSignals
  <2>1. \A n \in Noters : noter'[n].pc = "idle" BY <1>1 DEF NotNoting
  <2>2. Cardinality(signals') \in Nat /\ MaxSignals \in Nat
    BY FS_CardinalityType, DeviceTrustBounds
  <2>3. ~(Cardinality(signals') > MaxSignals) BY <2>1 DEF Attended
  <2>4. QED BY <2>2, <2>3
<1>2. QED BY <1>1 DEF SignalIInv, OldSignalsGo

LEMMA NoteKeeps ==
    ASSUME NEW n \in Noters, NEW ts \in 1..2, SignalIInv, Note(n, ts)
    PROVE  SignalIInv'
<1>1. /\ signals' = signals \union {[id |-> nextId, ts |-> ts]} /\ UNCHANGED dropped
      /\ noter' = [noter EXCEPT ![n] = [pc |-> "count"]]
      /\ noter \in [Noters -> Noting] /\ IsFiniteSet(signals)
  BY DEF Note, SignalIInv
<1>2. IsFiniteSet(signals') BY <1>1, FS_AddElement
<1>3. noter' \in [Noters -> Noting] BY <1>1 DEF Noting
<1>4. Attended' BY <1>1 DEF Attended
<1>5. QED BY <1>1, <1>2, <1>3, <1>4, SignalsFollow DEF SignalIInv, OldSignalsGo

LEMMA CountSignalsKeeps ==
    ASSUME NEW n \in Noters, SignalIInv, CountSignals(n)
    PROVE  SignalIInv'
<1> DEFINE excess == Cardinality(signals) - MaxSignals
           rec == IF Cardinality(signals) <= MaxSignals THEN NotNoting
                  ELSE [pc |-> "prune", excess |-> excess]
<1>1. /\ UNCHANGED <<signals, dropped>> /\ noter' = [noter EXCEPT ![n] = rec]
      /\ noter \in [Noters -> Noting]
  BY DEF CountSignals, SignalIInv
<1>2. Cardinality(signals) \in Nat /\ MaxSignals \in Nat
  BY FS_CardinalityType, DeviceTrustBounds DEF SignalIInv
<1>3. rec \in Noting BY <1>2 DEF Noting
<1>4. noter'[n] = rec BY <1>1
<1>5. Attended' BY <1>1, <1>2, <1>4 DEF Attended
<1>6. noter' \in [Noters -> Noting] BY <1>1, <1>3
<1>7. QED BY <1>1, <1>5, <1>6, SignalsFollow DEF SignalIInv, OldSignalsGo

LEMMA PruneKeeps ==
    ASSUME NEW n \in Noters, SignalIInv, Prune(n)
    PROVE  SignalIInv'
<1> DEFINE total == Cardinality(signals)
           excess == noter[n].excess
<1>1. /\ noter[n].pc = "prune" /\ noter' = [noter EXCEPT ![n] = NotNoting]
      /\ noter \in [Noters -> Noting] /\ IsFiniteSet(signals)
  BY DEF Prune, SignalIInv
<1>2. PICK some \in SUBSET signals :
         /\ Cardinality(some) = Min({excess, total})
         /\ Oldest(some) /\ signals' = signals \ some
         /\ dropped' = dropped \union
               [gone : {s.ts : s \in some}, kept : {{t.ts : t \in signals'}}]
  BY DEF Prune, Prunable
<1>3. total \in Nat /\ MaxSignals \in Nat /\ excess \in Nat
  <2>1. noter[n] \in Noting BY <1>1
  <2>2. excess \in Nat BY <1>1, <2>1 DEF Noting, NotNoting
  <2>3. QED BY <1>1, <2>2, FS_CardinalityType, DeviceTrustBounds
<1>4. IsFiniteSet(signals') /\ Cardinality(signals') = total - Min({excess, total})
  <2>1. IsFiniteSet(some) BY <1>1, FS_Subset
  <2>2. signals \intersect some = some OBVIOUS
  <2>3. /\ IsFiniteSet(signals \ some)
        /\ Cardinality(signals \ some)
              = Cardinality(signals) - Cardinality(signals \intersect some)
    BY <1>1, FS_Difference
  <2>4. QED BY <1>2, <2>2, <2>3
<1>5. /\ Cardinality(signals') \in Nat /\ Cardinality(signals') <= total
      /\ excess >= total - MaxSignals => Cardinality(signals') <= MaxSignals
  <2>1. Min({excess, total}) \in {excess, total} BY <1>3, LesserOfTwo
  <2>2. Min({excess, total}) <= total BY <1>3, LesserOfTwo
  <2> HIDE DEF total, excess
  <2>3. QED BY <1>3, <1>4, <2>1, <2>2
<1>6. Attended'
  <2> SUFFICES ASSUME Cardinality(signals') > MaxSignals
               PROVE  \E m \in Noters :
                         \/ noter'[m].pc = "count"
                         \/ /\ noter'[m].pc = "prune"
                            /\ noter'[m].excess >= Cardinality(signals') - MaxSignals
    BY DEF Attended
  <2>1. total > MaxSignals /\ ~(excess >= total - MaxSignals) BY <1>3, <1>5
  <2>2. PICK m \in Noters :
           \/ noter[m].pc = "count"
           \/ noter[m].pc = "prune" /\ noter[m].excess >= total - MaxSignals
    BY <2>1 DEF SignalIInv, Attended
  <2>3. m # n BY <1>1, <2>1, <2>2
  <2>4. noter'[m] = noter[m] /\ noter[m] \in Noting BY <1>1, <2>3
  <2>5. noter[m].pc = "prune" => noter[m].excess \in Nat BY <2>4 DEF Noting, NotNoting
  <2>6. QED BY <1>3, <1>5, <2>2, <2>4, <2>5
<1>7. \A d \in dropped' : \A ts \in d.kept : d.gone <= ts
  <2> SUFFICES ASSUME NEW d \in dropped', NEW ts \in d.kept PROVE d.gone <= ts OBVIOUS
  <2>1. CASE d \in dropped BY <2>1 DEF SignalIInv, OldSignalsGo
  <2>2. CASE d \in [gone : {s.ts : s \in some}, kept : {{t.ts : t \in signals'}}]
    <3>1. d.gone \in {s.ts : s \in some} /\ d.kept = {t.ts : t \in signals'} BY <2>2
    <3>2. PICK s \in some : d.gone = s.ts BY <3>1
    <3>3. PICK t \in signals \ some : ts = t.ts BY <1>2, <3>1
    <3>4. QED BY <1>2, <3>2, <3>3 DEF Oldest
  <2>3. QED BY <1>2, <2>1, <2>2
<1>8. noter' \in [Noters -> Noting] BY <1>1 DEF Noting
<1>9. QED BY <1>4, <1>6, <1>7, <1>8, SignalsFollow

LEMMA SignalSteps == SignalIInv /\ [SignalNext]_signalVars => SignalIInv'
<1> SUFFICES ASSUME SignalIInv, [SignalNext]_signalVars PROVE SignalIInv' OBVIOUS
<1>1. CASE UNCHANGED signalVars
  BY <1>1 DEF signalVars, SignalIInv, Attended, OldSignalsGo
<1>2. ASSUME NEW n \in Noters, NEW ts \in 1..2, Note(n, ts) PROVE SignalIInv'
  BY <1>2, NoteKeeps
<1>3. ASSUME NEW n \in Noters, CountSignals(n) \/ Prune(n) PROVE SignalIInv'
  BY <1>3, CountSignalsKeeps, PruneKeeps
<1>4. CASE ClearSignals
  <2>1. signals' = {} /\ UNCHANGED <<noter, dropped>> BY <1>4 DEF ClearSignals
  <2>2. IsFiniteSet(signals') /\ Cardinality(signals') = 0 BY <2>1, FS_EmptySet
  <2>3. Attended' BY <2>2, DeviceTrustBounds DEF Attended
  <2>4. QED BY <2>1, <2>2, <2>3, SignalsFollow DEF SignalIInv, OldSignalsGo
<1>5. QED BY <1>1, <1>2, <1>3, <1>4 DEF SignalNext
-----------------------------------------------------------------------------
(* DeviceTrust as a whole, and the device with every part                  *)

TrustIInv == SealIInv /\ SnapshotIInv /\ SignalIInv

LEMMA TrustInitIInv == TrustInit => TrustIInv
<1> SUFFICES ASSUME TrustInit PROVE TrustIInv OBVIOUS
<1>1. SealIInv BY DEF TrustInit, SealIInv, CacheAsSealed, NoSeal, NothingToDo
<1>2. SnapshotIInv
  <2>1. /\ instant = 0 /\ lag \in Lags /\ LastInstant \in Nat /\ allowed \in SUBSET Jobs
        /\ history = [n \in 0..LastInstant |-> IF n = 0 THEN {allowed} ELSE {}]
        /\ snapshot = NoSnapshot /\ offline = {}
    BY DeviceTrustBounds DEF TrustInit
  <2>2. 0 \in 0..LastInstant BY <2>1
  <2>3. history \in [0..LastInstant -> SUBSET SUBSET Jobs] BY <2>1
  <2>4. history[0] = {allowed} BY <2>1, <2>2
  <2>5. QED BY <2>1, <2>2, <2>3, <2>4 DEF SnapshotIInv, SnapshotObeyed
<1>3. SignalIInv
  <2>1. signals = {} /\ noter = [n \in Noters |-> NotNoting] /\ dropped = {} BY DEF TrustInit
  <2>2. IsFiniteSet(signals) /\ Cardinality(signals) = 0 BY <2>1, FS_EmptySet
  <2>3. MaxSignals \in Nat BY DeviceTrustBounds
  <2>4. QED BY <2>1, <2>2, <2>3 DEF SignalIInv, Attended, OldSignalsGo, Noting
<1>4. QED BY <1>1, <1>2, <1>3 DEF TrustIInv

\* What a device holds, decides and remembers offline is right in every state, and every
\* other part of the trust stands still while one of them moves (cache/store.rs,
\* policy_snapshot.py, activity_signals.py).
THEOREM TrustInvariance == TrustSpec => []TrustIInv
<1>1. TrustIInv /\ [TrustNext]_trustVars => TrustIInv'
  <2> SUFFICES ASSUME TrustIInv, [TrustNext]_trustVars PROVE TrustIInv' OBVIOUS
  <2>1. [SealNext]_sealVars /\ [SnapshotNext]_snapshotVars /\ [SignalNext]_signalVars
    BY DEF TrustNext, trustVars
  <2>2. QED BY <2>1, SealSteps, SnapshotSteps, SignalSteps DEF TrustIInv
<1>2. QED BY <1>1, TrustInitIInv, PTL DEF TrustSpec

\* A device stays within what others granted it, whichever of its parts runs: the property
\* GrantsKept of the Devices run, for every value of the constants.
THEOREM GrantsAreKept == DevicesSpec => []GrantsKept
<1> DEFINE Inv == LoginIInv /\ KeySetIInv /\ TrustIInv
<1>1. DevicesInit => Inv
  BY LoginInitIInv, KeySetInitIInv, TrustInitIInv DEF DevicesInit
<1>2. Inv /\ [DevicesNext]_devicesVars => Inv'
  <2> SUFFICES ASSUME Inv, [DevicesNext]_devicesVars PROVE Inv' OBVIOUS
  <2>1. /\ [LoginNext]_loginVars /\ [KeySetNext]_keySetVars
        /\ [SealNext]_sealVars /\ [SnapshotNext]_snapshotVars /\ [SignalNext]_signalVars
    BY DEF DevicesNext, devicesVars, trustVars
  <2>2. QED BY <2>1, LoginSteps, KeySetSteps, SealSteps, SnapshotSteps, SignalSteps
        DEF TrustIInv
<1>3. Inv => GrantsKept
  <2> SUFFICES ASSUME Inv PROVE GrantsKept OBVIOUS
  <2>1. PolledInTime BY LoginPolls
  <2>2. KeysFollowProvider BY DEF KeySetIInv, KeysFollowProvider
  <2>3. CacheAsSealed /\ SnapshotObeyed /\ OldSignalsGo
    BY DEF TrustIInv, SealIInv, SnapshotIInv, SignalIInv
  <2>4. QED BY <2>1, <2>2, <2>3 DEF GrantsKept, DeviceTrustSound
<1>4. QED BY <1>1, <1>2, <1>3, PTL DEF DevicesSpec
-----------------------------------------------------------------------------
(* The types of the device's parts                                         *)

\* What the invariants above leave open: the bounds of the clocks, the keychain and the
\* device table, the lock, and what the cache holds.
LoginSide ==
    /\ second \in 0..LastSecond
    /\ keychain \in DeviceIds \union {NoDevice} /\ readable \in BOOLEAN
    /\ devices \in [DeviceIds -> {"unknown", "active", "revoked"}]
    /\ hasty \in BOOLEAN
KeySetSide ==
    /\ moment \in 0..LastMoment
    /\ holder \in Bearers \union {NoBearer}
    /\ \A k \in Kids : seen[k] <= moment
TrustSide ==
    /\ granted \subseteq held /\ held \subseteq Papers
    /\ \A r \in Papers : filling = Tail(Admitting(r)) => r \in held
    /\ serverKey \in SigningKeys /\ deviceKey \in SigningKeys \union {0}

LEMMA LoginSideKept == LoginIInv /\ LoginSide /\ [LoginNext]_loginVars => LoginSide'
<1> SUFFICES ASSUME LoginIInv, LoginSide, [LoginNext]_loginVars PROVE LoginSide' OBVIOUS
<1>1. LastSecond \in Nat BY LoginBounds
<1>2. CASE UNCHANGED loginVars BY <1>2 DEF loginVars, LoginSide
<1>3. CASE SecondPasses BY <1>1, <1>3 DEF SecondPasses, LoginSide
<1>4. ASSUME NEW p \in Programs,
             \/ EnsureEnrolled(p) \/ (\E i \in Intervals : StartDeviceCode(p, i)) \/ Poll(p)
             \/ Pending(p) \/ SlowDown(p) \/ Wake(p) \/ Authorized(p) \/ LoginFails(p)
             \/ EnrollFails(p)
      PROVE  LoginSide'
  BY <1>4 DEF LoginSide, EnsureEnrolled, StartDeviceCode, Poll, Pending, SlowDown, Wake,
              Authorized, LoginFails, EnrollFails
<1>5. ASSUME NEW p \in Programs, NEW d \in DeviceIds, Enroll(p, d) PROVE LoginSide'
  BY <1>5 DEF LoginSide, Enroll, Register
<1>6. ASSUME NEW p \in Programs, Save(p) PROVE LoginSide'
  <2>1. login[p] \in LoginRecord /\ login[p].pc = "save" BY <1>6 DEF LoginIInv, LoginTyped, Save
  <2>2. login[p].device \in DeviceIds BY <2>1, LoginIs
  <2>3. QED BY <1>6, <2>2 DEF LoginSide, Save
<1>7. CASE Delete BY <1>7 DEF LoginSide, Delete
<1>8. CASE KeychainChanges BY <1>8 DEF LoginSide, KeychainChanges
<1>9. ASSUME NEW d \in DeviceIds, Revoke(d) PROVE LoginSide' BY <1>9 DEF LoginSide, Revoke
<1>10. QED BY <1>2, <1>3, <1>4, <1>5, <1>6, <1>7, <1>8, <1>9 DEF LoginNext

LEMMA LoginTypes == LoginIInv /\ LoginSide => LoginTypeOK
<1> SUFFICES ASSUME LoginIInv, LoginSide PROVE LoginTypeOK OBVIOUS
<1>1. ASSUME NEW p \in Programs
      PROVE  /\ login[p].pc \in {"off", "asked", "poll", "polled", "asleep", "enrolling", "save"}
             /\ paces[p].last \in {Never} \union 0..second /\ paces[p].asked \in Nat
  <2>1. login[p] \in LoginRecord /\ paces[p] \in Pace /\ second \in Nat
    BY DEF LoginIInv, LoginTyped
  <2>2. login[p].pc \in {"off", "asked", "poll", "polled", "asleep", "enrolling", "save"}
    BY <2>1 DEF LoginRecord, Off
  <2>3. paces[p].last # Never => paces[p].last <= second BY DEF LoginIInv, PollsApart
  <2>4. QED BY <2>1, <2>2, <2>3 DEF Pace
<1>2. QED BY <1>1 DEF LoginIInv, LoginSide, LoginTypeOK

LEMMA KeySetSideKept == KeySetIInv /\ KeySetSide /\ [KeySetNext]_keySetVars => KeySetSide'
<1> SUFFICES ASSUME KeySetIInv, KeySetSide, [KeySetNext]_keySetVars PROVE KeySetSide' OBVIOUS
<1>1. LastMoment \in Nat /\ seen \in [Kids -> Nat] BY KeySetBounds DEF KeySetIInv, KeySetTyped
<1>2. CASE UNCHANGED keySetVars BY <1>2 DEF keySetVars, KeySetSide
<1>3. ASSUME NEW b \in Bearers,
             \/ \E k \in Kids : Arrive(b, k)
             \/ Enter(b) \/ Served(b) \/ Refreshed(b) \/ FetchFails(b)
      PROVE  KeySetSide'
  <2>1. UNCHANGED <<moment, seen>> /\ holder' \in {holder, b, NoBearer}
    BY <1>3 DEF Arrive, Enter, Served, Refreshed, FetchFails
  <2>2. QED BY <2>1 DEF KeySetSide
<1>4. ASSUME NEW k \in Kids, ProviderPublishes(k) PROVE KeySetSide'
  BY <1>4 DEF ProviderPublishes, KeySetSide
<1>5. ASSUME NEW k \in Kids, ProviderWithdraws(k) PROVE KeySetSide'
  <2>1. seen' = [seen EXCEPT ![k] = moment] /\ UNCHANGED <<moment, holder>>
    BY <1>5 DEF ProviderWithdraws
  <2>2. QED BY <1>1, <2>1 DEF KeySetSide
<1>6. CASE Elapse
  <2>1. moment < LastMoment /\ moment' = moment + 1 /\ UNCHANGED <<holder, seen>>
    BY <1>6 DEF Elapse
  <2>2. moment' \in 0..LastMoment BY <1>1, <2>1 DEF KeySetSide
  <2>3. \A k \in Kids : seen'[k] <= moment' BY <1>1, <2>1 DEF KeySetSide
  <2>4. QED BY <2>1, <2>2, <2>3 DEF KeySetSide
<1>7. QED BY <1>2, <1>3, <1>4, <1>5, <1>6 DEF KeySetNext

LEMMA KeySetTypes == KeySetIInv /\ KeySetSide => KeySetTypeOK
<1> SUFFICES ASSUME KeySetIInv, KeySetSide PROVE KeySetTypeOK OBVIOUS
<1> DEFINE Now ==
      {Resting}
      \union [pc: {"lock"}, kid: Kids, steady: BOOLEAN]
      \union [pc: {"asked"}, kid: Kids, steady: BOOLEAN, since: 0..moment]
      \union [pc: {"reply"}, kid: Kids, steady: BOOLEAN, since: 0..moment, reply: SUBSET Kids]
<1>1. /\ moment \in Nat /\ fetchedAt \in Nat /\ fetchedAt <= moment
      /\ bearer \in [Bearers -> BearerRecord] /\ seen \in [Kids -> Nat]
  BY DEF KeySetIInv, KeySetTyped
<1>2. ASSUME NEW b \in Bearers PROVE bearer[b] \in Now
  <2>1. PICK r \in BearerRecord : r = bearer[b] BY <1>1
  <2>2. r.pc \in {"asked", "reply"} => r.since \in 0..moment
    BY <1>1, <2>1, BearerIs DEF KeySetIInv, RequestFits
  <2>3. CASE r \in [pc: {"asked"}, kid: Kids, steady: BOOLEAN, since: Nat]
    BY <2>2, <2>3, <2>1
  <2>4. CASE r \in [pc: {"reply"}, kid: Kids, steady: BOOLEAN, since: Nat, reply: SUBSET Kids]
    BY <2>2, <2>4, <2>1
  <2>5. QED BY <2>1, <2>3, <2>4 DEF BearerRecord
<1>3. bearer \in [Bearers -> Now] BY <1>1, <1>2
<1>4. seen \in [Kids -> 0..moment] BY <1>1 DEF KeySetSide
<1>5. fetchedAt \in 0..moment BY <1>1
<1>6. QED BY <1>3, <1>4, <1>5 DEF KeySetIInv, KeySetTyped, KeySetSide, KeySetTypeOK

\* What a change under way does next.
LEMMA StatementIs ==
    ASSUME NEW r \in Papers, NEW rest \in Leftover(r), rest # NothingToDo
    PROVE  /\ Head(rest)[2] = r
           /\ Head(rest)[1] = "lease" => rest = Tail(Admitting(r))
           /\ \A q \in Papers : Tail(rest) = Tail(Admitting(q)) =>
                                   q = r /\ Head(rest)[1] = "record"
           /\ rest \in Seq({"record", "lease", "delete", "seal"} \X Papers)
<1>1. \A q \in Papers : Tail(Admitting(q)) = <<<<"lease", q>>, <<"seal", q>>>> BY DEF Admitting
<1>2. Tail(Tail(Admitting(r))) = <<<<"seal", r>>>>
  <2>1. Tail(<<<<"lease", r>>, <<"seal", r>>>>) = <<<<"seal", r>>>> OBVIOUS
  <2>2. QED BY <1>1, <2>1, Zenon
<1>3. Tail(Removing(r)) = <<<<"seal", r>>>> BY DEF Removing
<1>4. rest \in {Admitting(r), <<<<"lease", r>>, <<"seal", r>>>>, <<<<"seal", r>>>>, Removing(r)}
  BY <1>1, <1>2, <1>3 DEF Leftover, NothingToDo
<1>5. CASE rest = Admitting(r) BY <1>1, <1>5 DEF Admitting
<1>6. CASE rest = <<<<"lease", r>>, <<"seal", r>>>>
  <2>1. Head(rest) = <<"lease", r>> /\ Tail(rest) = <<<<"seal", r>>>> BY <1>6
  <2>2. \A q \in Papers : <<<<"seal", r>>>> # <<<<"lease", q>>, <<"seal", q>>>> OBVIOUS
  <2>3. rest \in Seq({"record", "lease", "delete", "seal"} \X Papers) BY <1>6
  <2>4. /\ Head(rest)[1] = "lease" /\ Head(rest)[2] = r
        /\ rest = Tail(Admitting(r))
    <3>1. Head(rest)[1] = "lease" /\ Head(rest)[2] = r BY <2>1
    <3>2. rest = Tail(Admitting(r)) BY <1>1, <1>6, Zenon
    <3>3. QED BY <3>1, <3>2
  <2>5. \A q \in Papers : Tail(rest) # Tail(Admitting(q)) BY <1>1, <2>1, <2>2, Zenon
  <2>6. QED BY <2>3, <2>4, <2>5
<1>7. CASE rest = <<<<"seal", r>>>> BY <1>1, <1>7
<1>8. CASE rest = Removing(r)
  <2>1. Head(rest) = <<"delete", r>> /\ Tail(rest) = <<<<"seal", r>>>> BY <1>8 DEF Removing
  <2>2. \A q \in Papers : <<<<"seal", r>>>> # <<<<"lease", q>>, <<"seal", q>>>> OBVIOUS
  <2>3. rest \in Seq({"record", "lease", "delete", "seal"} \X Papers) BY <1>8 DEF Removing
  <2>4. Head(rest)[1] = "delete" /\ Head(rest)[2] = r BY <2>1
  <2>5. \A q \in Papers : Tail(rest) # Tail(Admitting(q)) BY <1>1, <2>1, <2>2, Zenon
  <2>6. QED BY <2>3, <2>4, <2>5
<1>9. QED BY <1>4, <1>5, <1>6, <1>7, <1>8

LEMMA SealSideKept ==
    ASSUME SealIInv, TrustSide, [SealNext]_sealVars, UNCHANGED <<serverKey, deviceKey>>
    PROVE  TrustSide'
<1>1. CASE \/ OpenCache \/ CloseCache \/ UNCHANGED sealVars
  BY <1>1 DEF OpenCache, CloseCache, sealVars, TrustSide
<1>2. \A r \in Papers : NothingToDo # Tail(Admitting(r)) BY DEF NothingToDo, Admitting
<1>3. CASE ApplicationDies BY <1>2, <1>3 DEF ApplicationDies, TrustSide
<1>4. CASE WipeAndResync
  <2>1. filling = NothingToDo BY <1>4 DEF SealIInv, WipeAndResync
  <2>2. QED BY <1>2, <1>4, <2>1 DEF WipeAndResync, TrustSide
<1>5. ASSUME NEW r \in Papers, Admit(r) \/ Discard(r) PROVE TrustSide'
  <2>1. \A q \in Papers : Admitting(r) # Tail(Admitting(q)) /\ Removing(r) # Tail(Admitting(q))
    BY DEF Admitting, Removing
  <2>2. UNCHANGED <<held, granted>> /\ filling' \in {Admitting(r), Removing(r)}
    BY <1>5 DEF Admit, Discard, StartsChange
  <2>3. QED BY <2>1, <2>2 DEF TrustSide
<1>6. CASE Statement
  <2>1. PICK r \in Papers : filling \in Leftover(r) /\ filling # NothingToDo
    BY <1>6 DEF SealIInv, Statement
  <2>2. PICK s : s = Head(filling) OBVIOUS
  <2>3. /\ filling' = Tail(filling)
        /\ held' = CASE s[1] = "record" -> held \union {s[2]}
                     [] s[1] = "delete" -> held \ {s[2]}
                     [] OTHER -> held
        /\ granted' = CASE s[1] = "lease" -> granted \union {s[2]}
                        [] s[1] = "delete" -> granted \ {s[2]}
                        [] OTHER -> granted
    BY <1>6, <2>2 DEF Statement
  <2>4. /\ s[2] = r /\ s[1] \in {"record", "lease", "delete", "seal"}
        /\ s[1] = "lease" => filling = Tail(Admitting(r))
        /\ \A q \in Papers : filling' = Tail(Admitting(q)) => q = r /\ s[1] = "record"
    BY <2>1, <2>2, <2>3, StatementIs, LeftoverSteps
  <2>5. CASE s[1] = "record" BY <2>3, <2>4, <2>5 DEF TrustSide
  <2>6. CASE s[1] = "lease" BY <2>3, <2>4, <2>6 DEF TrustSide
  <2>7. CASE s[1] = "delete" BY <2>3, <2>4, <2>7 DEF TrustSide
  <2>8. CASE s[1] = "seal" BY <2>3, <2>4, <2>8 DEF TrustSide
  <2>9. QED BY <2>4, <2>5, <2>6, <2>7, <2>8
<1>7. QED BY <1>1, <1>3, <1>4, <1>5, <1>6 DEF SealNext

LEMMA KeysSideKept ==
    ASSUME TrustSide, [SnapshotNext]_snapshotVars, UNCHANGED <<held, granted, filling>>
    PROVE  TrustSide'
<1>1. serverKey' \in SigningKeys /\ deviceKey' \in {deviceKey, serverKey}
  BY DEF TrustSide, SnapshotNext, snapshotVars, InstantPasses, DeviceClockSet, KeyChanges,
         DeviceGetsKey, Sync,
         PolicyChanges, DecideOffline
<1>2. QED BY <1>1 DEF TrustSide

LEMMA TrustTypes == TrustIInv /\ TrustSide => TrustTypeOK
<1> SUFFICES ASSUME TrustIInv, TrustSide PROVE TrustTypeOK OBVIOUS
<1>1. filling \in Seq({"record", "lease", "delete", "seal"} \X Papers)
  <2>1. CASE filling = NothingToDo BY <2>1 DEF NothingToDo
  <2>2. CASE filling # NothingToDo BY <2>2, StatementIs DEF TrustIInv, SealIInv
  <2>3. QED BY <2>1, <2>2
<1>2. \A n \in Noters : noter[n].pc \in {"idle", "count", "prune"}
  BY DEF TrustIInv, SignalIInv, Noting, NotNoting
<1>3. QED BY <1>1, <1>2 DEF TrustIInv, SealIInv, SnapshotIInv, TrustSide, TrustTypeOK

\* The part of a device that runs is in a state of its own kind, for every value of the
\* constants: the type invariant of the Devices run.
THEOREM DeviceTypesHold == DevicesSpec => []PartsTypeOK
<1> DEFINE Inv ==
      /\ part = "lease" => LeaseIInv
      /\ LoginIInv /\ KeySetIInv /\ TrustIInv
      /\ LoginSide /\ KeySetSide /\ TrustSide
<1>1. DevicesInit => Inv
  <2> SUFFICES ASSUME DevicesInit PROVE Inv OBVIOUS
  <2>1. RunInit /\ LoginInit /\ KeySetInit /\ TrustInit BY DEF DevicesInit
  <2>2. LoginSide
    <3>1. hasty \in BOOLEAN /\ readable \in BOOLEAN BY <2>1, Zenon DEF LoginInit
    <3>2. QED BY <2>1, <3>1, LoginBounds DEF LoginInit, LoginSide
  <2>3. KeySetSide BY <2>1, KeySetBounds DEF KeySetInit, KeySetSide
  <2>4. TrustSide
    <3>1. \A r \in Papers : NothingToDo # Tail(Admitting(r)) BY DEF NothingToDo, Admitting
    <3>2. QED BY <2>1, <3>1, DeviceTrustBounds DEF TrustInit, TrustSide
  <2>5. QED BY <2>1, <2>2, <2>3, <2>4, RunStarts, LoginInitIInv, KeySetInitIInv, TrustInitIInv
<1>2. Inv /\ [DevicesNext]_devicesVars => Inv'
  <2> SUFFICES ASSUME Inv, [DevicesNext]_devicesVars PROVE Inv' OBVIOUS
  <2>1. /\ [RunNext]_runVars /\ [LoginNext]_loginVars /\ [KeySetNext]_keySetVars
        /\ [SealNext]_sealVars /\ [SnapshotNext]_snapshotVars /\ [SignalNext]_signalVars
        /\ part' = part
        /\ UNCHANGED sealVars \/ UNCHANGED snapshotVars
    BY DEF DevicesNext, devicesVars, trustVars
  <2>2. part' = "lease" => LeaseIInv' BY <2>1, RunStepKept, RunStutterKept
  <2>3. LoginIInv' /\ KeySetIInv' /\ TrustIInv'
    BY <2>1, LoginSteps, KeySetSteps, SealSteps, SnapshotSteps, SignalSteps DEF TrustIInv
  <2>4. LoginSide' /\ KeySetSide' BY <2>1, LoginSideKept, KeySetSideKept
  <2>5. TrustSide'
    <3>1. CASE UNCHANGED snapshotVars
      BY <2>1, <3>1, SealSideKept DEF TrustIInv, snapshotVars
    <3>2. CASE UNCHANGED sealVars
      BY <2>1, <3>2, KeysSideKept DEF sealVars
    <3>3. QED BY <2>1, <3>1, <3>2
  <2>6. QED BY <2>2, <2>3, <2>4, <2>5
<1>3. Inv => PartsTypeOK
  <2> SUFFICES ASSUME Inv PROVE PartsTypeOK OBVIOUS
  <2>1. part = "lease" => TypeOK BY DEF LeaseIInv
  <2>2. LoginTypeOK /\ KeySetTypeOK /\ TrustTypeOK BY LoginTypes, KeySetTypes, TrustTypes
  <2>3. QED BY <2>1, <2>2 DEF PartsTypeOK
<1>4. QED BY <1>1, <1>2, <1>3, PTL DEF DevicesSpec
=============================================================================
