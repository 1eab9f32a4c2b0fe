----------------------------- MODULE SyncEngine -----------------------------
(***************************************************************************)
(* Delta sync between devices and the hub (sync/engine.py, sync/router.py). *)
(* A push is checked record by record and stored with one changelog row    *)
(* each; a pull turns the client's token into a time, reads the records    *)
(* that changed after it, and reads the new token, on three connections.   *)
(*                                                                         *)
(* A worker runs one request at a time: the handlers have no await.        *)
(***************************************************************************)
EXTENDS Integers, Sequences, FiniteSets

CONSTANTS
    Documents,     \* record ids
    Principals,  \* authenticated principals, one device each
    Payloads,    \* record bodies
    Ranks,       \* classifications, by _classification_rank (0: restricted)
    Workers,     \* threads or processes that serve requests
    Limit,       \* limit of a pull
    MaxBatch,    \* bound: records in one push
    MaxLog,      \* bound: rows in the changelog
    NoDocument         \* no record

ASSUME SyncEngineBounds == Limit \in Nat \ {0} /\ MaxBatch \in Nat /\ MaxLog \in Nat
ASSUME RanksAssumption == Ranks \subseteq 0..3

\* What the server stores of a record (nothing reads its principal_id).
Record == [acl: SUBSET Principals, rank: Ranks, payload: Payloads]
Pushed == [id: Documents, body: Record]

ASSUME NoDocumentAssumption == NoDocument \notin Record

VARIABLES
    store,   \* sync_records
    log,     \* sync_changelog: the row of id i is log[i]
    stamped, \* the last time that was stamped on a row
    request, \* what each worker is serving
    client   \* the token and the copies that each principal's device keeps

syncVars == <<store, log, stamped, request, client>>

Unasked == [pc |-> "idle"]

\* _server_wins_on_acl: neither more readers nor a looser label than the
\* server has.  Mutant: only the label is compared.
OnlyLabel(old, new) == new.rank <= old.rank
NotWider(old, new) == new.acl \subseteq old.acl /\ new.rank <= old.rank

\* A pushed record is stored if its sender may read it and it does not widen
\* what the server has.
Accepted(s, p, rec) ==
    /\ p \in rec.body.acl
    /\ s[rec.id] # NoDocument => NotWider(s[rec.id], rec.body)

\* The changelog after an upsert.  Mutant: updates are not logged.
ChangeLoggedWhenNew(db, rec, at) ==
    IF db.store[rec.id] = NoDocument
    THEN Append(db.log, [record |-> rec.id, at |-> at]) ELSE db.log
ChangeLogged(db, rec, at) == Append(db.log, [record |-> rec.id, at |-> at])

Upsert(db, rec, at) ==
    [store |-> [db.store EXCEPT ![rec.id] = rec.body],
     log |-> ChangeLogged(db, rec, at)]

SyncInit ==
    /\ store = [r \in Documents |-> NoDocument]
    /\ log = <<>>
    /\ stamped = 0
    /\ request = [w \in Workers |-> Unasked]
    /\ client = [p \in Principals |-> [token |-> 0, copy |-> [r \in Documents |-> NoDocument]]]
-----------------------------------------------------------------------------
(* Push                                                                    *)

\* The records up to the first one that is accepted are checked before the
\* transaction begins; that one is stamped, and waits for the write lock.
PushCheck(w, p, delta) ==
    /\ request[w].pc = "idle"
    /\ Len(log) + Len(delta) <= MaxLog
    /\ \E i \in 1..Len(delta) :
         /\ Accepted(store, p, delta[i])
         /\ \A j \in 1..(i - 1) : ~Accepted(store, p, delta[j])
         /\ stamped' = stamped + 1
         /\ request' = [request EXCEPT ![w] =
                [pc |-> "push", who |-> p, at |-> stamped + 1, first |-> delta[i],
                 rest |-> SubSeq(delta, i + 1, Len(delta))]]
    /\ UNCHANGED <<store, log, client>>

\* The write lock is free, and the first record goes in as it was checked.
PushBegin(w) ==
    LET q == request[w]
        db == Upsert([store |-> store, log |-> log], q.first, q.at)
    IN /\ q.pc = "push"
       /\ \A v \in Workers : request[v].pc # "transaction"
       /\ request' = [request EXCEPT ![w] =
              [pc |-> "transaction", who |-> q.who, rest |-> q.rest,
               store |-> db.store, log |-> db.log]]
       /\ UNCHANGED <<store, log, stamped, client>>

\* Each of the others is checked against what the transaction sees.
PushNext(w) ==
    LET q == request[w]
        rec == Head(q.rest)
        db == IF Accepted(q.store, q.who, rec) THEN Upsert(q, rec, stamped + 1)
              ELSE [store |-> q.store, log |-> q.log]
    IN /\ q.pc = "transaction" /\ q.rest # <<>>
       /\ request' = [request EXCEPT ![w] =
              [pc |-> "transaction", who |-> q.who, rest |-> Tail(q.rest),
               store |-> db.store, log |-> db.log]]
       /\ stamped' = IF Accepted(q.store, q.who, rec) THEN stamped + 1 ELSE stamped
       /\ UNCHANGED <<store, log, client>>

\* All are committed at once.
PushCommit(w) ==
    LET q == request[w] IN
    /\ q.pc = "transaction" /\ q.rest = <<>>
    /\ store' = q.store
    /\ log' = q.log
    /\ request' = [request EXCEPT ![w] = Unasked]
    /\ UNCHANGED <<stamped, client>>
-----------------------------------------------------------------------------
(* Pull                                                                    *)

\* datetime_for_token: the stamp of a row of the changelog, or all time.
StampOf(token) == IF token \in 1..Len(log) THEN log[token].at ELSE 0

Visible(p, r) == IF store[r] = NoDocument THEN FALSE ELSE p \in store[r].acl
ChangedSince(t) == {log[i].record : i \in {j \in 1..Len(log) : log[j].at > t}}

PullSince(w, p) ==
    /\ request[w].pc = "idle"
    /\ request' = [request EXCEPT ![w] =
           [pc |-> "rows", who |-> p, since |-> StampOf(client[p].token)]]
    /\ UNCHANGED <<store, log, stamped, client>>

\* At most Limit of the visible records that changed, in changelog order; a
\* record that changed twice may count at either place.
PullRows(w) ==
    LET q == request[w]
        found == {r \in ChangedSince(q.since) : Visible(q.who, r)}
        size == IF Cardinality(found) <= Limit THEN Cardinality(found) ELSE Limit
    IN /\ q.pc = "rows"
       /\ \E rows \in SUBSET found :
            /\ Cardinality(rows) = size
            /\ request' = [request EXCEPT ![w] =
                   [pc |-> "token", who |-> q.who,
                    rows |-> [r \in rows |-> store[r]]]]
       /\ UNCHANGED <<store, log, stamped, client>>

\* latest_token.  Mutants: one row ahead; MAX(id) of an empty log is NULL.
TokenAhead == Len(log) + 1
TokenOrNull == IF log = <<>> THEN NoDocument ELSE Len(log)
LatestToken == Len(log)

\* The response reaches the device.
PullToken(w) ==
    LET q == request[w] IN
    /\ q.pc = "token"
    /\ request' = [request EXCEPT ![w] = Unasked]
    /\ client' = [client EXCEPT ![q.who] =
           [token |-> LatestToken,
            copy |-> [r \in Documents |-> IF r \in DOMAIN q.rows THEN q.rows[r] ELSE @.copy[r]]]]
    /\ UNCHANGED <<store, log, stamped>>

\* The response is lost: the device keeps its token and asks again.
PullLost(w) ==
    /\ request[w].pc = "token"
    /\ request' = [request EXCEPT ![w] = Unasked]
    /\ UNCHANGED <<store, log, stamped, client>>
-----------------------------------------------------------------------------
Deltas == UNION {[1..n -> Pushed] : n \in 1..MaxBatch}

SyncNext ==
    \E w \in Workers :
        \/ \E p \in Principals, delta \in Deltas : PushCheck(w, p, delta)
        \/ PushBegin(w) \/ PushNext(w) \/ PushCommit(w)
        \/ \E p \in Principals : PullSince(w, p)
        \/ PullRows(w) \/ PullToken(w) \/ PullLost(w)

SyncSpec == SyncInit /\ [][SyncNext]_syncVars
-----------------------------------------------------------------------------
(* Properties                                                              *)

Row == [record: Documents, at: Nat]

Request ==
    {Unasked}
        \union [pc: {"push"}, who: Principals, at: Nat, first: Pushed, rest: Seq(Pushed)]
        \union [pc: {"transaction"}, who: Principals, rest: Seq(Pushed),
                store: [Documents -> Record \union {NoDocument}], log: Seq(Row)]
        \union [pc: {"rows"}, who: Principals, since: Nat]
        \union [pc: {"token"}, who: Principals,
                rows: UNION {[found -> Record] : found \in SUBSET Documents}]

\* Every variable has its type: a client's token is a number, also when the
\* changelog is empty.
SyncTypeOK ==
    /\ request \in [Workers -> Request]
    /\ store \in [Documents -> Record \union {NoDocument}]
    /\ log \in Seq(Row)
    /\ stamped \in Nat
    /\ client \in [Principals -> [token: Nat, copy: [Documents -> Record \union {NoDocument}]]]

\* "The core invariant": whoever pushes, the readers of a record never become
\* more and its label never becomes looser.
NoWidening ==
    [][\A r \in Documents : store[r] # NoDocument =>
          /\ store'[r].acl \subseteq store[r].acl
          /\ store'[r].rank <= store[r].rank]_syncVars

\* A device that has a stale copy of a record it may read will get it: its
\* token lies before a change of that record ("rowid > last_seen always
\* yields exactly the new rows since the last pull").
NothingMissed ==
    \A p \in Principals, r \in Documents :
        (Visible(p, r) /\ client[p].copy[r] # store[r]) =>
            r \in ChangedSince(StampOf(client[p].token))
=============================================================================
