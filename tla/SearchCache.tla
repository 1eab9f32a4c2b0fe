----------------------------- MODULE SearchCache -----------------------------
(***************************************************************************)
(* The answers of POST /api/v1/search (mcp/http_server.py) in a cache of   *)
(* limited size (cache/manager.py).  Handlers run on one event loop: a get *)
(* and a put are one step each, the recall between them is not.  A row's   *)
(* score is computed when it is touched, when its recency weight is 1.     *)
(***************************************************************************)
EXTENDS Naturals, FiniteSets

CONSTANTS
    Searches,       \* requests that are being handled
    Keys,           \* principal, query and limit, hashed
    Sizes,          \* sizes of answers, in bytes
    Penalty,        \* the divisor of a size in the score
    Capacity,       \* max_bytes
    MaxHits         \* bound: touches of a row

ASSUME KeysAssumption == IsFiniteSet(Keys)
ASSUME SizesAssumption == Sizes \subseteq Nat /\ 0 \notin Sizes
ASSUME PenaltyAssumption == Penalty \in [Sizes -> Nat \ {0}]
ASSUME CacheBounds == Capacity \in Nat /\ MaxHits \in Nat

VARIABLES
    rows,       \* the cached answers by key
    search      \* the key each request waits for a recall of

cacheVars == <<rows, search>>

NoRow == [size |-> 0, hits |-> 0]
NotSearching == [busy |-> FALSE]

CacheInit ==
    /\ rows = [k \in Keys |-> NoRow]
    /\ search = [s \in Searches |-> NotSearching]

Cached == {k \in Keys : rows[k] # NoRow}
Bytes(ks) == UNION {{k} \X (1..rows[k].size) : k \in ks}
SizeOf(ks) == Cardinality(Bytes(ks))

\* ORDER BY ml_score: k may be evicted before j.
LowerOrSame(k, j) ==
    rows[k].hits * Penalty[rows[j].size] <= rows[j].hits * Penalty[rows[k].size]

\* The rows of ks that go first, for some order among rows of the same score.
GoFirst(gone, ks) == \A k \in gone, j \in ks \ gone : LowerOrSame(k, j)

(***************************************************************************)
(* put.  _make_room evicts one row at a time, never the one to be          *)
(* replaced, until the answer fits or no other row is left.                *)
(***************************************************************************)
\* Mutant: it evicts one row and no more.
MakeRoomOnce(k, size, gone) ==
    LET others == Cached \ {k} IN
       IF SizeOf(others) + size <= Capacity THEN gone = {}
       ELSE gone \subseteq others /\ Cardinality(gone) <= 1 /\ GoFirst(gone, others)
MakeRoom(k, size, gone) ==
    LET others == Cached \ {k}
        fits(left) == SizeOf(left) + size <= Capacity
    IN  /\ gone \subseteq others
        /\ GoFirst(gone, others)
        /\ fits(others \ gone) \/ gone = others
        /\ gone # {} => \E last \in gone :
              /\ \A k2 \in gone : LowerOrSame(k2, last)
              /\ ~fits((others \ gone) \union {last})

Put(k, size) ==
    \E gone \in SUBSET Keys :
       /\ MakeRoom(k, size, gone)
       /\ rows[k].hits < MaxHits
       /\ rows' = [j \in Keys |->
             IF j = k THEN [size |-> size, hits |-> rows[k].hits + 1]
             ELSE IF j \in gone THEN NoRow ELSE rows[j]]

(***************************************************************************)
(* rest_search                                                             *)
(***************************************************************************)
Hit(k) ==
    /\ k \in Cached
    /\ rows[k].hits < MaxHits
    /\ rows' = [rows EXCEPT ![k].hits = @ + 1]
    /\ UNCHANGED search

Miss(s, k) ==
    /\ k \notin Cached
    /\ ~search[s].busy
    /\ search' = [search EXCEPT ![s] = [busy |-> TRUE, key |-> k]]
    /\ UNCHANGED rows

\* The recall returns an answer of some size: it is put, also over one that another
\* request for the key has put meanwhile.
PutAnswer(s) ==
    /\ search[s].busy
    /\ \E size \in Sizes : Put(search[s].key, size)
    /\ search' = [search EXCEPT ![s] = NotSearching]

RecallFails(s) ==
    /\ search[s].busy
    /\ search' = [search EXCEPT ![s] = NotSearching]
    /\ UNCHANGED rows

(***************************************************************************)
(* delete, and evict_lowest_scored, which ensure_space calls in a loop.    *)
(***************************************************************************)
DeleteRow(k) ==
    /\ k \in Cached
    /\ rows' = [rows EXCEPT ![k] = NoRow]
    /\ UNCHANGED search

EvictLowest(n) ==
    /\ \E gone \in SUBSET Cached :
          /\ gone # {}
          /\ Cardinality(gone) = (IF Cardinality(Cached) < n THEN Cardinality(Cached) ELSE n)
          /\ GoFirst(gone, Cached)
          /\ rows' = [k \in Keys |-> IF k \in gone THEN NoRow ELSE rows[k]]
    /\ UNCHANGED search

CacheNext ==
    \/ \E k \in Keys : Hit(k) \/ DeleteRow(k)
    \/ \E s \in Searches : PutAnswer(s) \/ RecallFails(s) \/ \E k \in Keys : Miss(s, k)
    \/ \E n \in 1..Cardinality(Keys) : EvictLowest(n)

CacheSpec == CacheInit /\ [][CacheNext]_cacheVars

-----------------------------------------------------------------------------
CacheTypeOK ==
    /\ rows \in [Keys -> [size: Sizes, hits: 1..MaxHits] \union {NoRow}]
    /\ search \in [Searches -> {NotSearching} \union [busy: {TRUE}, key: Keys]]

\* The cache outgrows its limit only for one answer that is larger than the limit by
\* itself, and then it holds nothing else: whatever was put, replaced by a longer
\* answer, hit or evicted before.  (CacheManager.put, _make_room.)
WithinLimit == SizeOf(Cached) <= Capacity \/ Cardinality(Cached) = 1
=============================================================================
