-------------------------------- MODULE Fusion --------------------------------
(***************************************************************************)
(* How candidates of a recall are fused (fusion/, and the cognitive order  *)
(* of retrieval/hybrid.py).  The weighter of the recall and the gates that *)
(* went before it filter a pool of blocks; ranked lists are fused by       *)
(* reciprocal ranks; and three objects keep something from call to call:   *)
(* the policy of what is kept (materialisation_policy), the state between  *)
(* chunks (chunk_state_compression) and the index of clusters              *)
(* (block_retrieval).  Similarities, weights and thresholds are in percent.*)
(***************************************************************************)
EXTENDS Integers, Sequences, FiniteSets, SequencesExt, FiniteSetsExt

CONSTANTS
    Embeddings,   \* vectors of blocks and questions
    NoEmbedding,  \* a block or a question without one
    Cosine,       \* <<v, w>> -> their similarity, -100..100
    BaseScores,   \* scores of a block before fusion
    Weightings,   \* of the weighter: [least, near, decay, floor]
    Gatings,      \* of the gates: [alpha, b, c, delta]
    MaxPool,      \* bound: blocks in a pool
    Finds,        \* what may be kept: [id, score, vec]
    ScoreFloor, NoveltyFloor, KeepCapacity,
    MaxKeeps,     \* bound: batches
    Names,        \* <<name, spelling>> of entities of a chunk
    EntityCap,    \* max_entities
    MaxChunks,    \* bound: chunks
    ClusterCount, \* n_clusters
    MaxFits       \* bound: fits of the index

ASSUME FusionBounds ==
    /\ NoEmbedding \notin Embeddings
    /\ \A v, w \in Embeddings :
          Cosine[<<v, w>>] \in -100..100 /\ Cosine[<<v, w>>] = Cosine[<<w, v>>]
    /\ BaseScores \subseteq Nat
    /\ \A s \in Weightings : {s.least, s.near} \subseteq 0..100 /\ s.decay \in Nat \ {0}
    /\ {KeepCapacity, ClusterCount, EntityCap} \subseteq Nat \ {0}

VARIABLES
    keeping,  \* MaterialisationPolicy._store, each item with its batch (history)
    copy,     \* what get_store returned last
    batches,  \* batches evaluated
    evicted,  \* what the last one evicted
    best,     \* history: the best score that what is kept has come from
    between,  \* ChunkBoundaryState
    told,     \* history: the entities of all chunks, the latest first
    index,    \* BlockIndex: its centroids and their blocks, or Unfitted
    indexed,  \* history: the blocks of the last fit that had any with a vector
    fits      \* calls of fit

keepVars == <<keeping, copy, batches, evicted, best>>
chunkVars == <<between, told>>
indexVars == <<index, indexed, fits>>
fusionVars == <<keepVars, chunkVars, indexVars>>

Unfitted == <<>>
NothingKept == [items |-> <<>>, best |-> 0]

FusionInit ==
    /\ keeping = <<>> /\ copy = NothingKept /\ batches = 0 /\ evicted = <<>> /\ best = 0
    /\ between = [entities |-> <<>>, least |-> 0, most |-> 0, sum |-> 0, count |-> 0]
    /\ told = <<>>
    /\ index = Unfitted /\ indexed = <<>> /\ fits = 0

\* The places of a sequence from the highest value down, equals in their order.
Ranking(places, Value(_)) ==
    SetToSortSeq(places,
                 LAMBDA i, j : Value(i) > Value(j) \/ (Value(i) = Value(j) /\ i < j))

Similar(v, w) == IF NoEmbedding \in {v, w} THEN 0 ELSE Cosine[<<v, w>>]

-----------------------------------------------------------------------------
(* The weighter of the recall: one block after the other, each with the    *)
(* vector before it.  Scores are in units of 1000 times decay.             *)

QueryGate(block, question, s) ==
    LET likeness == IF NoEmbedding \in {block.vec, question} THEN 50
                    ELSE Cosine[<<question, block.vec>>]
    IN IF likeness < s.least THEN likeness ELSE 10 * likeness

\* The vector that is carried to the n-th block.
\* Mutant: it is that of the last block of all.
CarriedFromEnd(blocks, n) == blocks[Len(blocks)].vec
Carried(blocks, n) ==
    LET before == {i \in 1..(n - 1) : blocks[i].vec # NoEmbedding}
    IN IF before = {} THEN NoEmbedding ELSE blocks[Max(before)].vec

NextGate(blocks, n, s) ==
    LET last == Carried(blocks, n) IN
    IF \/ last = NoEmbedding
       \/ blocks[n].vec # NoEmbedding /\ Similar(last, blocks[n].vec) > s.near
    THEN s.decay ELSE 1

Weight(blocks, n, question, s) ==
    blocks[n].score * QueryGate(blocks[n], question, s) * NextGate(blocks, n, s)

Weighed(blocks, question, s) ==
    Ranking({n \in DOMAIN blocks :
                Weight(blocks, n, question, s) >= s.floor * 10 * s.decay},
            LAMBDA n : Weight(blocks, n, question, s))

-----------------------------------------------------------------------------
(* The three gates over a pool as a whole (gates.py).  Scores are in units *)
(* of Denominator, the fused one of its hundredth.                         *)

Denominator(blocks) == Max({1, Len(blocks) - 1})

Percentile(blocks, n) ==
    100 * IF Len(blocks) = 1 THEN (IF blocks[n].score > 0 THEN 1 ELSE 0)
          ELSE Cardinality({i \in DOMAIN blocks : blocks[i].score < blocks[n].score})

GateB(blocks, n, question) ==
    IF NoEmbedding \in {question, blocks[n].vec} THEN Percentile(blocks, n)
    ELSE Similar(question, blocks[n].vec) * Denominator(blocks)

Distance(x, y) == IF x < y THEN y - x ELSE x - y

\* Without any vector, blocks are as near as their B scores.
\* Mutant: only the blocks before it are looked at.
OthersBefore(blocks, n) == 1..(n - 1)
Others(blocks, n) == DOMAIN blocks \ {n}

GateC(blocks, n, question) ==
    LET nearness(i) ==
          IF \E k \in DOMAIN blocks : blocks[k].vec # NoEmbedding
          THEN Similar(blocks[n].vec, blocks[i].vec) * Denominator(blocks)
          ELSE 100 * Denominator(blocks)
                 - Distance(GateB(blocks, n, question), GateB(blocks, i, question))
    IN Max({0} \union {nearness(i) : i \in Others(blocks, n)})

GateFused(blocks, n, question, g) ==
    g.alpha * GateB(blocks, n, question) + (100 - g.alpha) * Percentile(blocks, n)

Coherent(blocks, n, question, g) ==
    Len(blocks) <= 1 \/ GateC(blocks, n, question) >= g.c * Denominator(blocks)

Passes(blocks, n, question, g) ==
    /\ GateB(blocks, n, question) >= g.b * Denominator(blocks)
    /\ Coherent(blocks, n, question, g)
    /\ GateFused(blocks, n, question, g) >= g.delta * 100 * Denominator(blocks)

-----------------------------------------------------------------------------
(* Reciprocal ranks (fuse, with k = 60), in parts of the product of the    *)
(* denominators of the first three ranks, and the cognitive order.         *)

\* Mutant: the constant is left out.
ReciprocalBare(rank) == 238266 \div rank
Reciprocal(rank) == 238266 \div (60 + rank)

RrfScore(lists, d) ==
    FoldSeq(+, 0, [k \in DOMAIN lists |->
                      FoldSeq(+, 0, [r \in DOMAIN lists[k] |->
                                        IF lists[k][r] = d THEN Reciprocal(r) ELSE 0])])

FusedRanks(lists) ==
    Ranking(UNION {ToSet(lists[k]) : k \in DOMAIN lists}, LAMBDA d : RrfScore(lists, d))

\* apply_cognitive_scoring: the score spread over the pool, the similarity and the age,
\* with the weights of CognitiveScorer, in units of the spread; the rest is the same for
\* all blocks.
Cognitive(blocks, n) ==
    LET scores == {blocks[i].score : i \in DOMAIN blocks}
        spread == Max(scores) - Min(scores)
        unit == IF spread = 0 THEN 2 ELSE spread
        lexical == IF spread = 0 THEN 1 ELSE blocks[n].score - Min(scores)
    IN unit * (25 * blocks[n].likeness + 8 * blocks[n].recency) + 18 * 100 * lexical

CognitiveOrder(blocks) == Ranking(DOMAIN blocks, LAMBDA n : Cognitive(blocks, n))

-----------------------------------------------------------------------------
(* What is kept of the results (MaterialisationPolicy).                    *)

\* _compute_novelty: against the vectors in the store if there are any, else the ids.
Novelty(item) ==
    LET alike == {Similar(item.vec, s.vec) :
                     s \in {t \in ToSet(keeping) : NoEmbedding \notin {item.vec, t.vec}}}
    IN IF alike # {} THEN 100 - Max(alike)
       ELSE IF \E s \in ToSet(keeping) : s.id = item.id THEN 0 ELSE 100

Accepted(batch) ==
    SelectSeq(batch, LAMBDA i : i.score >= ScoreFloor /\ Novelty(i) >= NoveltyFloor)

\* The items that stay, from the worst up, and those that must go.
\* Mutant: the items that came first go.
Oldest(items) == items
FromWorst(items) ==
    LET order == Ranking(DOMAIN items, LAMBDA n : 0 - items[n].score)
    IN [n \in DOMAIN items |-> items[order[n]]]

\* evaluate: all of a batch is compared with the store as it was before the batch.
Materialise(batch) ==
    LET new == Accepted(batch)
        all == keeping \o [n \in DOMAIN new |-> new[n] @@ [batch |-> batches + 1]]
        excess == Max({0, Len(all) - KeepCapacity})
        sorted == IF excess = 0 THEN all ELSE FromWorst(all)
    IN /\ batches < MaxKeeps /\ batches' = batches + 1
       /\ keeping' = SubSeq(sorted, excess + 1, Len(all))
       /\ evicted' = SubSeq(sorted, 1, excess)
       /\ best' = Max({best} \union {i.score : i \in ToSet(new)})
       /\ UNCHANGED copy

\* get_store; and load_store, at a start; and clear.
GetStore ==
    /\ keeping # <<>> /\ copy' = [items |-> keeping, best |-> best]
    /\ UNCHANGED <<keeping, batches, evicted, best>>
LoadStore ==
    /\ keeping' = copy.items /\ best' = copy.best /\ evicted' = <<>>
    /\ UNCHANGED <<copy, batches>>
ClearStore ==
    /\ keeping' = <<>> /\ best' = 0 /\ evicted' = <<>> /\ UNCHANGED <<copy, batches>>

KeepNext ==
    \/ \E n \in 1..2 : \E batch \in [1..n -> Finds] : Materialise(batch)
    \/ GetStore \/ LoadStore \/ ClearStore

-----------------------------------------------------------------------------
(* The state between chunks (absorb).  An entity is a name and a spelling, *)
(* in another case; the first spelling of a chunk is taken.  The topic     *)
(* vector is left out, and the decay, which follows from the count.        *)

\* The entities without those named before, or in the taken ones.
Distinct(entities, taken) ==
    LET firsts == {n \in DOMAIN entities :
                      /\ \A i \in 1..(n - 1) : entities[i][1] # entities[n][1]
                      /\ \A t \in ToSet(taken) : t[1] # entities[n][1]}
    IN [k \in 1..Cardinality(firsts) |-> entities[SetToSortSeq(firsts, <)[k]]]

\* The new entities before the old ones.
\* Mutant: after them.
MergedAfter(new, old) == old \o Distinct(new, old)
MergedEntities(new, old) ==
    LET fresh == Distinct(new, <<>>) IN fresh \o Distinct(old, fresh)

Absorb(entities, score) ==
    /\ between.count < MaxChunks
    /\ between' =
          [entities |-> SubSeq(MergedEntities(entities, between.entities), 1,
                               Min({EntityCap,
                                    Len(MergedEntities(entities, between.entities))})),
           least |-> IF between.count = 0 THEN score ELSE Min({between.least, score}),
           most |-> IF between.count = 0 THEN score ELSE Max({between.most, score}),
           sum |-> between.sum + score,
           count |-> between.count + 1]
    /\ told' = Distinct(entities, <<>>)
                 \o SelectSeq(told, LAMBDA t : \A e \in ToSet(entities) : e[1] # t[1])

ChunkNext ==
    \E n \in 0..2 : \E entities \in [1..n -> Names] : \E score \in BaseScores :
       Absorb(entities, score)

-----------------------------------------------------------------------------
(* The index of clusters (BlockIndex).                                     *)

\* The first of the nearest centroids.
NearestTo(v, centroids) ==
    CHOOSE j \in DOMAIN centroids :
       /\ \A i \in DOMAIN centroids : Similar(v, centroids[i]) <= Similar(v, centroids[j])
       /\ \A i \in 1..(j - 1) : Similar(v, centroids[i]) < Similar(v, centroids[j])

\* fit: k-means may end with any centroids; without a block that has a vector, the index
\* stays as it was.
Fit(blocks) ==
    LET embeddable == SelectSeq(blocks, LAMBDA b : b[2] # NoEmbedding) IN
    /\ fits < MaxFits /\ fits' = fits + 1
    /\ IF embeddable = <<>> THEN UNCHANGED <<index, indexed>>
       ELSE \E centroids \in [1..Min({ClusterCount, Len(embeddable)}) -> Embeddings] :
               /\ index' = [j \in DOMAIN centroids |->
                              [centroid |-> centroids[j],
                               blocks |-> SelectSeq(embeddable, LAMBDA b :
                                             NearestTo(b[2], centroids) = j)]]
               /\ indexed' = embeddable

\* query: the blocks of the nearest clusters, cut at top_k blocks.
\* Mutant: only the nearest cluster.
RetrievedFirst(order, k) ==
    LET all == index[order[1]].blocks IN SubSeq(all, 1, Min({k, Len(all)}))
Retrieved(order, k) ==
    LET all == FlattenSeq([n \in DOMAIN order |-> index[order[n]].blocks])
    IN SubSeq(all, 1, Min({k, Len(all)}))
TopBlocks(question, k) ==
    Retrieved(Ranking(DOMAIN index, LAMBDA j : Similar(question, index[j].centroid)), k)

FitNext ==
    \E n \in 0..3 : \E vecs \in [1..n -> Embeddings \union {NoEmbedding}] :
       Fit([i \in 1..n |-> <<10 * (fits + 1) + i, vecs[i]>>])

FusionNext ==
    \/ KeepNext /\ UNCHANGED <<chunkVars, indexVars>>
    \/ ChunkNext /\ UNCHANGED <<keepVars, indexVars>>
    \/ FitNext /\ UNCHANGED <<keepVars, chunkVars>>

FusionSpec == FusionInit /\ [][FusionNext]_fusionVars

-----------------------------------------------------------------------------
(* Properties.                                                             *)

FusionTypeOK ==
    /\ \A n \in DOMAIN keeping : keeping[n].score \in Nat /\ keeping[n].batch \in 1..batches
    /\ batches \in 0..MaxKeeps /\ best \in Nat
    /\ ToSet(between.entities) \subseteq Names /\ between.count \in 0..MaxChunks
    /\ \A j \in DOMAIN index : index[j].centroid \in Embeddings

Pool == [score : BaseScores, vec : Embeddings \union {NoEmbedding}]
Questions == Embeddings \union {NoEmbedding}

\* The weighter decides on a block by what came before it alone: the survivors of the
\* first blocks of a pool are the survivors of the pool among them, in the same order.  And
\* without vectors, as the recall calls it, it only cuts off the end of the list by
\* score: no block survives a better one (SelectiveFusionWeighter.apply).
WeighterSound ==
    \A n \in 1..MaxPool : \A blocks \in [1..n -> Pool] :
    \A question \in Questions : \A s \in Weightings :
       LET survivors == Weighed(blocks, question, s) IN
       /\ \A k \in 1..n :
             Weighed(SubSeq(blocks, 1, k), question, s) =
                SelectSeq(survivors, LAMBDA i : i <= k)
       /\ (\A i \in 1..n : blocks[i].vec = NoEmbedding) =>
             \A i \in ToSet(survivors), j \in 1..n :
                blocks[j].score > blocks[i].score =>
                   \E p, q \in DOMAIN survivors :
                      survivors[p] = j /\ survivors[q] = i /\ p < q

\* The gates look at the pool as a set: in whatever order it is given, the same blocks
\* survive.  And a block that is as near to the question and as high as one that survives
\* fails only if it is like no other one (SelectiveFusionGates.apply).
GatesSound ==
    \A n \in 1..MaxPool : \A blocks \in [1..n -> Pool] :
    \A question \in Questions : \A g \in Gatings :
       LET survives(i) == Passes(blocks, i, question, g) IN
       /\ \A i \in 1..n :
             LET mirrored == [k \in 1..n |-> blocks[n + 1 - k]]
                 turned == [k \in 1..n |-> blocks[1 + (k % n)]]
             IN /\ survives(i) = Passes(mirrored, n + 1 - i, question, g)
                /\ survives(i) = Passes(turned, IF i = 1 THEN n ELSE i - 1, question, g)
       /\ \A i, j \in 1..n :
             /\ survives(i) /\ ~survives(j)
             /\ blocks[j].score >= blocks[i].score
             /\ GateB(blocks, j, question) >= GateB(blocks, i, question)
             => ~Coherent(blocks, j, question, g)

Lists == {s \in UNION {[1..n -> 1..3] : n \in 0..3} : IsInjective(s)}
Place(list, d) ==
    IF d \in ToSet(list) THEN CHOOSE r \in DOMAIN list : list[r] = d ELSE Len(list) + 9

\* Three ranked lists are fused into one of all that they name: what more lists name comes
\* first, wherever they place it, and what no list places lower than another comes before
\* it (rrf.fuse).
RanksSound ==
    \A lists \in [1..3 -> Lists] :
       LET fused == FusedRanks(lists)
           named(d) == Cardinality({k \in 1..3 : d \in ToSet(lists[k])})
       IN /\ IsInjective(fused)
          /\ \A p, q \in DOMAIN fused : p < q =>
                /\ named(fused[p]) >= named(fused[q])
                /\ (\A k \in 1..3 :
                       Place(lists[k], fused[q]) <= Place(lists[k], fused[p]))
                     => (\A k \in 1..3 :
                           Place(lists[k], fused[q]) = Place(lists[k], fused[p]))

Scored == [score : BaseScores, likeness : {0, 50}, recency : {50, 90}]

\* The cognitive order never puts a block before one that is at least as good in all and
\* came before it or is better in something (apply_cognitive_scoring).
CognitiveSound ==
    \A n \in 1..MaxPool : \A blocks \in [1..n -> Scored] :
       LET order == CognitiveOrder(blocks) IN
       \A p, q \in 1..n :
          LET first == blocks[order[p]]
              second == blocks[order[q]]
          IN /\ p < q
             /\ second.score >= first.score /\ second.likeness >= first.likeness
             /\ second.recency >= first.recency
             => first = second /\ order[p] < order[q]

\* Whatever batches come, and whatever store is loaded: the best that was ever accepted is
\* still kept; nothing that stays is worse than what was evicted for it; and of two that
\* came in different batches the later is not like the earlier, unless one of
\* them has no vector (MaterialisationPolicy.evaluate).
KeepingSound ==
    /\ Len(keeping) <= KeepCapacity
    /\ best > 0 => \E i \in ToSet(keeping) : i.score = best
    /\ \A e \in ToSet(evicted), i \in ToSet(keeping) : e.score <= i.score
    /\ \A i, j \in ToSet(keeping) :
          i.batch < j.batch /\ NoEmbedding \notin {i.vec, j.vec} =>
             Similar(i.vec, j.vec) <= 100 - NoveltyFloor

\* The bounded state between chunks is as good as an unbounded one: it names the entities
\* that were told last, each once, and bounds the mean of all scores (absorb).
BetweenSound ==
    /\ between.entities = SubSeq(told, 1, Min({EntityCap, Len(told)}))
    /\ between.least * between.count <= between.sum
    /\ between.sum <= between.most * between.count

\* A fitted index answers with as many blocks of its last fit as are asked for and there
\* are, each once, and leaves none out that lies in a nearer cluster; each
\* block is in the cluster that it is nearest to (BlockIndex).
IndexSound ==
    index # Unfitted =>
       \A question \in Embeddings : \A k \in 1..3 :
          LET found == TopBlocks(question, k)
              cluster(b) == CHOOSE j \in DOMAIN index : b \in ToSet(index[j].blocks)
              near(b) == Similar(question, index[cluster(b)].centroid)
          IN /\ Len(found) = Min({k, Len(indexed)}) /\ IsInjective(found)
             /\ \A b \in ToSet(found), o \in ToSet(indexed) \ ToSet(found) :
                   near(o) <= near(b)
             /\ \A b \in ToSet(indexed), j \in DOMAIN index :
                   Similar(b[2], index[j].centroid) <=
                      Similar(b[2], index[cluster(b)].centroid)

FusionKept == KeepingSound /\ BetweenSound /\ IndexSound
FusionComputed == WeighterSound /\ GatesSound /\ RanksSound /\ CognitiveSound
=============================================================================
