-------------------------------- MODULE Recall --------------------------------
(***************************************************************************)
(* Recall (mcp/tools/_shared.py, _tool_recall_impl): load the files, filter *)
(* them, register what is left for feedback, then rank it through optional *)
(* phases, each of which may fail and be passed over, and answer at most   *)
(* top_k chunks.  Scores are left out: wherever an order decides what is   *)
(* kept, any order may be the one.                                         *)
(***************************************************************************)
EXTENDS Naturals, FiniteSets

CONSTANTS
    Notes,      \* files that recall loads: sessions, discoveries, memories, rules
    About,      \* of a file: stem, project, room, ambient, sections
    Queries,    \* arguments: project, cross, mentions, room, ambient, mode, blank, topK
    Vectors,    \* ids in the vector index: context items, or a stem
    Untold      \* no project, no room

ASSUME RecallAssumption ==
    /\ IsFiniteSet(Notes) /\ IsFiniteSet(Vectors)
    /\ DOMAIN About = Notes
    /\ \A n \in Notes : About[n].sections \in Nat \ {0} /\ About[n].ambient \in BOOLEAN
    /\ \A r \in Queries :
          /\ r.topK \in Nat \ {0} /\ r.mode \in {"full", "index", "timeline"}
          /\ {r.cross, r.ambient, r.blank} \subseteq BOOLEAN

VARIABLES
    stage,        \* how far the call is
    request,
    scanned,      \* raw_blocks, after the filters
    registered,   \* chunk ids under the call's recall_id
    matched,      \* stems with a chunk that scores above zero
    pool,         \* the candidates, at most one chunk of a stem
    gated,        \* the gates have rejected a candidate and kept another
    answer        \* what is returned: chunks, and ids that only the vector index knows

recallVars == <<stage, request, scanned, registered, matched, pool, gated, answer>>

\* _split_into_blocks: one chunk for a section, with the tags of its file.
Sections(n) == {[note |-> n, at |-> i] : i \in 1..About[n].sections}
Stem(b) == About[b.note].stem
ChunkId(b) == <<Stem(b), b.at>>
Stems(blocks) == {Stem(b) : b \in blocks}
AllBlocks == UNION {Sections(n) : n \in Notes}
ChunkIds == {ChunkId(b) : b \in AllBlocks}

Lesser(m, n) == IF m < n THEN m ELSE n
\* The first k of a set, in an order that is left open.
Cuts(S, k) == {T \in SUBSET S : Cardinality(T) = Lesser(k, Cardinality(S))}
\* One chunk of each stem.
OnePerStem(S) ==
    {T \in SUBSET S : Stems(T) = Stems(S) /\ Cardinality(T) = Cardinality(Stems(T))}

RecallInit ==
    /\ stage = "idle"
    /\ request \in Queries
    /\ scanned = {} /\ registered = {} /\ matched = {} /\ pool = {}
    /\ gated = FALSE
    /\ answer = {}

(***************************************************************************)
(* The filters: ambient traces, then the project with those the query      *)
(* names, then the active room.                                            *)
(***************************************************************************)
NotAmbient(blocks, r) ==
    IF r.ambient THEN blocks ELSE {b \in blocks : ~About[b.note].ambient}

\* Mutant: a query that names another project searches all of them.
OfProjectUnlessNamed(blocks, r) ==
    IF r.mentions # {} THEN blocks
    ELSE {b \in blocks : About[b.note].project \in {Untold, r.project}}
OfProject(blocks, r) ==
    {b \in blocks : About[b.note].project \in {Untold, r.project} \union r.mentions}

InRoom(blocks, r) ==
    IF r.room = Untold THEN blocks
    ELSE {b \in blocks : About[b.note].room \in {Untold, r.room}}

Filtered(blocks, r) ==
    IF r.cross \/ r.project = Untold THEN NotAmbient(blocks, r)
    ELSE InRoom(OfProject(NotAmbient(blocks, r), r), r)

\* A call: a file that cannot be read is left out.  The modes without scores answer at once.
StartRecall(r, readable) ==
    LET blocks == Filtered(UNION {Sections(n) : n \in readable}, r)
    IN  /\ stage \in {"idle", "answered"}
        /\ request' = r
        /\ scanned' = blocks
        /\ registered' = {ChunkId(b) : b \in blocks}
        /\ matched' = {} /\ pool' = {} /\ gated' = FALSE
        /\ IF blocks # {} /\ r.mode = "full" /\ ~r.blank
           THEN stage' = "scanned" /\ answer' = {}
           ELSE /\ stage' = "answered"
                /\ IF r.mode = "index"
                   THEN \E T \in OnePerStem(blocks) : \E kept \in Cuts(T, r.topK) :
                           answer' = {ChunkId(b) : b \in kept}
                   ELSE \E kept \in Cuts(blocks, r.topK) :
                           answer' = {ChunkId(b) : b \in kept}

\* BM25: the best chunk of each stem that scores above zero.
Score ==
    /\ stage = "scanned"
    /\ \E hits \in SUBSET scanned :
          /\ matched' = Stems(hits)
          /\ pool' \in OnePerStem(hits)
    /\ stage' = "scored"
    /\ UNCHANGED <<request, scanned, registered, gated, answer>>

(***************************************************************************)
(* Vector search over the candidates, where it is on and does not fail:    *)
(* some of them, nearest first, fused with the BM25 order (rrf_fuse,       *)
(* linear_blend): every candidate of either stays.                         *)
(***************************************************************************)
Fused(bm25, near) == IF near = {} THEN bm25 ELSE bm25 \union near

Blend ==
    /\ stage = "scored"
    /\ \E near \in SUBSET pool : pool' = Fused(pool, near)
    /\ stage' = "blended"
    /\ UNCHANGED <<request, scanned, registered, matched, gated, answer>>

\* apply_fusion_gates: if none passes, the candidates are as they were.
Gate ==
    /\ stage = "blended"
    /\ \E survivors \in SUBSET pool :
          /\ pool' = IF survivors = {} THEN pool ELSE survivors
          /\ gated' = (survivors \notin {{}, pool})
    /\ stage' = "gated"
    /\ UNCHANGED <<request, scanned, registered, matched, answer>>

\* Mutant: what the reranker does not name is dropped.
FilledNot(chosen, blocks, k) == IF chosen = {} THEN Cuts(blocks, k) ELSE {chosen}
\* The reranker names up to top_k candidates; others fill what it leaves free.
Filled(chosen, blocks, k) ==
    {chosen \union rest : rest \in Cuts(blocks \ chosen, k - Cardinality(chosen))}

Rerank ==
    /\ stage = "gated"
    /\ \E chosen \in {T \in SUBSET pool : Cardinality(T) <= request.topK} :
          pool' \in Filled(chosen, pool, request.topK)
    /\ stage' = "ranked"
    /\ UNCHANGED <<request, scanned, registered, matched, gated, answer>>

(***************************************************************************)
(* The vector index, where it is ready: its hits move the chunks they name *)
(* and add what the chunks do not have, before top_k are kept again.       *)
(***************************************************************************)
WithHits(blocks, hits) ==
    {ChunkId(b) : b \in blocks} \union {<<v, 0>> : v \in hits \ Stems(blocks)}

AnswerRecall ==
    /\ stage = "ranked"
    /\ \E hits \in SUBSET Vectors : answer' \in Cuts(WithHits(pool, hits), request.topK)
    /\ stage' = "answered"
    /\ UNCHANGED <<request, scanned, registered, matched, pool, gated>>

RecallNext ==
    \/ \E r \in Queries, readable \in SUBSET Notes : StartRecall(r, readable)
    \/ Score \/ Blend \/ Gate \/ Rerank \/ AnswerRecall

RecallSpec == RecallInit /\ [][RecallNext]_recallVars

-----------------------------------------------------------------------------
RecallTypeOK ==
    /\ stage \in {"idle", "scanned", "scored", "blended", "gated", "ranked", "answered"}
    /\ request \in Queries
    /\ scanned \subseteq AllBlocks /\ pool \subseteq AllBlocks
    /\ registered \subseteq ChunkIds
    /\ matched \subseteq Stems(AllBlocks)
    /\ gated \in BOOLEAN
    /\ answer \subseteq ChunkIds \union (Vectors \X {0})

Answered(mode) == stage = "answered" /\ request.mode = mode

\* A chunk that is answered from a file comes from a file the caller's scope lets through,
\* can be given feedback under the call's id, and is the only one of its stem unless the
\* caller asked for a timeline or gave no query.
\* (The filters, register_recall, and every phase after them.)
InScopeAndKnown ==
    stage = "answered" =>
       \A c \in answer \intersect ChunkIds :
          /\ c \in registered
          /\ \E b \in scanned :
                /\ ChunkId(b) = c
                /\ About[b.note].ambient => request.ambient
                /\ \/ request.cross \/ request.project = Untold
                   \/ /\ About[b.note].project \in {Untold, request.project} \union request.mentions
                      /\ request.room = Untold \/ About[b.note].room \in {Untold, request.room}
          /\ (request.mode = "index" \/ (request.mode = "full" /\ ~request.blank)) =>
                \A d \in answer : d[1] = c[1] => d = c

\* The optional phases only order: unless the gates kept some candidates and rejected
\* others, a call answers as many chunks as it may, and never none where some matched.
\* (The fallbacks of apply_vector_search, apply_fusion_gates and rerank.)
AnswerIsFull ==
    (Answered("full") /\ ~request.blank /\ matched # {}) =>
       /\ Cardinality(answer) \in 1..request.topK
       /\ ~gated => Cardinality(answer) >= Lesser(request.topK, Cardinality(matched))

\* What a call answers is in scope, can be given feedback, and is as much as there is,
\* whichever of the phases failed.  (_tool_recall_impl.)
AnswerSound == InScopeAndKnown /\ AnswerIsFull

\* "mint recall_id after filtering so chunk_ids match the caller-visible set": what the
\* caller sees, feedback can name.
VisibleIsRegistered == stage = "answered" => answer \subseteq registered
=============================================================================
