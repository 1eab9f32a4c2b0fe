---------------------------- MODULE DocumentIngest ----------------------------
(***************************************************************************)
(* The ingestion of documents (ingest/pipeline.py, ingest/parser.py,       *)
(* ingest/chunking.py) over the index of content hashes                    *)
(* (storage/file_index.py) and the quarantine of documents that are too    *)
(* large (parsers/documents/base.py).                                      *)
(*                                                                         *)
(* A run records the hash of what it read, then reads the file again,      *)
(* cuts it, embeds and stores it.  Files change meanwhile; any step may    *)
(* fail or be the last before the process dies.  Contents are numbers, a   *)
(* document is its length, a chunk the piece it holds.                     *)
(***************************************************************************)
EXTENDS Integers, Sequences, FiniteSets, FiniteSetsExt, SequencesExt

CONSTANTS
    Runs,         \* runs of the pipeline that can be under way, each on its own file
    FileOfRun,    \* the file of each run: runs of one connector do not overlap
    Contents,     \* 1..n: the contents a file may have
    TooLarge,     \* contents beyond the parse budget
    LengthOf,     \* the length of the text of each content
    ChunkLength,  \* chunk_tokens
    Overlap,      \* overlap_tokens
    MaxStarted    \* bound: runs started

ASSUME IngestBounds ==
    /\ IsFiniteSet(Contents) /\ Contents = 1..Cardinality(Contents) /\ 1 \in Contents
    /\ TooLarge \subseteq Contents
    /\ LengthOf \in [Contents -> Nat] /\ DOMAIN FileOfRun = Runs
    /\ ChunkLength \in Nat \ {0} /\ Overlap \in 0..ChunkLength - 1
    /\ MaxStarted \in Nat

IngestFiles == {FileOfRun[r] : r \in Runs}
NoBody == 0
NoRow == -1
NoHashYet == 0

VARIABLES
    body,         \* the content of each file, or none
    hashes,       \* the index: the content whose hash is in the row, no hash, or no row
    ingested,     \* what was stored last of each file: [content, chunks]
    running,      \* where each run is
    purging,      \* the rows that a purge found without a file and is about to delete
    quarantined,  \* documents in the quarantine
    started,      \* runs so far
    fate          \* history: how the last run ended that recorded a hash of the file

ingestVars == <<body, hashes, ingested, running, purging, quarantined, started, fate>>

IdleRun == [pc |-> "idle"]

IngestInit ==
    /\ body \in [IngestFiles -> {NoBody, 1}]
    /\ hashes = [f \in IngestFiles |-> NoRow]
    /\ ingested = [f \in IngestFiles |-> [content |-> 0, chunks |-> <<>>]]
    /\ running = [r \in Runs |-> IdleRun]
    /\ purging = {}
    /\ quarantined = {}
    /\ started = 0
    /\ fate = [f \in IngestFiles |-> "stored"]

-----------------------------------------------------------------------------
(* Chunks.                                                                 *)

\* FixedSizeChunker: pieces of a text of n characters, each a step behind the last, until
\* one reaches the end.
\* Mutant: the loop ends when the next step would pass the end.
PiecesTo(n, last) ==
    [i \in 1..last |->
       LET from == (i - 1) * (ChunkLength - Overlap)
       IN  <<from, Min({from + ChunkLength, n})>>]
ChunksShort(n) == PiecesTo(n, n \div ChunkLength)
Chunks(n) ==
    IF n = 0 THEN <<>>
    ELSE PiecesTo(n, Min({i \in 1..n :
                            (i - 1) * (ChunkLength - Overlap) + ChunkLength >= n}))

\* SentenceBoundaryChunker on sentences of the given lengths: a sentence that is too long
\* is cut, and what is left of it joins the ones that follow.  A chunk is a sequence of
\* <<sentence, from, to>>, joined by blanks.
SizeOf(chunk) == FoldSeq(LAMBDA p, n : n + p[3] - p[2], 0, chunk) + Max({0, Len(chunk) - 1})
Flushed(done, open) == IF open = <<>> THEN done ELSE Append(done, open)
AddSentence(state, s, length) ==
    LET heads == IF length = 0 THEN 0 ELSE (length - 1) \div ChunkLength
        cut == [i \in 1..heads |-> << <<s, (i - 1) * ChunkLength, i * ChunkLength>> >>]
        rest == <<s, heads * ChunkLength, length>>
        done == (IF heads > 0 THEN Flushed(state.done, state.open) ELSE state.done) \o cut
        open == IF heads > 0 THEN <<>> ELSE state.open
        full == open # <<>> /\ SizeOf(open) + 1 + rest[3] - rest[2] + 1 > ChunkLength
    IN  IF length = 0 THEN state
        ELSE IF full THEN [done |-> Flushed(done, open), open |-> <<rest>>]
        ELSE [done |-> done, open |-> Append(open, rest)]
SentenceChunks(lengths) ==
    LET end == FoldLeft(LAMBDA state, s : AddSentence(state, s, lengths[s]),
                        [done |-> <<>>, open |-> <<>>], [s \in DOMAIN lengths |-> s])
    IN  Flushed(end.done, end.open)

-----------------------------------------------------------------------------
(* IngestPipeline.run.                                                     *)

\* The bytes of the hash check.
ReadBytes(r) ==
    LET f == FileOfRun[r] IN
    /\ running[r].pc \in {"idle", "skipped"} /\ started < MaxStarted
    /\ \A q \in Runs \ {r} : FileOfRun[q] = f => running[q].pc \in {"idle", "skipped"}
    /\ body[f] # NoBody
    /\ running' = [running EXCEPT ![r] = [pc |-> "check", data |-> body[f]]]
    /\ started' = started + 1
    /\ UNCHANGED <<body, hashes, ingested, purging, quarantined, fate>>

\* upsert_with_hash: a row without a hash counts as changed.
\* Mutant: a row is a row.
KnownIfRow(f, data) == hashes[f] # NoRow
Known(f, data) == hashes[f] = data
CheckHash(r) ==
    LET f == FileOfRun[r] IN
    /\ running[r].pc = "check"
    /\ IF Known(f, running[r].data)
       THEN /\ running' = [running EXCEPT ![r] =
                 [pc |-> "skipped", data |-> @.data, stored |-> ingested[f].content,
                  fate |-> fate[f]]]
            /\ UNCHANGED hashes
       ELSE /\ running' = [running EXCEPT ![r].pc = "parse"]
            /\ hashes' = [hashes EXCEPT ![f] = running[r].data]
    /\ UNCHANGED <<body, ingested, purging, quarantined, started, fate>>

SpoilRun(r) ==
    /\ running' = [running EXCEPT ![r] = IdleRun]
    /\ fate' = [fate EXCEPT ![FileOfRun[r]] = "failed"]

\* DocumentParser.parse reads the file anew; one that is too large is quarantined.
ParseDocument(r) ==
    LET f == FileOfRun[r] IN
    /\ running[r].pc = "parse"
    /\ IF body[f] = NoBody \/ body[f] \in TooLarge
       THEN SpoilRun(r)
       ELSE /\ running' = [running EXCEPT ![r] =
                 [pc |-> "store", data |-> @.data, content |-> body[f],
                  chunks |-> Chunks(LengthOf[body[f]])]]
            /\ UNCHANGED fate
    /\ quarantined' = IF body[f] \in TooLarge THEN quarantined \union {f} ELSE quarantined
    /\ UNCHANGED <<body, hashes, ingested, purging, started>>

\* The callbacks embed and store.
StoreDocument(r) ==
    /\ running[r].pc = "store"
    /\ ingested' = [ingested EXCEPT ![FileOfRun[r]] =
          [content |-> running[r].content, chunks |-> running[r].chunks]]
    /\ fate' = [fate EXCEPT ![FileOfRun[r]] =
          IF running[r].content = running[r].data THEN "stored" ELSE "swapped"]
    /\ running' = [running EXCEPT ![r] = IdleRun]
    /\ UNCHANGED <<body, hashes, purging, quarantined, started>>

\* A parser or a callback raises, or the process dies.
RunFails(r) ==
    /\ running[r].pc \in {"check", "parse", "store"}
    /\ IF running[r].pc # "check" THEN SpoilRun(r)
       ELSE running' = [running EXCEPT ![r] = IdleRun] /\ UNCHANGED fate
    /\ UNCHANGED <<body, hashes, ingested, purging, quarantined, started>>

-----------------------------------------------------------------------------
(* The files and the other operations on the index and the quarantine.     *)

FileChanges(f) ==
    /\ \E c \in Contents \ {body[f]} : body' = [body EXCEPT ![f] = c]
    /\ UNCHANGED <<hashes, ingested, running, purging, quarantined, started, fate>>

FileRemoved(f) ==
    /\ body[f] # NoBody
    /\ body' = [body EXCEPT ![f] = NoBody]
    /\ UNCHANGED <<hashes, ingested, running, purging, quarantined, started, fate>>

\* update, as it is called without compute_hash: the row loses its hash.
UpdateRow(f) ==
    /\ body[f] # NoBody
    /\ hashes' = [hashes EXCEPT ![f] = NoHashYet]
    /\ UNCHANGED <<body, ingested, running, purging, quarantined, started, fate>>

\* purge_missing looks for the files without the lock, and deletes the rows later.
FindMissing ==
    /\ purging = {}
    /\ purging' = {f \in IngestFiles : hashes[f] # NoRow /\ body[f] = NoBody}
    /\ purging' # {}
    /\ UNCHANGED <<body, hashes, ingested, running, quarantined, started, fate>>
PurgeMissing ==
    /\ purging # {}
    /\ hashes' = [f \in IngestFiles |-> IF f \in purging THEN NoRow ELSE hashes[f]]
    /\ purging' = {}
    /\ UNCHANGED <<body, ingested, running, quarantined, started, fate>>

\* remove of the index, and of the quarantine.
RemoveRow(f) ==
    /\ hashes[f] # NoRow
    /\ hashes' = [hashes EXCEPT ![f] = NoRow]
    /\ UNCHANGED <<body, ingested, running, purging, quarantined, started, fate>>
Release(f) ==
    /\ f \in quarantined
    /\ quarantined' = quarantined \ {f}
    /\ UNCHANGED <<body, hashes, ingested, running, purging, started, fate>>

IngestNext ==
    \/ \E r \in Runs :
          ReadBytes(r) \/ CheckHash(r) \/ ParseDocument(r) \/ StoreDocument(r) \/ RunFails(r)
    \/ \E f \in IngestFiles :
          FileChanges(f) \/ FileRemoved(f) \/ UpdateRow(f) \/ RemoveRow(f) \/ Release(f)
    \/ FindMissing \/ PurgeMissing

IngestSpec == IngestInit /\ [][IngestNext]_ingestVars
-----------------------------------------------------------------------------
IngestTypeOK ==
    /\ body \in [IngestFiles -> Contents \union {NoBody}]
    /\ hashes \in [IngestFiles -> Contents \union {NoRow, NoHashYet}]
    /\ \A r \in Runs : running[r].pc \in {"idle", "check", "parse", "store", "skipped"}
    /\ purging \subseteq IngestFiles /\ quarantined \subseteq IngestFiles
    /\ started \in 0..MaxStarted
    /\ fate \in [IngestFiles -> {"stored", "failed", "swapped"}]

\* A document is skipped as unchanged only if that very content was stored last, or the
\* last run that recorded a hash of it failed afterwards, or found another content when it
\* read the file again to parse it.  (upsert_with_hash, run: a content that comes back after
\* the latter is skipped, though the comment there calls it "identical to the last-ingested
\* version".)
SkipIsJustified ==
    \A r \in Runs : running[r].pc = "skipped" /\ running[r].fate = "stored" =>
       running[r].stored = running[r].data

\* What is stored of a document is all of it, in pieces of at most the chunk length that
\* overlap.  (FixedSizeChunker.)
Covers(pieces, n) ==
    /\ n > 0 => pieces # <<>> /\ pieces[1][1] = 0 /\ Last(pieces)[2] = n
    /\ \A i \in DOMAIN pieces : pieces[i][1] < pieces[i][2] /\ pieces[i][2] - pieces[i][1] <= ChunkLength
    /\ \A i \in 1..Len(pieces) - 1 : pieces[i][2] - pieces[i + 1][1] = Overlap
StoredWhole ==
    \A f \in IngestFiles : ingested[f].content # 0 =>
       Covers(ingested[f].chunks, LengthOf[ingested[f].content])

\* Of any few sentences nothing is lost, repeated or moved, and no chunk is longer than
\* it may be.  (SentenceBoundaryChunker.)
SentencesKept ==
    \A n \in 0..3 : \A lengths \in [1..n -> 0..2 * ChunkLength + 1] :
       LET chunks == SentenceChunks(lengths)
           pieces == FlattenSeq(chunks)
       IN  /\ \A i \in DOMAIN chunks : SizeOf(chunks[i]) <= ChunkLength
           /\ \A i \in 1..Len(pieces) - 1 :
                 IF pieces[i][1] = pieces[i + 1][1] THEN pieces[i][3] = pieces[i + 1][2]
                 ELSE pieces[i][1] < pieces[i + 1][1] /\ pieces[i + 1][2] = 0
           /\ FoldSeq(LAMBDA p, k : k + p[3] - p[2], 0, pieces)
                 = FoldSeq(LAMBDA l, k : k + l, 0, lengths)

IngestSound == SkipIsJustified /\ StoredWhole
=============================================================================
