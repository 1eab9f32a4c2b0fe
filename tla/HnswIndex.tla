------------------------------ MODULE HnswIndex ------------------------------
(***************************************************************************)
(* The vector index (retrieval/hnsw_store.py): a map of discovery ids to   *)
(* labels and an hnswlib index of label -> vector, kept in memory by one   *)
(* process, saved to two files one after the other.  Upserts and saves     *)
(* hold a lock; the process may die between the two files.                 *)
(***************************************************************************)
EXTENDS Naturals, FiniteSetsExt

CONSTANTS
    Discoveries,   \* discovery ids; the vector of one is written as its id
    NoVector,      \* a label with no vector
    MaxLabel,      \* bound: labels handed out
    MaxDeaths      \* bound: deaths of the process

ASSUME NoVectorAssumption == NoVector \notin Discoveries
ASSUME IndexBounds == MaxLabel \in Nat \ {0} /\ MaxDeaths \in Nat

VARIABLES
    up,            \* the process runs, with its index loaded
    labelMap,      \* _label_map; 0 where an id has no label
    vectors,       \* what hnswlib holds under each label
    nextLabel,
    indexFile,     \* the vectors in hnsw.bin
    labelsFile,    \* the map in hnsw.bin.labels.json
    filesThere,    \* which of the two files exist
    saving,        \* the save between its two replaces
    notAdded,      \* ids of which an add_items has ever failed
    deaths

hnswVars == <<up, labelMap, vectors, nextLabel, indexFile, labelsFile, filesThere,
              saving, notAdded, deaths>>

Labels == 1..MaxLabel
NoLabels == [d \in Discoveries |-> 0]
NoVectors == [l \in Labels |-> NoVector]

HnswInit ==
    /\ up = FALSE
    /\ labelMap = NoLabels /\ vectors = NoVectors /\ nextLabel = 1
    /\ indexFile = NoVectors /\ labelsFile = NoLabels /\ filesThere = {}
    /\ saving = FALSE
    /\ notAdded = {}
    /\ deaths = 0

\* _init_index: both files, or a fresh index.
LoadIndex ==
    /\ ~up
    /\ up' = TRUE
    /\ LET both == filesThere = {"index", "labels"} IN
          /\ labelMap' = IF both THEN labelsFile ELSE NoLabels
          /\ vectors' = IF both THEN indexFile ELSE NoVectors
          /\ nextLabel' = 1 + Max({0} \union {labelMap'[d] : d \in Discoveries})
    /\ UNCHANGED <<indexFile, labelsFile, filesThere, saving, notAdded, deaths>>

\* The label of an id, which it gets at its first upsert and keeps.
GiveLabel(d) ==
    IF labelMap[d] # 0 THEN UNCHANGED <<labelMap, nextLabel>>
    ELSE /\ nextLabel <= MaxLabel
         /\ labelMap' = [labelMap EXCEPT ![d] = nextLabel]
         /\ nextLabel' = nextLabel + 1

UpsertVector(d) ==
    /\ up /\ ~saving
    /\ GiveLabel(d)
    /\ vectors' = [vectors EXCEPT ![labelMap'[d]] = d]
    /\ UNCHANGED <<up, indexFile, labelsFile, filesThere, saving, notAdded, deaths>>

\* resize_index or add_items raises: the label stays given.
UpsertFails(d) ==
    /\ up /\ ~saving
    /\ GiveLabel(d)
    /\ notAdded' = notAdded \union {d}
    /\ UNCHANGED <<up, vectors, indexFile, labelsFile, filesThere, saving, deaths>>

(***************************************************************************)
(* save, after every so many upserts and when the server stops.            *)
(***************************************************************************)
SaveIndex ==
    /\ up /\ ~saving
    /\ indexFile' = vectors
    /\ filesThere' = filesThere \union {"index"}
    /\ saving' = TRUE
    /\ UNCHANGED <<up, labelMap, vectors, nextLabel, labelsFile, notAdded, deaths>>

\* Mutant: the labels are written before the index.
SaveLabelsFirst ==
    /\ up /\ ~saving
    /\ labelsFile' = labelMap
    /\ filesThere' = filesThere \union {"labels"}
    /\ saving' = TRUE
    /\ UNCHANGED <<up, labelMap, vectors, nextLabel, indexFile, notAdded, deaths>>

SaveLabels ==
    /\ saving
    /\ labelsFile' = labelMap
    /\ filesThere' = filesThere \union {"labels"}
    /\ saving' = FALSE
    /\ UNCHANGED <<up, labelMap, vectors, nextLabel, indexFile, notAdded, deaths>>

SaveIndexLast ==
    /\ saving
    /\ indexFile' = vectors
    /\ filesThere' = filesThere \union {"index"}
    /\ saving' = FALSE
    /\ UNCHANGED <<up, labelMap, vectors, nextLabel, labelsFile, notAdded, deaths>>

\* A failure to write the labels is logged and passed over.
SaveLabelsFails ==
    /\ saving
    /\ saving' = FALSE
    /\ UNCHANGED <<up, labelMap, vectors, nextLabel, indexFile, labelsFile, filesThere,
                   notAdded, deaths>>

\* The process ends, after a last save or without one.
ServerDies ==
    /\ up
    /\ deaths < MaxDeaths
    /\ deaths' = deaths + 1
    /\ up' = FALSE /\ saving' = FALSE
    /\ UNCHANGED <<labelMap, vectors, nextLabel, indexFile, labelsFile, filesThere, notAdded>>

\* Mutant: a save that is SaveLabelsFirst, then SaveIndexLast.
HnswNextLabelsFirst ==
    \/ LoadIndex \/ SaveLabelsFirst \/ SaveIndexLast \/ SaveLabelsFails \/ ServerDies
    \/ \E d \in Discoveries : UpsertVector(d) \/ UpsertFails(d)
HnswNext ==
    \/ LoadIndex \/ SaveIndex \/ SaveLabels \/ SaveLabelsFails \/ ServerDies
    \/ \E d \in Discoveries : UpsertVector(d) \/ UpsertFails(d)

HnswSpec == HnswInit /\ [][HnswNext]_hnswVars

-----------------------------------------------------------------------------
HnswTypeOK ==
    /\ up \in BOOLEAN /\ saving \in BOOLEAN
    /\ labelMap \in [Discoveries -> 0..MaxLabel]
    /\ labelsFile \in [Discoveries -> 0..MaxLabel]
    /\ vectors \in [Labels -> Discoveries \union {NoVector}]
    /\ indexFile \in [Labels -> Discoveries \union {NoVector}]
    /\ nextLabel \in 1..(MaxLabel + 1)
    /\ filesThere \subseteq {"index", "labels"}
    /\ notAdded \subseteq Discoveries
    /\ deaths \in 0..MaxDeaths

\* A search never shows one discovery for another's vector: the label of an id whose adds
\* succeeded has the vector of that id, also after a death between the two files and
\* after labels that were lost with it have been handed out again.
\* (The order of the replaces in HNSWStore.save, _next_label in _init_index.)
LabelsMatch ==
    up => \A d \in Discoveries \ notAdded : labelMap[d] # 0 => vectors[labelMap[d]] = d
=============================================================================
