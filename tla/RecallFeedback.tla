--------------------------- MODULE RecallFeedback ---------------------------
(***************************************************************************)
(* Recall feedback (core/feedback.py, RecallStore): a recall registers the *)
(* chunks it returned; a feedback call moves the salience of their         *)
(* discovery files and remembers the chunks for which it did.  Threads of  *)
(* one server process call it, clients repeat calls, files come and go.    *)
(***************************************************************************)
EXTENDS Integers, FiniteSets

CONSTANTS
    Threads,      \* threads that handle recalls and feedback
    Recalls,      \* recall ids, minted once each
    Chunks,       \* chunk ids
    FileOf,       \* the discovery file of a chunk
    MaxFeedback,  \* bound: feedback calls
    Nobody        \* no thread

ChunkFiles == {FileOf[c] : c \in Chunks}

ASSUME FileOfAssumption == DOMAIN FileOf = Chunks
ASSUME FeedbackAssumption == MaxFeedback \in Nat /\ Nobody \notin Threads

VARIABLES
    entries,    \* recall id -> its chunks and those applied, or not there
    mutex,      \* who holds RecallStore._lock
    feedback,   \* the call each thread is executing
    there,      \* discovery files that are live
    moves,      \* how many calls have moved a file's salience for a chunk of a recall
    minted, feedbacks

feedbackVars == <<entries, mutex, feedback, there, moves, minted, feedbacks>>

RecallEntry == [fresh: BOOLEAN, chunks: SUBSET Chunks, applied: SUBSET Chunks]
Unknown == [fresh |-> FALSE, chunks |-> {}, applied |-> {}]
FeedbackCall == [pc: {"idle"}] \union
                [pc: {"wait", "apply"}, recall: Recalls, given: SUBSET Chunks,
                 todo: SUBSET ChunkFiles, taken: SUBSET Chunks]
NoFeedback == [pc |-> "idle"]

FeedbackInit ==
    /\ entries = [r \in Recalls |-> Unknown]
    /\ mutex = Nobody
    /\ feedback = [t \in Threads |-> NoFeedback]
    /\ there = ChunkFiles
    /\ moves = [r \in Recalls |-> [c \in Chunks |-> 0]]
    /\ minted = {}
    /\ feedbacks = 0

\* register_recall mints an id; entries past their TTL are swept.
RegisterRecall(r, chunks) ==
    /\ r \notin minted
    /\ mutex = Nobody
    /\ minted' = minted \union {r}
    /\ entries' = [q \in Recalls |->
          IF q = r THEN [fresh |-> TRUE, chunks |-> chunks, applied |-> {}]
          ELSE IF entries[q].fresh THEN entries[q] ELSE Unknown]
    /\ UNCHANGED <<mutex, feedback, there, moves, feedbacks>>

\* 24 hours pass for an entry.
Expire(r) ==
    /\ entries[r].fresh
    /\ entries' = [entries EXCEPT ![r].fresh = FALSE]
    /\ UNCHANGED <<mutex, feedback, there, moves, minted, feedbacks>>

(***************************************************************************)
(* apply_feedback.  used and ignored are one set here, of the chunks that  *)
(* either names: how far a call moves the salience of a file is left out,  *)
(* and so is that a chunk which one call names twice counts twice in it.   *)
(***************************************************************************)
GiveFeedback(t, r, given) ==
    /\ feedback[t].pc = "idle"
    /\ r \in minted
    /\ feedbacks < MaxFeedback
    /\ feedbacks' = feedbacks + 1
    /\ feedback' = [feedback EXCEPT ![t] =
          [pc |-> "wait", recall |-> r, given |-> given, todo |-> {}, taken |-> {}]]
    /\ UNCHANGED <<entries, mutex, there, moves, minted>>

\* Chunks that are registered, not yet applied, and whose file is live (_bucket_chunk).
\* Mutant: a chunk is taken whatever was applied before.
TakesAgain(t) ==
    {c \in feedback[t].given :
       c \in entries[feedback[t].recall].chunks /\ FileOf[c] \in there}
Takes(t) ==
    {c \in feedback[t].given :
       /\ c \notin entries[feedback[t].recall].applied
       /\ c \in entries[feedback[t].recall].chunks
       /\ FileOf[c] \in there}

\* An entry past its TTL is dropped, and an unknown one ignored.
TakeFeedback(t) ==
    /\ feedback[t].pc = "wait"
    /\ mutex = Nobody
    /\ LET r == feedback[t].recall
           taken == IF entries[r].fresh THEN Takes(t) ELSE {}
       IN  /\ feedback' = [feedback EXCEPT ![t] =
                 [@ EXCEPT !.pc = "apply", !.todo = {FileOf[c] : c \in taken}, !.taken = taken]]
           /\ entries' = [entries EXCEPT ![r] = IF entries[r].fresh THEN @ ELSE Unknown]
    /\ mutex' = t
    /\ UNCHANGED <<there, moves, minted, feedbacks>>

ChunksOf(t, f) == {c \in feedback[t].taken : FileOf[c] = f}

\* One rewrite for all chunks of a file, and only then are they marked.
MoveFile(t, f) ==
    /\ feedback[t].pc = "apply" /\ f \in feedback[t].todo
    /\ f \in there
    /\ moves' = [moves EXCEPT ![feedback[t].recall] =
          [c \in Chunks |-> IF c \in ChunksOf(t, f) THEN @[c] + 1 ELSE @[c]]]
    /\ entries' = [entries EXCEPT ![feedback[t].recall].applied = @ \union ChunksOf(t, f)]
    /\ feedback' = [feedback EXCEPT ![t].todo = @ \ {f}]
    /\ UNCHANGED <<mutex, there, minted, feedbacks>>

\* The file was archived since it was looked up, or its lock or write fails.
MoveFails(t, f) ==
    /\ feedback[t].pc = "apply" /\ f \in feedback[t].todo
    /\ feedback' = [feedback EXCEPT ![t].todo = @ \ {f}]
    /\ UNCHANGED <<entries, mutex, there, moves, minted, feedbacks>>

FeedbackDone(t) ==
    /\ feedback[t].pc = "apply" /\ feedback[t].todo = {}
    /\ mutex' = Nobody
    /\ feedback' = [feedback EXCEPT ![t] = NoFeedback]
    /\ UNCHANGED <<entries, there, moves, minted, feedbacks>>

\* Decay, dedup or prune take a file away, or a user brings it back.
FileComesOrGoes(f) ==
    /\ there' = IF f \in there THEN there \ {f} ELSE there \union {f}
    /\ UNCHANGED <<entries, mutex, feedback, moves, minted, feedbacks>>

FeedbackNext ==
    \/ \E r \in Recalls : Expire(r) \/ \E chunks \in SUBSET Chunks : RegisterRecall(r, chunks)
    \/ \E t \in Threads :
          \/ \E r \in Recalls, given \in SUBSET Chunks : GiveFeedback(t, r, given)
          \/ TakeFeedback(t)
          \/ \E f \in ChunkFiles : MoveFile(t, f) \/ MoveFails(t, f)
          \/ FeedbackDone(t)
    \/ \E f \in ChunkFiles : FileComesOrGoes(f)

FeedbackSpec == FeedbackInit /\ [][FeedbackNext]_feedbackVars

-----------------------------------------------------------------------------
FeedbackTypeOK ==
    /\ entries \in [Recalls -> RecallEntry]
    /\ mutex \in Threads \union {Nobody}
    /\ feedback \in [Threads -> FeedbackCall]
    /\ there \subseteq ChunkFiles
    /\ moves \in [Recalls -> [Chunks -> Nat]]
    /\ minted \subseteq Recalls
    /\ feedbacks \in 0..MaxFeedback

\* While a recall is known, the chunks it counts as applied are exactly those for which
\* one call, and only one, has moved their file: a repeated or a concurrent call moves
\* nothing again, and a chunk whose file failed is open to the next call.
\* (apply_feedback: the snapshot under the lock, applied.add after the rewrite.)
MovedOnce ==
    \A r \in Recalls, c \in Chunks :
       /\ moves[r][c] <= 1
       /\ entries[r].fresh => (c \in entries[r].applied <=> moves[r][c] = 1)
=============================================================================
