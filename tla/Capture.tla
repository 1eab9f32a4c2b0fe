------------------------------- MODULE Capture -------------------------------
(***************************************************************************)
(* How sessions become discoveries (capture/auto_learn.py, compressor.py,  *)
(* decision_extractor.py, negative_extractor.py) and discoveries a persona *)
(* (cognitive/persona.py, distillation_client.py).                         *)
(*                                                                         *)
(* A session is a transcript that grows.  It is summarised once, into a    *)
(* file of its own; auto_learn then extracts entries from the summary into *)
(* one file for each project, day and kind, compress_session does not.     *)
(* Each write is preceded by a look whether the file exists, and a model   *)
(* works for long between the two.  (The extractors are switched on.)      *)
(***************************************************************************)
EXTENDS Integers, Sequences, FiniteSets, SequencesExt, FiniteSetsExt

CONSTANTS
    Learners,     \* calls of auto_learn and compress_session
    Transcripts,  \* the .tmp files
    Kinds,        \* the kinds of entries, in the order of their extraction
    MaxSessions,  \* max_files
    LastDate,     \* bound: days
    MaxSaid,      \* bound: what is said in a session
    MaxLearned,   \* bound: calls that learn
    MaxCut,       \* bound: kills
    EveryN,       \* persona_trigger_every_n
    Tasks,        \* completions for the persona that run at once
    MaxBatches    \* bound: calls that may trigger

ASSUME CaptureBounds ==
    /\ {MaxSessions, LastDate, MaxSaid, MaxLearned, MaxCut, MaxBatches} \subseteq Nat
    /\ EveryN \in Nat \ {0}

VARIABLES
    thisDay,
    said,       \* transcript -> what it has
    lately,     \* transcripts, the last changed first
    digest,     \* transcript -> what its -autocapture.md has, or NoDigest
    daily,      \* <<thisDay, kind>> -> the session of the file, or NoSession
    learner,    \* where each learner is
    learned, cuts,
    fate,       \* history: <<transcript, kind>> -> what became of its entries
    raced,      \* history: files that two learners wrote at once
    bucket,     \* _last_trigger_count
    fired,      \* history: generations triggered
    persona,    \* what the persona file has
    resolved,   \* the backend that was found, or "none"
    localUp,    \* the local model answers
    task,       \* where each completion is
    batches, used, alone

captureVars == <<thisDay, said, lately, digest, daily, learner, learned, cuts, fate, raced>>
personaVars == <<bucket, fired, persona, resolved, localUp, task, batches, used, alone>>

NoDigest == -1
NoFate == [what |-> "none"]
NoSession == "none"
NoFile == <<>>
Resting == [pc |-> "idle", auto |-> FALSE, queue |-> <<>>, chosen |-> {}, silent |-> {},
            of |-> NoSession, upto |-> 0, kinds |-> <<>>, file |-> NoFile]
Unasked == [pc |-> "idle"]
Files == (0..LastDate) \X ToSet(Kinds)

CaptureInit ==
    /\ thisDay = 0 /\ said = [t \in Transcripts |-> 0]
    /\ lately \in {q \in [1..Cardinality(Transcripts) -> Transcripts] : IsInjective(q)}
    /\ digest = [t \in Transcripts |-> NoDigest] /\ daily = [f \in Files |-> NoSession]
    /\ learner = [l \in Learners |-> Resting] /\ learned = 0 /\ cuts = 0
    /\ fate = [e \in Transcripts \X ToSet(Kinds) |-> NoFate] /\ raced = {}

PersonaInit ==
    /\ bucket = 0 /\ fired = 0 /\ persona = "none" /\ resolved = "none" /\ localUp = TRUE
    /\ task = [k \in Tasks |-> Unasked] /\ batches = 0 /\ used = {} /\ alone = TRUE

-----------------------------------------------------------------------------
(* Sessions and learners.                                                  *)

Say(t) ==
    /\ said[t] < MaxSaid /\ said' = [said EXCEPT ![t] = @ + 1]
    /\ lately' = <<t>> \o SelectSeq(lately, LAMBDA u : u # t)
    /\ UNCHANGED <<thisDay, digest, daily, learner, learned, cuts, fate, raced>>

Midnight ==
    /\ thisDay < LastDate /\ thisDay' = thisDay + 1
    /\ UNCHANGED <<said, lately, digest, daily, learner, learned, cuts, fate, raced>>

Steps(l, next) ==
    /\ learner' = [learner EXCEPT ![l] = next]
    /\ UNCHANGED <<thisDay, said, lately, learned>>

\* auto_learn takes the sessions that changed last; compress_session is given one.
Learn(l, queue, auto) ==
    /\ learner[l].pc \in {"idle", "ended"} /\ learned < MaxLearned /\ learned' = learned + 1
    /\ learner' = [learner EXCEPT ![l] =
          [Resting EXCEPT !.pc = "look", !.auto = auto, !.queue = queue,
                          !.chosen = ToSet(queue)]]
    /\ UNCHANGED <<thisDay, said, lately, digest, daily, cuts, fate, raced>>

AutoLearn(l) ==
    Learn(l, SubSeq(lately, 1, Min({MaxSessions, Len(lately)})), TRUE)
CompressSession(l, t) == Learn(l, <<t>>, FALSE)

\* The run goes on with the next session.  Mutant: it ends.
StopsAtSkip(w) == [w EXCEPT !.queue = <<>>]
OnAfterSkip(w) == [w EXCEPT !.queue = Tail(w.queue)]

\* There is something to summarise.  Mutant: an empty summary is written.
SpeaksAlways(t) == TRUE
Speaks(t) == said[t] > 0

\* compress: the file exists; or the session is read, and there is something in it or not.
\* (The model may answer with nothing.  When it fails the heuristics take over.)
Compress(l) ==
    LET w == learner[l]
        t == Head(w.queue)
    IN  /\ w.pc = "look" /\ w.queue # <<>>
        /\ \/ digest[t] # NoDigest /\ Steps(l, OnAfterSkip(w))
           \/ digest[t] = NoDigest
              /\ Steps(l, [OnAfterSkip(w) EXCEPT !.silent = @ \union {t}])
           \/ /\ digest[t] = NoDigest /\ Speaks(t)
              /\ Steps(l, [w EXCEPT !.pc = "write", !.queue = Tail(@), !.of = t,
                                    !.upto = said[t]])
        /\ UNCHANGED <<digest, daily, cuts, fate, raced>>

\* What is after a session: the next one.
NextSession(w) == [w EXCEPT !.pc = "look", !.of = NoSession, !.upto = 0, !.kinds = <<>>,
                            !.file = NoFile]

\* Of a summary that compress_session makes nothing is extracted.
WriteDigest(l) ==
    LET w == learner[l] IN
    /\ w.pc = "write"
    /\ digest' = [digest EXCEPT ![w.of] = w.upto]
    /\ Steps(l, IF w.auto THEN [w EXCEPT !.pc = "extract", !.kinds = Kinds]
                ELSE NextSession(w))
    /\ fate' = [e \in DOMAIN fate |->
                  IF ~w.auto /\ e[1] = w.of /\ fate[e] = NoFate
                  THEN [what |-> "left"] ELSE fate[e]]
    /\ UNCHANGED <<daily, cuts, raced>>

\* What is after one kind of entries: the other kind, or the next session.
NextKind(w) ==
    IF Len(w.kinds) > 1 THEN [w EXCEPT !.pc = "extract", !.kinds = Tail(@), !.file = NoFile]
    ELSE NextSession(w)

\* The file of today is there.  Mutants: that of yesterday counts; nobody looks.
ThereEver(k) == \E f \in Files : f[2] = k /\ daily[f] # NoSession
NeverThere(k) == FALSE
There(k) == daily[<<thisDay, k>>] # NoSession

Fated(t, k, what) == fate' = [fate EXCEPT ![<<t, k>>] = [what |-> what, on |-> thisDay]]

\* extract_and_write, up to the look: nothing is found (or it fails), or the file is there,
\* or it is not.  The date is today's, not that of the session.
Extract(l) ==
    LET w == learner[l]
        k == Head(w.kinds)
    IN  /\ w.pc = "extract"
        /\ \/ Fated(w.of, k, "empty") /\ Steps(l, NextKind(w)) /\ UNCHANGED raced
           \/ /\ There(k) /\ Fated(w.of, k, "dropped")
              /\ Steps(l, NextKind(w)) /\ UNCHANGED raced
           \/ /\ ~There(k) /\ UNCHANGED fate
              /\ raced' = raced \union
                    {f \in {<<thisDay, k>>} : \E m \in Learners :
                        learner[m].pc = "put" /\ learner[m].file = f}
              /\ Steps(l, [w EXCEPT !.pc = "put", !.file = <<thisDay, k>>])
        /\ UNCHANGED <<digest, daily, cuts>>

Put(l) ==
    LET w == learner[l] IN
    /\ w.pc = "put"
    /\ daily' = [daily EXCEPT ![w.file] = w.of]
    /\ fate' = [fate EXCEPT ![<<w.of, w.file[2]>>] = [what |-> "stored", on |-> w.file[1]]]
    /\ Steps(l, NextKind(w))
    /\ UNCHANGED <<digest, cuts, raced>>

EndLearning(l) ==
    /\ learner[l].pc = "look" /\ learner[l].queue = <<>>
    /\ Steps(l, [learner[l] EXCEPT !.pc = "ended"])
    /\ UNCHANGED <<digest, daily, cuts, fate, raced>>

\* Killed: what a learner was extracting is cut off.
LearnerKilled(l) ==
    LET w == learner[l] IN
    /\ w.pc \notin {"idle", "ended"} /\ cuts < MaxCut /\ cuts' = cuts + 1
    /\ fate' = [e \in DOMAIN fate |->
                  IF e[1] = w.of /\ e[2] \in ToSet(w.kinds)
                  THEN [what |-> "cut", on |-> thisDay] ELSE fate[e]]
    /\ Steps(l, Resting)
    /\ UNCHANGED <<digest, daily, raced>>

CaptureNext ==
    \/ \E t \in Transcripts : Say(t)
    \/ Midnight
    \/ \E l \in Learners :
          \/ AutoLearn(l) \/ \E t \in Transcripts : CompressSession(l, t)
          \/ Compress(l) \/ WriteDigest(l) \/ Extract(l) \/ Put(l)
          \/ EndLearning(l) \/ LearnerKilled(l)

-----------------------------------------------------------------------------
(* The persona.  Nothing in the server makes the engine yet.               *)

\* maybe_trigger.  Mutant: the count is not remembered.
BucketLost(count) == bucket
Remembered(count) == count

\* The callers pass the number of the call's own discoveries.
MaybeTrigger(k, count) ==
    /\ task[k] = Unasked /\ batches < MaxBatches /\ batches' = batches + 1
    /\ IF count \div EveryN <= bucket \div EveryN THEN UNCHANGED <<bucket, fired, task>>
       ELSE /\ bucket' = Remembered(count) /\ fired' = fired + 1
            /\ task' = [task EXCEPT ![k] = [pc |-> "resolve"]]
    /\ UNCHANGED <<persona, resolved, localUp, used, alone>>

\* The backend that was found first is kept; otherwise the local model is probed.
Resolve(k) ==
    /\ task[k].pc = "resolve"
    /\ task' = [task EXCEPT ![k] =
          IF resolved = "none" THEN [pc |-> "probe"]
          ELSE [pc |-> "ask", backend |-> resolved]]
    /\ alone' = (alone /\ (resolved = "none" => \A j \in Tasks : task[j].pc # "probe"))
    /\ UNCHANGED <<bucket, fired, persona, resolved, localUp, batches, used>>

Probed(k) ==
    LET found == IF localUp THEN "local" ELSE "haiku" IN
    /\ task[k].pc = "probe"
    /\ resolved' = found
    /\ task' = [task EXCEPT ![k] = [pc |-> "ask", backend |-> found]]
    /\ UNCHANGED <<bucket, fired, persona, localUp, batches, used, alone>>

\* A failure of the backend is an empty answer, and an empty answer a placeholder.
Generate(k) ==
    /\ task[k].pc = "ask"
    /\ used' = used \union {task[k].backend}
    /\ \E answers \in BOOLEAN :
          /\ answers => task[k].backend = "haiku" \/ localUp
          /\ persona' = IF answers THEN "written" ELSE "pending"
    /\ task' = [task EXCEPT ![k] = Unasked]
    /\ UNCHANGED <<bucket, fired, resolved, localUp, batches, alone>>

LocalChanges ==
    /\ localUp' = ~localUp
    /\ UNCHANGED <<bucket, fired, persona, resolved, task, batches, used, alone>>

PersonaNext ==
    \/ \E k \in Tasks : \/ \E count \in 0..2 * EveryN : MaybeTrigger(k, count)
                        \/ Resolve(k) \/ Probed(k) \/ Generate(k)
    \/ LocalChanges

-----------------------------------------------------------------------------
CaptureTypeOK ==
    /\ thisDay \in 0..LastDate /\ said \in [Transcripts -> 0..MaxSaid]
    /\ ToSet(lately) = Transcripts /\ IsInjective(lately)
    /\ \A t \in Transcripts : digest[t] \in {NoDigest} \union 1..said[t]
    /\ daily \in [Files -> Transcripts \union {NoSession}]
    /\ \A e \in Transcripts \X ToSet(Kinds) :
          fate[e].what \in {"none", "left", "empty", "dropped", "stored", "cut"}

PersonaTypeOK ==
    /\ bucket \in Nat /\ persona \in {"none", "pending", "written"}
    /\ resolved \in {"none", "local", "haiku"} /\ used \subseteq {"local", "haiku"}

Extracting(l, t) == learner[l].pc \in {"extract", "put"} /\ learner[l].of = t

\* A session with a summary has been looked through, and nobody comes back to it: when no
\* learner is at it, each kind of entries was stored, dropped, not found or cut off by a
\* kill, whatever was said since, or it was left alone because compress_session made the
\* summary.  Nothing is extracted of a session without a summary.  (compress returns
\* nothing for a session whose file exists, so that auto_learn does not extract it.)
LookedThrough ==
    \A t \in Transcripts, k \in ToSet(Kinds) :
       /\ digest[t] # NoDigest /\ ~(\E l \in Learners : Extracting(l, t))
             => fate[<<t, k>>] # NoFate
       /\ fate[<<t, k>>] # NoFate => digest[t] # NoDigest

\* Entries are dropped only if there is a file of that day, and those stored are in the file
\* of theirs, unless two learners wrote it at once.  (write_decisions, write_negatives: one
\* file for a project, a day and a kind, whatever session it comes from.)
DroppedForOther ==
    \A t \in Transcripts, k \in ToSet(Kinds) :
       LET f == <<fate[<<t, k>>].on, k>> IN
       /\ fate[<<t, k>>].what = "dropped" => daily[f] # NoSession
       /\ fate[<<t, k>>].what = "stored" => daily[f] = t \/ f \in raced

\* When a run ends, each session it chose has a summary or had nothing to say.  (A session
\* that was summarised before does not end the run.)
RunLooksAtAll ==
    \A l \in Learners : learner[l].pc = "ended" =>
       \A t \in learner[l].chosen : digest[t] # NoDigest \/ t \in learner[l].silent

\* A generation is triggered only by a call with more discoveries than any before it, so
\* that a process generates no more often than the largest call allows.  (maybe_trigger
\* takes a count that grows; its callers pass the number of one call.)
SeldomTriggered == fired <= (2 * EveryN) \div EveryN

\* All completions go to one backend, unless two looked for it at once.  (_resolve_backend
\* keeps what it found, though the local model may be gone since.)
OneBackend == alone => Cardinality(used) <= 1 /\ used \subseteq {resolved}

CaptureSound ==
    /\ LookedThrough /\ DroppedForOther /\ RunLooksAtAll /\ SeldomTriggered /\ OneBackend
=============================================================================
