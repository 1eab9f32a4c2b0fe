----------------------------- MODULE SessionFiles -----------------------------
(***************************************************************************)
(* What is made of commits and of sessions.  The hook after a git commit   *)
(* (hooks/git_post_commit.py) asks git several questions and writes one    *)
(* file per commit; other commits may be made in between.  The rest is     *)
(* computed from what is given: the pairs of memories to merge             *)
(* (cognitive/consolidator.py), the sections of a session to keep          *)
(* (session/compactor.py), and the canvas of a session within its budget   *)
(* (mcp/tools/capture.py).                                                 *)
(***************************************************************************)
EXTENDS Integers, Sequences, FiniteSets, SequencesExt, FiniteSetsExt

CONSTANTS
    Hooks,        \* processes that run the commit hook
    MaxCommits,   \* bound: commits
    MaxMidnights, \* bound: changes of the date
    MaxSilences,  \* bound: git commands that fail or time out
    MaxStopped,   \* bound: processes killed
    Notions,      \* memories: [id, scope, words, score, kept], kept if pinned or archived
    Threshold,    \* merge_threshold, in percent
    Scores,       \* what a section of a session may score, in percent
    Ratios,       \* preserve_ratio, in percent
    Chunks,       \* lengths of a node of the canvas with its edge
    Header,       \* the length of its title
    Overflow,     \* the length of the node that stands for the rest
    Caps,         \* max_chars
    MaxParts      \* bound: memories, sections and nodes

ASSUME SessionFileBounds ==
    /\ {MaxCommits, MaxMidnights, MaxSilences, MaxStopped, Threshold} \subseteq Nat
    /\ Chunks \subseteq Nat \ {0} /\ Caps \union {Header, Overflow, MaxParts} \subseteq Nat
    /\ Ratios \union Scores \subseteq 0..100

VARIABLES
    head,     \* commits made; commit n is the n-th
    date,     \* date.today
    hook,     \* where each hook process is
    notes,    \* files of commits: <<date, commit>> -> what it says, or Torn
    moved,    \* history: commits that were followed by another while their hook ran
    silences, \* history: commits of which git did not tell something
    stops     \* history: commits of which the hook was killed

commitVars == <<head, date, hook, notes, moved, silences, stops>>

Torn == [torn |-> TRUE]
Quiet == [pc |-> "idle"]
Unknown == 0

CommitInit ==
    /\ head = 0 /\ date = 1 /\ hook = [h \in Hooks |-> Quiet] /\ notes = <<>>
    /\ moved = {} /\ silences = {} /\ stops = {}

-----------------------------------------------------------------------------
(* The commit hook.                                                        *)

\* git commit runs the hook when its locks are free again, so that another commit may move
\* the head meanwhile.
Commit(h) ==
    /\ hook[h] = Quiet /\ head < MaxCommits /\ head' = head + 1
    /\ hook' = [hook EXCEPT ![h] = [pc |-> "sha", of |-> head + 1]]
    /\ moved' = moved \union {hook[o].of : o \in {p \in Hooks : hook[p] # Quiet}}
    /\ UNCHANGED <<date, notes, silences, stops>>

\* _run_git: a failure or four seconds without an answer is an empty answer.
Answers(h) == IF Cardinality(silences) < MaxSilences THEN {head, Unknown} ELSE {head}

\* get_commit_info: rev-parse, log and diff are asked one after the other, each of the head.
\* What the note says of itself, by, is the commit whose hook wrote it (history).
AskGit(h) ==
    LET run == hook[h] IN
    \E answer \in Answers(h) :
       /\ run.pc \in {"sha", "message", "diff"}
       /\ silences' = IF answer = Unknown THEN silences \union {run.of} ELSE silences
       /\ hook' = [hook EXCEPT ![h] =
             CASE run.pc = "sha" ->
                    IF answer = Unknown THEN Quiet
                    ELSE [pc |-> "message", of |-> run.of, sha |-> answer]
               [] run.pc = "message" ->
                    [pc |-> "diff", of |-> run.of, sha |-> run.sha, message |-> answer]
               [] run.pc = "diff" ->
                    [pc |-> "open", of |-> run.of, sha |-> run.sha,
                     note |-> [message |-> run.message, diff |-> answer, by |-> run.of]]]
       /\ UNCHANGED <<head, date, notes, moved, stops>>

\* write_commit_discovery: a file of the day and the commit that is there is left.
\* Mutant: it is written in one with its name alone.
NameOfDay(h) == <<date, 0>>
NameOf(h) == <<date, hook[h].sha>>

OpenNote(h) ==
    /\ hook[h].pc = "open"
    /\ IF NameOf(h) \in DOMAIN notes
       THEN hook' = [hook EXCEPT ![h] = Quiet] /\ UNCHANGED notes
       ELSE /\ hook' = [hook EXCEPT ![h] = [pc |-> "write", of |-> @.of, sha |-> @.sha,
                                            note |-> @.note, name |-> NameOf(h)]]
            /\ notes' = [n \in DOMAIN notes \union {NameOf(h)} |->
                            IF n = NameOf(h) THEN Torn ELSE notes[n]]
    /\ UNCHANGED <<head, date, moved, silences, stops>>

WriteNote(h) ==
    /\ hook[h].pc = "write" /\ notes' = [notes EXCEPT ![hook[h].name] = hook[h].note]
    /\ hook' = [hook EXCEPT ![h] = Quiet]
    /\ UNCHANGED <<head, date, moved, silences, stops>>

HookKilled(h) ==
    /\ hook[h] # Quiet /\ Cardinality(stops) < MaxStopped /\ stops' = stops \union {hook[h].of}
    /\ hook' = [hook EXCEPT ![h] = Quiet]
    /\ UNCHANGED <<head, date, notes, moved, silences>>

DateChanges ==
    /\ date <= MaxMidnights /\ date' = date + 1
    /\ UNCHANGED <<head, hook, notes, moved, silences, stops>>

CommitNext ==
    \/ \E h \in Hooks :
          Commit(h) \/ AskGit(h) \/ OpenNote(h) \/ WriteNote(h) \/ HookKilled(h)
    \/ DateChanges

-----------------------------------------------------------------------------
(* Near duplicates among memories (find_near_duplicates).                  *)

\* _token_similarity of their contents reaches the threshold.
Alike(m, n) ==
    /\ m.words # {} /\ n.words # {}
    /\ 100 * Cardinality(m.words \intersect n.words) >=
          Threshold * Max({Cardinality(m.words), Cardinality(n.words)})

\* Mutant: the scopes of the two are not compared.
MayMergeAcross(m, n) == Alike(m, n)
MayMerge(m, n) == m.scope = n.scope /\ Alike(m, n)

\* The one to be merged and the one to merge it into: the earlier of two equals.
MergePair(first, second) ==
    IF first.score >= second.score THEN <<second, first>> ELSE <<first, second>>

MergeCandidates(memories) ==
    LET active == SelectSeq(memories, LAMBDA m : ~m.kept) IN
    {MergePair(active[p[1]], active[p[2]]) :
        p \in {q \in (DOMAIN active) \X (DOMAIN active) :
                 q[1] < q[2] /\ MayMerge(active[q[1]], active[q[2]])}}

-----------------------------------------------------------------------------
(* The sections of a session (compact).  Scores are in percent.            *)

\* The least score of the upper part that begins after share percent of the sections.
ScoreAt(scores, share) ==
    SortSeq(scores, <)[Max({0, (Len(scores) * share) \div 100}) + 1]

\* Mutant: the ratio is the part that is left out.
WholeFromShare(scores, ratio) == ScoreAt(scores, Min({ratio, 99}))
WholeFrom(scores, ratio) == ScoreAt(scores, 100 - ratio)

\* What becomes of a section: all of it, a summary, or nothing.
Tier(scores, ratio, score) ==
    CASE ratio = 100 -> "whole"
      [] ratio < 100 /\ score = 0 -> "dropped"
      [] ratio = 0 /\ score > 0 -> "summary"
      [] ratio \in 1..99 /\ score > 0 ->
            IF score >= WholeFrom(scores, ratio) THEN "whole"
            ELSE IF score >= ScoreAt(scores, 30) THEN "summary" ELSE "dropped"

-----------------------------------------------------------------------------
(* The canvas of a session (_build_mermaid_canvas): as many nodes as leave *)
(* room for the node that counts the rest.                                 *)

CanvasLength(chunks) == Header + FoldSeq(+, 0, chunks)

\* Mutant: no room is left for the node of the rest.
RoomForAll(cap) == cap - Header
Room(cap) == cap - Header - Overflow

NodesShown(chunks, cap) ==
    IF CanvasLength(chunks) <= cap \/ Len(chunks) <= 1 THEN Len(chunks)
    ELSE Max({0} \union {k \in 1..Len(chunks) :
                            FoldSeq(+, 0, SubSeq(chunks, 1, k)) <= Room(cap)})

\* The canvas before it is cut off at the budget.
CanvasWanted(chunks, cap) ==
    LET shown == NodesShown(chunks, cap) IN
    CanvasLength(SubSeq(chunks, 1, shown)) + IF shown < Len(chunks) THEN Overflow ELSE 0

Canvas(chunks, cap) == Min({cap, CanvasWanted(chunks, cap)})

-----------------------------------------------------------------------------
(* Properties.                                                             *)

CommitTypeOK ==
    /\ head \in 0..MaxCommits /\ date \in 1..(MaxMidnights + 1)
    /\ \A h \in Hooks : hook[h].pc \in {"idle", "sha", "message", "diff", "open", "write"}
    /\ moved \union silences \union stops \subseteq 1..MaxCommits

Undisturbed(commit) == commit \notin moved \union silences \union stops
Running == {hook[h].of : h \in {g \in Hooks : hook[g] # Quiet}}

\* Whatever hooks run at once, whatever git fails to answer and whoever is killed: a commit
\* whose own hook ran to its end undisturbed has a file; one that is whole mixes what it
\* says of two commits only if another commit was made while its hook ran, or git was
\* silent to it, and a commit has two files only if one was; a torn file is being written
\* or its hook was killed (get_commit_info, write_commit_discovery).
CommitsSound ==
    /\ \A c \in 1..head : Undisturbed(c) /\ c \notin Running =>
          \E n \in DOMAIN notes : n[2] = c
    /\ \A n \in DOMAIN notes :
          IF notes[n] = Torn
          THEN stops # {} \/ \E h \in Hooks : hook[h].pc = "write" /\ hook[h].name = n
          ELSE \/ notes[n].by \in moved \union silences
               \/ notes[n] = [message |-> n[2], diff |-> n[2], by |-> n[2]]
    /\ \A n, m \in DOMAIN notes : n # m /\ n[2] = m[2] => moved # {}

\* Of any memories that are looked at, a pinned or archived one is never merged, no scope
\* takes over a memory of another, and not all of a group are merged away: of any group
\* one is not to be merged into another of it, so that the pairs have no cycle.
MergesSound ==
    \A k \in 1..MaxParts : \A given \in {s \in [1..k -> Notions] : IsInjective(s)} :
       LET pairs == MergeCandidates(given) IN
       /\ \A p \in pairs : ~p[1].kept /\ ~p[2].kept /\ p[1].scope = p[2].scope
       /\ \A group \in SUBSET ToSet(given) \ {{}} :
             \E m \in group : \A w \in group : <<m, w>> \notin pairs

\* At least the asked share of the sections is kept whole, apart from those that have
\* nothing to do with the task, and never a worse one before a better one (compact).
CompactionSound ==
    \A k \in 1..MaxParts : \A scores \in [1..k -> Scores] : \A ratio \in Ratios \ {0} :
       LET tier(i) == Tier(scores, ratio, scores[i])
           whole == {i \in 1..k : tier(i) = "whole"}
       IN /\ 100 * Cardinality(whole \union {i \in 1..k : scores[i] = 0}) >= ratio * k
          /\ \A i \in whole, j \in 1..k : scores[j] >= scores[i] => j \in whole
          /\ ratio < 100 => \A i \in whole : scores[i] > 0
          /\ (\E i \in 1..k : scores[i] > 0) => whole # {}

\* The canvas keeps to its budget, is cut off in the middle of a node only if not even
\* the title and the node of the rest fit or there is a single node, and else shows as
\* many nodes as fit with it.
CanvasSound ==
    \A k \in 1..MaxParts : \A chunks \in [1..k -> Chunks] : \A cap \in Caps :
       LET shown == NodesShown(chunks, cap) IN
       /\ Canvas(chunks, cap) <= cap
       /\ k > 1 /\ Header + Overflow <= cap => CanvasWanted(chunks, cap) <= cap
       /\ shown < k => CanvasLength(SubSeq(chunks, 1, shown + 1)) + Overflow > cap

TextsSound == MergesSound /\ CompactionSound /\ CanvasSound
=============================================================================
