-------------------------- MODULE CheckpointHistory --------------------------
(***************************************************************************)
(* The checkpoint files with the diffs they carry (core/event_store.py)    *)
(* and the two queries that read them (api/query.py): publish_checkpoint   *)
(* collects git diffs and writes a file, query_checkpoints lists records,  *)
(* query_file_diffs follows one file through them, a session that resumes  *)
(* takes the latest one (mcp/tools/project.py), the nightly job prunes.    *)
(*                                                                         *)
(* A reader opens one file after the other while others are written and    *)
(* pruned.  Of a diff only the key counts under which it is stored, and of *)
(* git how long it takes.                                                  *)
(***************************************************************************)
EXTENDS Integers, Sequences, FiniteSets, FiniteSetsExt, SequencesExt

CONSTANTS
    Savers,      \* calls of publish_checkpoint that can be under way
    Viewers,     \* queries that can be under way
    Slugs,       \* projects
    Everywhere,  \* no project asked for, or no project claim
    Paths,       \* file names as tools and callers spell them
    KeyOf,       \* normalise_diff_path: the key of a path, or NoKey
    NoKey,
    Secret,      \* is_secret_bearing_path
    Claims,      \* the project claims of callers: sets of projects, {} for none
    Selectors,   \* the keys that queries name, and NoKey for a listing
    Touched,     \* what files_modified may hold: sequences of paths
    MaxFiles,    \* _MAX_DIFF_FILES
    FileTime,    \* _DIFF_TIMEOUT_SECONDS
    TotalTime,   \* _MAX_DIFF_TOTAL_SECONDS
    Ttl,         \* the age at which a checkpoint expires
    ScanLimit,   \* _DIFF_SCAN_CHECKPOINTS
    PageLimit,   \* limit of a query
    Old,         \* records from before the denylist and the keys, under any names: a set
    LastTick,    \* bound: the clock
    MaxSaves     \* bound: checkpoints

ASSUME HistoryBounds ==
    /\ {MaxFiles, FileTime, TotalTime, ScanLimit, PageLimit} \subseteq Nat \ {0}
    /\ ScanLimit >= PageLimit
    /\ {Ttl, LastTick, MaxSaves} \subseteq Nat
ASSUME HistoryPaths ==
    /\ Secret \subseteq Paths /\ NoKey \notin Paths
    /\ KeyOf \in [Paths -> Paths \union {NoKey}]
    /\ \A p \in Paths : KeyOf[p] # NoKey => KeyOf[KeyOf[p]] = KeyOf[p]
    /\ \A files \in Touched : files \in Seq(Paths)
    /\ Selectors \subseteq {KeyOf[p] : p \in Paths} \union {NoKey}
    /\ Claims \subseteq SUBSET Slugs /\ Everywhere \notin Slugs
ASSUME HistoryOld ==
    /\ IsFiniteSet(Old)
    /\ \A c \in Old :
          /\ c \in [id: {c.id}, slug: Slugs, at: -LastTick..0,
                    diffs: SUBSET Paths, whole: BOOLEAN]
          /\ c.id \notin 1..MaxSaves
          /\ \A d \in Old : d.id = c.id => d = c

VARIABLES
    tick,     \* the clock, in seconds
    written,  \* the checkpoint files
    saver,    \* what each publish is doing
    viewer,   \* what each query is doing, or its answer
    serial    \* the last checkpoint id

historyVars == <<tick, written, saver, viewer, serial>>

CheckpointIds == 1..MaxSaves \union {c.id : c \in Old}

\* A checkpoint file; one that is not whole does not parse.
Checkpoint(id, slug, diffs) ==
    [id |-> id, slug |-> slug, at |-> tick, diffs |-> diffs, whole |-> FALSE]

Away == [pc |-> "away"]

HistoryInit ==
    /\ tick = 0
    /\ written = Old
    /\ saver = [s \in Savers |-> Away]
    /\ viewer = [v \in Viewers |-> Away]
    /\ serial = 0

-----------------------------------------------------------------------------
(* publish_checkpoint.                                                     *)

\* What _collect_git_diffs keeps, with its place in the list: the keys that are neither
\* secret nor out of the tree, each at the first of its spellings.
\* Mutant: what is stored is the name as the tool spelled it.
Capturable(p) == p \notin Secret /\ KeyOf[p] \notin Secret \union {NoKey}
KeptAsSpelled(files) ==
    {[at |-> n, key |-> files[n]] : n \in {m \in DOMAIN files : Capturable(files[m])}}
Kept(files) ==
    LET again(n) == \E m \in 1..n - 1 : Capturable(files[m]) /\ KeyOf[files[m]] = KeyOf[files[n]]
    IN  {[at |-> n, key |-> KeyOf[files[n]]] :
            n \in {m \in DOMAIN files : Capturable(files[m]) /\ ~again(m)}}
Capped(kept) == {k \in kept : Cardinality({j \in kept : j.at <= k.at}) <= MaxFiles}

BeginSave(s, slug, files) ==
    /\ saver[s].pc = "away" /\ serial < MaxSaves
    /\ serial' = serial + 1
    /\ saver' = [saver EXCEPT ![s] =
          [pc |-> "loop", rest |-> Capped(Kept(files)), since |-> tick, until |-> tick,
           record |-> Checkpoint(serial + 1, slug, {})]]
    /\ UNCHANGED <<tick, written, viewer>>

\* The time that one git diff may take.
\* Mutant: the timeout of a file is not cut to what is left of the budget.
FileTimeWhole(left) == FileTime
FileTimeIn(left) == Min({FileTime, left})

\* The top of the loop: no file or no time is left, or git is started for the next one.
NextDiff(s) ==
    LET left == saver[s].since + TotalTime - tick IN
    /\ saver[s].pc = "loop"
    /\ saver' = [saver EXCEPT ![s] =
          IF saver[s].rest = {} \/ left <= 0 THEN [@ EXCEPT !.pc = "open"]
          ELSE [@ EXCEPT !.pc = "git", !.until = tick + FileTimeIn(left)]]
    /\ UNCHANGED <<tick, written, viewer, serial>>

\* git ends with a diff, without one, with an error, or is killed at its timeout.
GitEnds(s, found) ==
    /\ saver[s].pc = "git"
    /\ \E next \in saver[s].rest :
          /\ \A k \in saver[s].rest : next.at <= k.at
          /\ saver' = [saver EXCEPT ![s].pc = "loop", ![s].rest = @ \ {next},
                ![s].record.diffs = IF found THEN @ \union {next.key} ELSE @]
    /\ UNCHANGED <<tick, written, viewer, serial>>

\* write_text: the file is there before its content is.
OpenFile(s) ==
    /\ saver[s].pc = "open"
    /\ written' = written \union {saver[s].record}
    /\ saver' = [saver EXCEPT ![s].pc = "write"]
    /\ UNCHANGED <<tick, viewer, serial>>

WriteFile(s) ==
    /\ saver[s].pc = "write"
    /\ written' = (written \ {saver[s].record})
                     \union {[saver[s].record EXCEPT !.whole = TRUE]}
    /\ saver' = [saver EXCEPT ![s] = Away]
    /\ UNCHANGED <<tick, viewer, serial>>

SaverDies(s) ==
    /\ saver[s].pc # "away"
    /\ saver' = [saver EXCEPT ![s] = Away]
    /\ UNCHANGED <<tick, written, viewer, serial>>

\* The loop itself takes no time, and git no more than it may.
TickPasses ==
    /\ tick < LastTick
    /\ \A s \in Savers : saver[s].pc # "loop" /\ (saver[s].pc = "git" => tick < saver[s].until)
    /\ tick' = tick + 1
    /\ UNCHANGED <<written, saver, viewer, serial>>

\* prune_expired_checkpoints: what does not parse is never removed.
Prune(c) ==
    /\ c.whole /\ c.at < tick - Ttl
    /\ written' = written \ {c}
    /\ viewer' = [v \in Viewers |->
          IF viewer[v].pc \in {"scan", "seek"} THEN [viewer[v] EXCEPT !.there = @ \ {c.id}]
          ELSE viewer[v]]
    /\ UNCHANGED <<tick, saver, serial>>

-----------------------------------------------------------------------------
(* query_checkpoints and query_file_diffs.                                 *)

\* _scope_permits: without a claim everything is in scope.
InScope(scope, slug) == scope = {} \/ slug \in scope
Directories(slug) == IF slug = Everywhere THEN Slugs ELSE {slug}

\* Whether a query needs no scan: its project is out of scope, or its file is secret.
\* Mutant: the reader trusts the writer to have kept secrets out.
RefusedByScope(q) == q.slug # Everywhere /\ ~InScope(q.scope, q.slug)
Refused(q) == RefusedByScope(q) \/ q.path \in Secret

Free(v) == viewer[v].pc \in {"away", "answered", "resumed"}

\* key is NoKey when checkpoints are listed, and the key of the file otherwise.
\* there: history, the records that were readable from the beginning until now.
AskHistory(v, slug, scope, path) ==
    LET q == [slug |-> slug, scope |-> scope, path |-> path]
        files == {c \in written : c.slug \in Directories(slug)}
    IN
    /\ Free(v)
    /\ viewer' = [viewer EXCEPT ![v] =
          IF Refused(q)
          THEN [pc |-> "answered", query |-> q, there |-> {}, cut |-> FALSE, items |-> {}]
          ELSE [pc |-> "scan", query |-> q, todo |-> {c.id : c \in files}, read |-> {},
                there |-> {c.id : c \in {d \in files : d.whole}}]]
    /\ UNCHANGED <<tick, written, saver, serial>>

\* list_checkpoints reads one file: gone, half written or whole.
ReadFile(v, id) ==
    /\ viewer[v].pc \in {"scan", "seek"} /\ id \in viewer[v].todo
    /\ viewer' = [viewer EXCEPT ![v].todo = @ \ {id},
          ![v].read = @ \union {c \in written : c.id = id /\ c.whole}]
    /\ UNCHANGED <<tick, written, saver, serial>>

\* A prefix of some records sorted by their time, whichever order equal times are in.
FirstOf(records, n, newest) ==
    {first \in SUBSET records :
        /\ Cardinality(first) = Min({n, Cardinality(records)})
        /\ \A c \in first, d \in records \ first :
              IF newest THEN c.at >= d.at ELSE c.at <= d.at}

\* What goes out: the record without its diffs, and of a file its own diff.
\* Mutant: the whole record goes out.
ShownWhole(c, q) == [id |-> c.id, slug |-> c.slug,
                     diffs |-> IF q.path = NoKey THEN c.diffs ELSE {q.path}]
Shown(c, q) == [id |-> c.id, slug |-> c.slug,
                diffs |-> IF q.path = NoKey THEN {} ELSE {q.path}]

\* A listing is cut before the scope is applied, a history after it.
AnswerQuery(v) ==
    LET q == viewer[v].query
        allowed(records) == {c \in records : InScope(q.scope, c.slug)}
    IN
    /\ viewer[v].pc = "scan" /\ viewer[v].todo = {}
    /\ \E seen \in FirstOf(viewer[v].read,
                           IF q.path = NoKey THEN PageLimit ELSE ScanLimit, TRUE) :
       \E page \in IF q.path = NoKey THEN {allowed(seen)}
                   ELSE FirstOf({c \in allowed(seen) : q.path \in c.diffs}, PageLimit, FALSE) :
          viewer' = [viewer EXCEPT ![v] =
             [pc |-> "answered", query |-> q, there |-> viewer[v].there,
              cut |-> Cardinality(viewer[v].read) > ScanLimit \/ Cardinality(page) = PageLimit,
              items |-> {Shown(c, q) : c \in page}]]
    /\ UNCHANGED <<tick, written, saver, serial>>

-----------------------------------------------------------------------------
(* session_seed(mode="resume").                                            *)

\* Without an id all files of the project are read, and the latest is taken.
Resume(v, slug) ==
    LET files == {c \in written : c.slug = slug} IN
    /\ Free(v)
    /\ viewer' = [viewer EXCEPT ![v] =
          [pc |-> "seek", slug |-> slug, todo |-> {c.id : c \in files}, read |-> {},
           there |-> {c.id : c \in {d \in files : d.whole}}]]
    /\ UNCHANGED <<tick, written, saver, serial>>

\* Mutant: the first of those sorted by their time.
LatestIsFirst(records) == FirstOf(records, 1, FALSE)
Latest(records) == FirstOf(records, 1, TRUE)

TakeLatest(v) ==
    /\ viewer[v].pc = "seek" /\ viewer[v].todo = {}
    /\ \E found \in Latest(viewer[v].read) :
          viewer' = [viewer EXCEPT ![v] =
             [pc |-> "resumed", slug |-> @.slug, there |-> @.there, found |-> found]]
    /\ UNCHANGED <<tick, written, saver, serial>>

\* With an id it is that one, if it parses, whatever there is besides.
ResumeNamed(v, slug, id) ==
    /\ Free(v)
    /\ viewer' = [viewer EXCEPT ![v] =
          [pc |-> "resumed", slug |-> slug, there |-> {},
           found |-> {c \in written : c.id = id /\ c.slug = slug /\ c.whole}]]
    /\ UNCHANGED <<tick, written, saver, serial>>

HistoryNext ==
    \/ \E s \in Savers :
          \/ \E slug \in Slugs, files \in Touched : BeginSave(s, slug, files)
          \/ NextDiff(s) \/ (\E found \in BOOLEAN : GitEnds(s, found))
          \/ OpenFile(s) \/ WriteFile(s) \/ SaverDies(s)
    \/ TickPasses
    \/ \E c \in written : Prune(c)
    \/ \E v \in Viewers :
          \/ \E slug \in Slugs \union {Everywhere}, claim \in Claims, key \in Selectors :
                AskHistory(v, slug, claim, key)
          \/ \E id \in CheckpointIds : ReadFile(v, id)
          \/ AnswerQuery(v)
          \/ \E slug \in Slugs :
                Resume(v, slug) \/ (\E id \in CheckpointIds : ResumeNamed(v, slug, id))
          \/ TakeLatest(v)

HistorySpec == HistoryInit /\ [][HistoryNext]_historyVars
-----------------------------------------------------------------------------
CheckpointFile == [id: CheckpointIds, slug: Slugs, at: -LastTick..LastTick, diffs: SUBSET Paths,
           whole: BOOLEAN]
HistoryTypeOK ==
    /\ tick \in 0..LastTick /\ serial \in 0..MaxSaves
    /\ written \subseteq CheckpointFile
    /\ \A s \in Savers :
          saver[s] = Away \/
          /\ saver[s].pc \in {"loop", "git", "open", "write"}
          /\ saver[s].rest \subseteq [at: Nat, key: Paths] /\ saver[s].record \in CheckpointFile
    /\ \A v \in Viewers : viewer[v].pc \in {"away", "scan", "answered", "seek", "resumed"}

\* No query hands out a record that is out of the caller's scope or a diff of a secret
\* file, not even from a record that was written before such diffs were kept out.
\* (_scope_permits, is_secret_bearing_path on the read side, _checkpoint_wire_dict.)
NothingLeaks ==
    \A v \in Viewers : viewer[v].pc = "answered" =>
       \A i \in viewer[v].items :
          InScope(viewer[v].query.scope, i.slug) /\ i.diffs \intersect Secret = {}

\* The history of a file has every diff of it that was in a checkpoint before the query
\* began and was not pruned meanwhile, however the tool and the caller spelled the file,
\* unless the history is as long as the limit or the store longer than the scan.
\* (normalise_diff_path on both sides, "so the two can never disagree".)
HistoryComplete ==
    \A v \in Viewers : (viewer[v].pc = "answered" /\ viewer[v].query.path # NoKey) =>
       LET q == viewer[v].query
           due == {c \in written :
              /\ c.id \in viewer[v].there /\ q.path \in c.diffs
              /\ InScope(q.scope, c.slug) /\ c.slug \in Directories(q.slug)}
       IN  Refused(q) \/ viewer[v].cut
           \/ {c.id : c \in due} \subseteq {i.id : i \in viewer[v].items}

\* A capture never keeps a checkpoint waiting longer than its budget, however long git
\* would take.  (_collect_git_diffs, _MAX_DIFF_TOTAL_SECONDS "across the whole loop".)
CollectedInTime ==
    \A s \in Savers : saver[s].pc \in {"loop", "git"} => tick <= saver[s].since + TotalTime

\* The files a query asks for are named by their key alone: a diff is never stored under
\* a key that no query can name.  (Those of records from before may be, and stay unfound.)
Addressable == \A c \in written : c.id \in 1..MaxSaves => \A p \in c.diffs : KeyOf[p] = p

\* A session that resumes gets a checkpoint of its project, and none older than one that
\* was whole before it asked and is not pruned: a half-written file, or one written or
\* pruned meanwhile, hides no other.  (get_latest_checkpoint.)
ResumesFromLatest ==
    \A v \in Viewers : viewer[v].pc = "resumed" =>
       /\ \A f \in viewer[v].found : f.slug = viewer[v].slug /\ f.whole
       /\ \A c \in written : c.id \in viewer[v].there =>
             \E f \in viewer[v].found : f.at >= c.at

HistorySound ==
    NothingLeaks /\ HistoryComplete /\ CollectedInTime /\ Addressable /\ ResumesFromLatest
=============================================================================
