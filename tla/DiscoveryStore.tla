--------------------------- MODULE DiscoveryStore ---------------------------
(***************************************************************************)
(* The discovery directory (~/.claude/shared/discoveries): Markdown files  *)
(* that several processes capture, score, pin, decay, supersede and prune  *)
(* at the same time.  Score and pin edits are read-modify-writes under a   *)
(* per-file lock (core/file_locking.py); the nightly hygiene pass, dedup   *)
(* and prune read and rename the same files without it.                    *)
(*                                                                         *)
(* Scores are integers in hundredths: salience 0..500, importance 0..100.  *)
(* A file name is a number, so that the sorted listing is its order.       *)
(***************************************************************************)
EXTENDS Integers, FiniteSets

CONSTANTS
    Names,         \* file stems, as the sorted listing orders them
    Editors,       \* processes running an MCP tool call that edits one file
    Janitors,      \* processes running the nightly hygiene job
    Pruners,       \* processes running the prune tool with confirm=True
    Writers,       \* processes capturing a new discovery
    Topics,        \* two documents are near-duplicates iff they share a topic
    Importances,   \* importances a capture or an edit may give
    Edits,         \* what an editing tool call asks for, see Edit
    Corpus,        \* the documents that may be there at the start
    MaxDay,        \* bound: the last calendar day
    MaxCaptures,   \* bound: captures after the start
    AgeDays,       \* DEPTHFUSION_PRUNE_AGE_DAYS
    CaptureDedups, \* the capture pipeline runs dedup on what it wrote
    Keep,          \* an edit leaves this field as it is
    None           \* no file at this path, nobody holding the lock

Procs == Editors \union Janitors \union Pruners \union Writers

MaxSalience == 500
DefaultSalience == 100
ArchiveThreshold == 5

ASSUME NamesAssumption == Names \subseteq Nat /\ IsFiniteSet(Names)
ASSUME ProcsAssumption == None \notin Procs \union Names
ASSUME RolesAssumption ==
    /\ Editors \intersect (Janitors \union Pruners \union Writers) = {}
    /\ Janitors \intersect (Pruners \union Writers) = {}
    /\ Pruners \intersect Writers = {}
ASSUME ImportancesAssumption == Importances \subseteq 0..100
ASSUME BoundsAssumption == MaxDay \in Nat /\ MaxCaptures \in Nat /\ AgeDays \in Nat
ASSUME KeepAssumption == Keep \notin (Int \union BOOLEAN)
ASSUME CaptureDedupsAssumption == CaptureDedups \in BOOLEAN

\* A document: its identity (the order of capture), what it is about, its
\* scoring frontmatter, the day of its last decay (0: none) and its mtime.
Document == [id: Nat, topic: Topics, importance: 0..100, salience: 0..MaxSalience,
             pinned: BOOLEAN, decayed: Nat, mtime: Nat]

\* What is told apart of a superseded document: nothing reads its scores any more.
Stub == [id: Nat, topic: Topics, pinned: BOOLEAN]
StubOf(d) == [id |-> d.id, topic |-> d.topic, pinned |-> d.pinned]

\* What a FrontmatterContext holds when the caller's block ends; delta is the
\* salience change a caller computes from the body it read under the lock.
Edit == [importance: (0..100) \union {Keep}, salience: (0..MaxSalience) \union {Keep},
         delta: Int, pinned: BOOLEAN \union {Keep}, decayed: Nat \union {Keep}]

\* Only the decay pass writes last_decay_date.
ASSUME EditsAssumption == Edits \subseteq {e \in Edit : e.decayed = Keep}
ASSUME CorpusAssumption == Corpus \subseteq Document /\ None \notin Document \union Stub

NoEdit == [importance |-> Keep, salience |-> Keep, delta |-> 0,
           pinned |-> Keep, decayed |-> Keep]

\* A path under the directory: <name>.md or <name>.md.superseded.
Paths == Names \X {"md", "superseded"}

\* An archive file name: the plain name, or one stamped with a date (decay) or
\* a time (prune) after a collision.
ArchiveTags == {"plain", "date", "time"} \X Nat
Plain == <<"plain", 0>>

VARIABLES
    live,       \* <name>.md
    superseded, \* <name>.md.superseded
    archive,    \* the files under .archive/, and the document each holds
    lock,       \* the flock on .<name>.md.scorelock
    day,        \* today
    captured,   \* documents captured so far (the last id)
    job         \* each process's program counter and local variables, see Job

fileVars == <<live, superseded, archive, captured>>
vars == <<live, superseded, archive, captured, lock, day, job>>

\* pc is what the process is doing, file the name it is working on, body the
\* document it read last, edit what it is about to splice in, todo the names
\* its pass has still to visit, picked the paths it has decided to move, and
\* runDate the day its decay pass started.
Job == [pc: {"idle", "writing", "waiting", "locked", "decay", "archiving", "dedup",
             "superseding", "pruning"},
        file: Names \union {None}, body: Document \union {None}, edit: Edit,
        todo: SUBSET Names, picked: SUBSET Paths, runDate: Nat]

NoJob == [pc |-> "idle", file |-> None, body |-> None, edit |-> NoEdit,
          todo |-> {}, picked |-> {}, runDate |-> 0]

At(p, state) == job[p].pc = state
Become(p, next) == job' = [job EXCEPT ![p] = next]

LiveNames == {n \in Names : live[n] # None}
AtPath(path) == IF path[2] = "md" THEN live[path[1]] ELSE superseded[path[1]]

\* Salience stays in range.  Mutant: without the floor at 0.
ClampWithoutFloor(s) == IF s > MaxSalience THEN MaxSalience ELSE s
Clamp(s) == IF s < 0 THEN 0 ELSE IF s > MaxSalience THEN MaxSalience ELSE s

\* One day of the bucketed multiplicative decay.
BucketRate(importance) ==
    IF importance >= 80 THEN 1 ELSE IF importance >= 50 THEN 2 ELSE 5
Decayed(doc) == (doc.salience * (100 - BucketRate(doc.importance))) \div 100

\* The document after the edit was spliced into the frontmatter of b.
\* Mutant: only the fields of the edit survive, last_decay_date does not.
SpliceLosingDate(b, e) ==
    [id |-> b.id, topic |-> b.topic,
     importance |-> IF e.importance = Keep THEN b.importance ELSE e.importance,
     salience |-> IF e.salience = Keep THEN Clamp(b.salience + e.delta) ELSE e.salience,
     pinned |-> IF e.pinned = Keep THEN b.pinned ELSE e.pinned,
     decayed |-> IF e.decayed = Keep THEN 0 ELSE e.decayed,
     mtime |-> day]
Splice(b, e) ==
    [id |-> b.id, topic |-> b.topic,
     importance |-> IF e.importance = Keep THEN b.importance ELSE e.importance,
     salience |-> IF e.salience = Keep THEN Clamp(b.salience + e.delta) ELSE e.salience,
     pinned |-> IF e.pinned = Keep THEN b.pinned ELSE e.pinned,
     decayed |-> IF e.decayed = Keep THEN b.decayed ELSE e.decayed,
     mtime |-> day]

\* Moving d into .archive/ under a name: shutil.move replaces a file there.
Deposit(path, tag, d) ==
    {a \in archive : <<a.path, a.tag>> # <<path, tag>>}
        \union {[path |-> path, tag |-> tag, id |-> d.id]}
InArchive(path, tag) == \E a \in archive : a.path = path /\ a.tag = tag

Init ==
    /\ live \in [Names -> Corpus \union {None}]
    /\ \A m, n \in LiveNames : live[m].id = live[n].id => m = n
    /\ superseded = [n \in Names |-> None]
    /\ archive = {}
    /\ lock = [n \in Names |-> None]
    /\ day = 1
    /\ captured = Cardinality(LiveNames)
    /\ \A n \in LiveNames : live[n].id \in 1..captured
    /\ job = [p \in Procs |-> NoJob]
-----------------------------------------------------------------------------
(* Capture: the existence check, then the write, then dedup of the file.   *)

CaptureCheck(p, n) ==
    /\ At(p, "idle")
    /\ captured < MaxCaptures
    /\ live[n] = None
    /\ Become(p, [job[p] EXCEPT !.pc = "writing", !.file = n])
    /\ UNCHANGED <<fileVars, lock, day>>

CaptureWrite(p, topic, importance) ==
    /\ At(p, "writing")
    /\ captured < MaxCaptures
    /\ captured' = captured + 1
    /\ live' = [live EXCEPT ![job[p].file] =
                    [id |-> captured + 1, topic |-> topic, importance |-> importance,
                     salience |-> DefaultSalience, pinned |-> FALSE, decayed |-> 0,
                     mtime |-> day]]
    /\ Become(p, IF CaptureDedups THEN [NoJob EXCEPT !.pc = "dedup", !.todo = {job[p].file}]
                 ELSE NoJob)
    /\ UNCHANGED <<superseded, archive, lock, day>>
-----------------------------------------------------------------------------
(* atomic_frontmatter_rewrite: the file must exist, the sidecar lock is    *)
(* taken, the body is read under it, and the spliced body replaces the     *)
(* file before the lock is released.                                       *)

\* set_memory_score, pin_discovery and recall feedback find the file and go
\* on to lock it.
EditStart(p, n, e) ==
    /\ At(p, "idle")
    /\ live[n] # None
    /\ Become(p, [job[p] EXCEPT !.pc = "waiting", !.file = n, !.edit = e])
    /\ UNCHANGED <<fileVars, lock, day>>

\* A rewrite is over: the decay pass goes on to its next file, a tool call returns.
EndRewrite(p) ==
    Become(p, IF p \in Janitors
              THEN [job[p] EXCEPT !.pc = "decay", !.file = None, !.body = None, !.edit = NoEdit]
              ELSE NoJob)

\* path.exists() or read_text() does not find the file.
RewriteMissing(p) ==
    /\ At(p, "waiting")
    /\ live[job[p].file] = None
    /\ EndRewrite(p)
    /\ UNCHANGED <<fileVars, lock, day>>

\* Nobody holds the flock of n.  Mutant: open() alone locks nothing.
FreeWithoutFlock(n) == TRUE
Free(n) == lock[n] = None

\* The body that is edited is the one read under the lock, not an earlier one.
\* Mutant: the caller's own, earlier reading is edited.
ReadBeforeLock(p) == IF job[p].body # None THEN job[p].body ELSE live[job[p].file]
ReadUnderLock(p) == live[job[p].file]

LockAndRead(p) ==
    /\ At(p, "waiting")
    /\ Free(job[p].file)
    /\ live[job[p].file] # None
    /\ lock' = [lock EXCEPT ![job[p].file] = p]
    /\ Become(p, [job[p] EXCEPT !.pc = "locked", !.body = ReadUnderLock(p)])
    /\ UNCHANGED <<fileVars, day>>

\* os.replace puts the new body at the path, whether or not a file is still
\* there, and the lock is released.
Replace(p) ==
    /\ At(p, "locked")
    /\ live' = [live EXCEPT ![job[p].file] = Splice(job[p].body, job[p].edit)]
    /\ lock' = [lock EXCEPT ![job[p].file] = None]
    /\ EndRewrite(p)
    /\ UNCHANGED <<superseded, archive, captured, day>>
-----------------------------------------------------------------------------
(* The hygiene job: decay over the listing, then dedup over a new listing. *)
(* (Its prune phase only counts candidates and changes nothing.)           *)

HygieneStart(p) ==
    /\ At(p, "idle")
    /\ Become(p, [job[p] EXCEPT !.pc = "decay", !.todo = LiveNames, !.runDate = day])
    /\ UNCHANGED <<fileVars, lock, day>>

IsFirst(n, S) == n \in S /\ \A m \in S : n <= m

DecayEdit(d, date) == [importance |-> Keep, salience |-> Decayed(d), delta |-> 0,
                       pinned |-> Keep, decayed |-> date]

\* The decay pass leaves d alone: gone, pinned, or decayed already.
\* Mutant: without the check of the pin.
SkippedButPins(d, date) == IF d = None THEN TRUE ELSE d.decayed >= date
Skipped(d, date) == IF d = None THEN TRUE ELSE d.pinned \/ d.decayed >= date

\* The pass reads the next file, without the lock, and decides what becomes
\* of it: nothing, the archive, or a rewrite with the salience it computes
\* from this reading.
DecayRead(p) ==
    /\ At(p, "decay")
    /\ \E n \in Names :
         /\ IsFirst(n, job[p].todo)
         /\ LET d == live[n]
                rest == [job[p] EXCEPT !.todo = @ \ {n}]
                found == [rest EXCEPT !.file = n, !.body = d]
            IN Become(p, IF Skipped(d, job[p].runDate) THEN rest
                         ELSE IF Decayed(d) < ArchiveThreshold
                         THEN [found EXCEPT !.pc = "archiving"]
                         ELSE [found EXCEPT !.pc = "waiting",
                                            !.edit = DecayEdit(d, job[p].runDate)])
    /\ UNCHANGED <<fileVars, lock, day>>

\* _archive_file: a move without the lock; a second file of this name gets
\* today's date in its name.
DecayArchive(p) ==
    /\ At(p, "archiving")
    /\ EndRewrite(p)
    /\ LET n == job[p].file
           tag == IF InArchive(<<n, "md">>, Plain) THEN <<"date", day>> ELSE Plain
       IN IF live[n] = None THEN UNCHANGED <<live, archive>>
          ELSE /\ archive' = Deposit(<<n, "md">>, tag, live[n])
               /\ live' = [live EXCEPT ![n] = None]
    /\ UNCHANGED <<superseded, captured, lock, day>>

DecayDone(p) ==
    /\ At(p, "decay")
    /\ job[p].todo = {}
    /\ Become(p, [NoJob EXCEPT !.pc = "dedup", !.todo = LiveNames])
    /\ UNCHANGED <<fileVars, lock, day>>

\* The live files, other than n, whose content is near-identical to n's.
\* Mutant: the new file is left in the corpus it is compared with.
DuplicatesWithItself(n) ==
    IF live[n] = None THEN {} ELSE {o \in LiveNames : live[o].topic = live[n].topic}
Duplicates(n) ==
    IF live[n] = None THEN {}
    ELSE {o \in LiveNames \ {n} : live[o].topic = live[n].topic}

\* dedup_against_corpus up to the answer of the embedding backend: the next
\* file counts as the new one, whatever its age.
DedupRead(p) ==
    /\ At(p, "dedup")
    /\ \E n \in Names :
         /\ IsFirst(n, job[p].todo)
         /\ LET rest == [job[p] EXCEPT !.todo = @ \ {n}]
            IN Become(p, IF Duplicates(n) = {} THEN rest
                         ELSE [rest EXCEPT !.pc = "superseding", !.file = n,
                                           !.picked = Duplicates(n) \X {"md"}])
    /\ UNCHANGED <<fileVars, lock, day>>

\* supersede: rename the file unless it is gone or its .superseded exists.
\* Mutant: os.rename over the earlier .superseded.
SupersedableAlways(o) == live[o] # None
Supersedable(o) == live[o] # None /\ superseded[o] = None

Supersede(p) ==
    /\ At(p, "superseding")
    /\ \E path \in job[p].picked :
         LET o == path[1] IN
         /\ Become(p, IF job[p].picked = {path}
                      THEN [job[p] EXCEPT !.picked = {}, !.pc = "dedup", !.file = None]
                      ELSE [job[p] EXCEPT !.picked = @ \ {path}])
         /\ IF Supersedable(o)
            THEN /\ superseded' = [superseded EXCEPT ![o] = StubOf(live[o])]
                 /\ live' = [live EXCEPT ![o] = None]
            ELSE UNCHANGED <<live, superseded>>
    /\ UNCHANGED <<archive, captured, lock, day>>

DedupDone(p) ==
    /\ At(p, "dedup")
    /\ job[p].todo = {}
    /\ Become(p, NoJob)
    /\ UNCHANGED <<fileVars, lock, day>>
-----------------------------------------------------------------------------
(* The prune tool: list the candidates, then move them one by one.         *)

\* Unpinned, and superseded or untouched for AgeDays.  Mutant: pins are not checked.
CandidateEvenPinned(path) ==
    LET d == AtPath(path) IN
    IF d = None THEN FALSE ELSE path[2] = "md" => day - d.mtime > AgeDays
IsCandidate(path) ==
    LET d == AtPath(path) IN
    IF d = None THEN FALSE
    ELSE ~d.pinned /\ (path[2] = "md" => day - d.mtime > AgeDays)

PruneIdentify(p) ==
    /\ At(p, "idle")
    /\ Become(p, [job[p] EXCEPT !.pc = "pruning",
                                 !.picked = {path \in Paths : IsCandidate(path)}])
    /\ UNCHANGED <<fileVars, lock, day>>

PruneMove(p) ==
    /\ At(p, "pruning")
    /\ \E path \in job[p].picked :
         LET tag == IF InArchive(path, Plain) THEN <<"time", Cardinality(archive)>> ELSE Plain
         IN /\ Become(p, [job[p] EXCEPT !.picked = @ \ {path}])
            /\ IF AtPath(path) = None THEN UNCHANGED <<live, superseded, archive>>
               ELSE /\ archive' = Deposit(path, tag, AtPath(path))
                    /\ IF path[2] = "md"
                       THEN /\ live' = [live EXCEPT ![path[1]] = None]
                            /\ UNCHANGED superseded
                       ELSE /\ superseded' = [superseded EXCEPT ![path[1]] = None]
                            /\ UNCHANGED live
    /\ UNCHANGED <<captured, lock, day>>

PruneDone(p) ==
    /\ At(p, "pruning")
    /\ job[p].picked = {}
    /\ Become(p, NoJob)
    /\ UNCHANGED <<fileVars, lock, day>>
-----------------------------------------------------------------------------
\* A process is killed: the kernel drops its flock, the files stay as they are.
Kill(p) ==
    /\ ~At(p, "idle")
    /\ Become(p, NoJob)
    /\ lock' = [n \in Names |-> IF lock[n] = p THEN None ELSE lock[n]]
    /\ UNCHANGED <<fileVars, day>>

NewDay ==
    /\ day < MaxDay
    /\ day' = day + 1
    /\ UNCHANGED <<fileVars, lock, job>>

EditorStep(p) == \E n \in Names, e \in Edits : EditStart(p, n, e)
RewriteStep(p) == RewriteMissing(p) \/ LockAndRead(p) \/ Replace(p)
DecayStep(p) == DecayRead(p) \/ DecayArchive(p) \/ DecayDone(p)
DedupStep(p) == DedupRead(p) \/ Supersede(p) \/ DedupDone(p)
PruneStep(p) == PruneIdentify(p) \/ PruneMove(p) \/ PruneDone(p)
CaptureStep(p) ==
    \/ \E n \in Names : CaptureCheck(p, n)
    \/ \E t \in Topics, i \in Importances : CaptureWrite(p, t, i)

Next ==
    \/ \E p \in Editors : EditorStep(p) \/ RewriteStep(p) \/ Kill(p)
    \/ \E p \in Janitors : HygieneStart(p) \/ DecayStep(p) \/ RewriteStep(p)
                             \/ DedupStep(p) \/ Kill(p)
    \/ \E p \in Pruners : PruneStep(p) \/ Kill(p)
    \/ \E p \in Writers : CaptureStep(p) \/ DedupStep(p) \/ Kill(p)
    \/ NewDay

Spec == Init /\ [][Next]_vars
-----------------------------------------------------------------------------
(* Properties                                                              *)

\* Every variable and every process's local state has its type.
TypeOK ==
    /\ live \in [Names -> Document \union {None}]
    /\ superseded \in [Names -> Stub \union {None}]
    /\ archive \subseteq [path: Paths, tag: ArchiveTags, id: Nat]
    /\ lock \in [Names -> Procs \union {None}]
    /\ day \in Nat
    /\ captured \in Nat
    /\ job \in [Procs -> Job]

\* The read-modify-write of atomic_frontmatter_rewrite is isolated: between
\* its read and its os.replace nobody else edits the document (it may be
\* moved away, by the renames that take no lock, or replaced by a new capture).
RewriteIsolated ==
    \A p \in Procs : At(p, "locked") =>
        LET d == live[job[p].file] IN
        \/ d = None
        \/ d.id # job[p].body.id
        \/ d = job[p].body

\* The document at n stays there from this state to the next.
Stays(n) == live[n] # None /\ live'[n] # None /\ live'[n].id = live[n].id

\* A pin is lost only to a pin_discovery call that unpins: no score edit,
\* feedback or decay writes back a frontmatter read before the pin.
PinStep ==
    \A n \in Names : (Stays(n) /\ live[n].pinned /\ ~live'[n].pinned) =>
        \E p \in Editors : /\ At(p, "locked")
                           /\ job[p].file = n
                           /\ job[p].edit.pinned = FALSE
PinSticky == [][PinStep]_vars

\* The idempotency mark of decay (last_decay_date) of a document never goes
\* back, so that no edit re-opens a day that was already decayed.
DecayDateMonotone ==
    [][\A n \in Names : Stays(n) => live'[n].decayed >= live[n].decayed]_vars

\* Document i is live, superseded or archived.
Kept(i) ==
    \/ \E n \in LiveNames : live[n].id = i
    \/ \E n \in Names : superseded[n] # None /\ superseded[n].id = i
    \/ \E a \in archive : a.id = i

\* A file is superseded only next to a live near-duplicate.
SurvivorStep ==
    \A o \in Names : (superseded[o] = None /\ superseded'[o] # None) =>
        \E n \in Names \ {o} : live'[n] # None /\ live'[n].topic = superseded'[o].topic

\* What dedup.py says: the newer of two duplicates stays as the canonical record.
NewerWins ==
    [][\A o \in Names : (superseded[o] = None /\ superseded'[o] # None) =>
          \E n \in Names \ {o} : /\ live'[n] # None
                                 /\ live'[n].topic = superseded'[o].topic
                                 /\ live'[n].id > superseded'[o].id]_vars

\* What decay.py says: concurrent edits are safe, so the salience the decay
\* pass is about to write is the decay of the salience the file has.
DecayKeepsEdits ==
    \A p \in Janitors : At(p, "locked") =>
        job[p].edit.salience = Decayed(job[p].body)
=============================================================================
