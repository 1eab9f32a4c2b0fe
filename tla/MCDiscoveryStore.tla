-------------------------- MODULE MCDiscoveryStore --------------------------
(***************************************************************************)
(* DiscoveryStore on small instances.  A scenario, chosen in the initial   *)
(* state, says who is at work: "hygiene" is the nightly job against edits  *)
(* on one day, "prune" is captures against the prune tool over three days, *)
(* and in "crossing" editors, the nightly job and captures are at work on  *)
(* one day.  Two history variables: guarded[p] are the documents that were *)
(* pinned when p's job began and ever since; displaced are those whose     *)
(* file another document took, see Displaced.                              *)
(***************************************************************************)
EXTENDS DiscoveryStore

CONSTANTS
    Scenarios,
    Crossing     \* who is at work in "crossing"

VARIABLES scenario, guarded, displaced

Active(s) ==
    CASE s = "hygiene" -> Editors \union Janitors
      [] s = "crossing" -> Crossing
      [] OTHER -> Pruners \union Writers
LastDay(s) == IF s = "prune" THEN MaxDay ELSE 1

\* Bounds in "crossing": captures, and files in the archive.
LastCapture(s) == IF s = "crossing" THEN 2 ELSE MaxCaptures
MaxArchived == 2

Doc(i, t, imp, sal, pin, m) ==
    [id |-> i, topic |-> t, importance |-> imp, salience |-> sal, pinned |-> pin,
     decayed |-> 0, mtime |-> m]

\* Two near-duplicates, named in the order of capture, the first of which may be about to
\* be archived by decay (a feedback brings either there).
SmallCorpus ==
    {Doc(1, "auth", 50, s, FALSE, 1) : s \in {5, 100}} \union {Doc(2, "auth", 50, 100, FALSE, 1)}

\* For captures and prune: aged and pinned files in two topics.
AgedCorpus ==
    {Doc(i, t, 50, 100, pin, 1) : i \in 1..2, t \in Topics, pin \in BOOLEAN}

\* For "crossing": one document, which decay is about to archive.
CrossedCorpus == {Doc(1, "auth", 50, 5, FALSE, 1)}

CorpusOf(s) ==
    CASE s = "hygiene" -> SmallCorpus [] s = "prune" -> AgedCorpus [] OTHER -> CrossedCorpus
AnyCorpus == SmallCorpus \union AgedCorpus

Pin(b) == [NoEdit EXCEPT !.pinned = b]
SetSalience(s) == [NoEdit EXCEPT !.salience = s]
Feedback(delta) == [NoEdit EXCEPT !.delta = delta]
SmallEdits == {Pin(TRUE), Pin(FALSE), Feedback(-100)}
EditsOf(s) == IF s = "crossing" THEN {Feedback(-100)} ELSE Edits

CopyIds(pin) ==
    UNION {{d.id : d \in {e \in {live[n], superseded[n]} \ {None} : e.pinned = pin}} : n \in Names}
Pinned == CopyIds(TRUE) \ CopyIds(FALSE)

\* The documents whose file another document takes in this step: an edit puts its own one
\* back at a name that is another's by now, or a move into the archive replaces a file
\* that is there already under the name and the date.
Displaced ==
    {live[n].id : n \in {m \in LiveNames : /\ live'[m] # None /\ live'[m].id # live[m].id
                                           /\ \E p \in Procs : /\ At(p, "locked")
                                                               /\ job[p].file = m
                                                               /\ live'[m].id = job[p].body.id}}
      \union ({a.id : a \in archive} \ {a.id : a \in archive'})

MCInit ==
    /\ scenario \in Scenarios
    /\ Init
    /\ \A n \in LiveNames : live[n] \in CorpusOf(scenario)
    /\ scenario = "hygiene" => \A n \in LiveNames : live[n].id = n
    /\ guarded = [p \in Procs |-> {}]
    /\ displaced = {}

MCNext ==
    /\ Next
    /\ UNCHANGED scenario
    /\ day' <= LastDay(scenario)
    /\ captured' <= LastCapture(scenario)
    /\ scenario = "crossing" => Cardinality(archive') <= MaxArchived
    /\ \A p \in Editors : job'[p].pc # "idle" => job'[p].edit \in EditsOf(scenario)
    /\ \A p \in Procs \ Active(scenario) : job'[p] = job[p]
    /\ guarded' = [p \in Procs |->
          IF job'[p].pc = "idle" THEN {}
          ELSE IF job[p].pc = "idle" THEN Pinned \intersect Pinned'
          ELSE guarded[p] \intersect Pinned']
    /\ displaced' = displaced \union Displaced

mcVars == <<vars, scenario, guarded, displaced>>
MCSpec == MCInit /\ [][MCNext]_mcVars

\* Superseding leaves a live near-duplicate of what it takes away: while nobody
\* prunes, a group of duplicates never disappears as a whole, though the decay pass
\* and edits move and put back the files (dedup_against_corpus, supersede).
OneSurvivor == [][scenario = "hygiene" => SurvivorStep]_mcVars

\* "NEVER deletes; moves only" (pruner.py): every document ever captured is live,
\* superseded or archived, whatever the moves, captures and edits that cross.  The one way
\* to lose it is that another document took its file (atomic_frontmatter_rewrite,
\* _archive_file), which needs all of them at work on one name.
NothingLost ==
    /\ \A i \in 1..captured : Kept(i) \/ i \in displaced
    /\ scenario # "crossing" => displaced = {}

\* A document pinned before a pass or a prune began, and pinned since, is not
\* archived by it: the checks that decay and prune make on what they read stay
\* true until the move (apply_decay, identify_candidates, prune_discoveries).
GuardedStays ==
    [][scenario # "crossing" =>
          \A a \in archive' \ archive : \A p \in Procs :
              job'[p] # job[p] => a.id \notin guarded[p]]_mcVars
=============================================================================
