---------------------------- MODULE SessionLinks ----------------------------
(***************************************************************************)
(* The edges between sessions in the knowledge graph                       *)
(* (graph/session_entity_linker.py, TemporalSessionLinker of               *)
(* graph/linker.py): runs that read the events and the edges and link the  *)
(* sessions that have no edge yet, by the loop of the server               *)
(* (_session_link_loop of mcp/server.py) and by the command                *)
(* (graph/rebuild_session_links.py), while sessions publish; the nights on *)
(* which the loop runs; and the merging of entities (graph/dedup.py).      *)
(*                                                                         *)
(* Each call of the SQLite store is an action.  The JSON store rewrites    *)
(* one file from memory, which EventFabric models.                         *)
(***************************************************************************)
EXTENDS Integers, Sequences, FiniteSets, FiniteSetsExt, SequencesExt

CONSTANTS
    Linkers,      \* processes that run the linker
    SessionIds,
    Words,
    MinOverlap,   \* DEPTHFUSION_SESSION_MIN_OVERLAP
    Window,       \* DEPTHFUSION_SESSION_WINDOW_HOURS
    Day,          \* ticks of a day
    Target,       \* the tick of a day at which the loop is to run
    LastDay,      \* bound: days
    MaxPublished, \* bound: events
    MaxLinkKills, \* bound: runs that die
    MergeBound    \* bound: entities that are merged

ASSUME SessionLinksBounds ==
    /\ {MinOverlap, Window, LastDay, MaxPublished, MaxLinkKills, MergeBound} \subseteq Nat
    /\ MinOverlap > 0 /\ Day \in Nat \ {0} /\ Target \in 1..Day - 1

VARIABLES
    published,  \* the events, in order: [session, words]
    preceded,   \* the PRECEDED_BY edges: <<later, earlier>>
    linker,     \* where each run is
    owed,       \* history: pairs that a complete run found unlinked and alike, while no
                \* run worked on other events
    settled,    \* history: a run ended, alone and with all events seen, and none came since
    linkKills,  \* runs that died
    loop        \* the thread of the server: [pc, tick, wake, nights]

linkVars == <<published, preceded, linker, owed, settled, linkKills>>
sessionVars == <<linkVars, loop>>

NotLinking == [pc |-> "idle"]

SessionInit ==
    /\ published = <<>> /\ preceded = {}
    /\ linker = [r \in Linkers |-> NotLinking]
    /\ owed = {} /\ settled = FALSE /\ linkKills = 0
    /\ loop = [pc |-> "plan", tick |-> 0, wake |-> 0, nights |-> {}]

-----------------------------------------------------------------------------
(* Sessions as their events tell them: get_sessions_from_events.           *)

EventsOf(past, s) == {i \in DOMAIN past : past[i].session = s}
Known(past) == {s \in SessionIds : EventsOf(past, s) # {}}
Vocabulary(past, s) == UNION {past[i].words : i \in EventsOf(past, s)}
Begins(past, s) == Min(EventsOf(past, s))

Publish(s, words) ==
    /\ Len(published) < MaxPublished
    /\ published' = Append(published, [session |-> s, words |-> words])
    /\ settled' = FALSE
    /\ UNCHANGED <<preceded, linker, owed, linkKills>>

\* TemporalSessionLinker.link.
Alike(past, a, b) ==
    /\ a # b
    /\ Cardinality(Vocabulary(past, a) \intersect Vocabulary(past, b)) >= MinOverlap
    /\ Begins(past, a) - Begins(past, b) \in -Window..Window
Edge(past, a, b) == IF Begins(past, a) < Begins(past, b) THEN <<b, a>> ELSE <<a, b>>

\* link_all.  Mutant: each session with the first one only.
LinkFirst(past, open) ==
    {Edge(past, p[1], p[2]) : p \in {q \in open \X open :
        Alike(past, q[1], q[2]) /\ \A s \in open : Begins(past, q[1]) <= Begins(past, s)}}
LinkAll(past, open) ==
    {Edge(past, p[1], p[2]) : p \in {q \in open \X open : Alike(past, q[1], q[2])}}

\* The edges that are due between sessions without one.
DueBetween(past, open) ==
    {<<b, a>> : <<a, b>> \in {p \in open \X open :
        Alike(past, p[1], p[2]) /\ Begins(past, p[1]) < Begins(past, p[2])}}

-----------------------------------------------------------------------------
(* A run.                                                                  *)

\* get_edges finds the edges in both directions.  Mutant: it finds none.
HasEdgeNever(s) == FALSE
HasEdge(s) == \E e \in preceded : s \in {e[1], e[2]}

\* Another run works on other events.
Differs(r) == \E q \in Linkers \ {r} : linker[q] # NotLinking /\ linker[q].seen # published

ReadEvents(r) ==
    LET open == {s \in Known(published) : ~\E e \in preceded : s \in {e[1], e[2]}} IN
    /\ linker[r] = NotLinking
    /\ linker' = [q \in Linkers |->
          IF q = r
          THEN [pc |-> "check", seen |-> published, left |-> Known(published), open |-> {},
                due |-> IF Differs(r) THEN {} ELSE DueBetween(published, open),
                again |-> settled]
          ELSE IF linker[q] # NotLinking /\ linker[q].seen # published
               THEN [linker[q] EXCEPT !.due = {}] ELSE linker[q]]
    /\ UNCHANGED <<published, preceded, owed, settled, linkKills>>

\* get_unlinked_sessions asks for the edges of one session after the other.
CheckSession(r) ==
    /\ linker[r].pc = "check"
    /\ \E s \in linker[r].left :
          linker' = [linker EXCEPT ![r].left = @ \ {s},
                                   ![r].open = IF HasEdge(s) THEN @ ELSE @ \union {s}]
    /\ UNCHANGED <<published, preceded, owed, settled, linkKills>>

Pair(r) ==
    /\ linker[r].pc = "check" /\ linker[r].left = {}
    /\ linker' = [linker EXCEPT ![r] =
          [pc |-> "upsert", seen |-> @.seen, due |-> @.due, again |-> @.again,
           pending |-> LinkAll(@.seen, @.open)]]
    /\ UNCHANGED <<published, preceded, owed, settled, linkKills>>

UpsertEdge(r) ==
    /\ linker[r].pc = "upsert"
    /\ \E e \in linker[r].pending :
          /\ preceded' = preceded \union {e}
          /\ linker' = [linker EXCEPT ![r].pending = @ \ {e}]
    /\ UNCHANGED <<published, owed, settled, linkKills>>

EndRun(r) ==
    /\ linker[r].pc = "upsert" /\ linker[r].pending = {}
    /\ linker' = [linker EXCEPT ![r] = NotLinking]
    /\ owed' = owed \union linker[r].due
    /\ settled' = (/\ linker[r].seen = published
                   /\ \A q \in Linkers \ {r} : linker[q] = NotLinking)
    /\ UNCHANGED <<published, preceded, linkKills>>

KillRun(r) ==
    /\ linker[r] # NotLinking /\ linkKills < MaxLinkKills
    /\ linkKills' = linkKills + 1
    /\ linker' = [linker EXCEPT ![r] = NotLinking]
    /\ UNCHANGED <<published, preceded, owed, settled>>

LinkNext ==
    \/ \E s \in SessionIds, words \in SUBSET Words \ {{}} : Publish(s, words)
    \/ \E r \in Linkers :
          \/ ReadEvents(r) \/ CheckSession(r) \/ Pair(r) \/ UpsertEdge(r)
          \/ EndRun(r) \/ KillRun(r)

-----------------------------------------------------------------------------
(* The loop of the server.                                                 *)

\* The tick of the next 03:15, today's only if it is still to come.
NextTarget(tick) ==
    LET today == (tick \div Day) * Day + Target
    IN  IF today > tick THEN today ELSE today + Day

\* What it sleeps after a run.  Mutant: two days.
RestTwo == 2 * Day
Rest == Day

Plan ==
    /\ loop.pc = "plan"
    /\ loop' = [loop EXCEPT !.pc = "sleep", !.wake = NextTarget(loop.tick)]
StartNight ==
    /\ loop.pc = "sleep" /\ loop.tick = loop.wake
    /\ loop' = [loop EXCEPT !.pc = "run", !.nights = @ \union {loop.tick \div Day}]
EndNight ==
    /\ loop.pc = "run"
    /\ loop' = [loop EXCEPT !.pc = "rest", !.wake = loop.tick + Rest]
Rested ==
    /\ loop.pc = "rest" /\ loop.tick = loop.wake
    /\ loop' = [loop EXCEPT !.pc = "plan"]
\* A run takes less than the rest of its day.
Pass ==
    /\ loop.tick < LastDay * Day
    /\ CASE loop.pc = "plan" -> FALSE
         [] loop.pc = "run" -> (loop.tick + 1) % Day # 0
         [] OTHER -> loop.tick < loop.wake
    /\ loop' = [loop EXCEPT !.tick = @ + 1]
LoopNext == Plan \/ StartNight \/ EndNight \/ Rested \/ Pass

SessionNext == (LinkNext /\ UNCHANGED loop) \/ (LoopNext /\ UNCHANGED linkVars)
SessionSpec == SessionInit /\ [][SessionNext]_sessionVars
-----------------------------------------------------------------------------
(* Entities that differ in the spelling of their names only become one.    *)

\* acl_allow: the readers that a list names, or no list, which lets everybody read
\* (_graph_entity_allowed of graph/traverser.py).
NoList == [listed |-> FALSE, allow |-> {}]
ListOf(readers) == [listed |-> TRUE, allow |-> readers]
MayRead(acl, p) == acl.listed => p \in acl.allow

\* _merge_into: a missing list is taken as an empty one, and two that name nobody leave
\* the first as it is.  Mutant: whoever may see one of them may see the merged one.
JoinedAcl(a, b) == ListOf(a.allow \union b.allow)
MergedAcl(a, b) ==
    IF a.allow = {} /\ b.allow = {} THEN a ELSE ListOf(a.allow \intersect b.allow)

\* deduplicate: entities [id, name, acl, seen], each merged into the first of its name.
Deduplicated(entities) ==
    LET names == [i \in DOMAIN entities |-> entities[i].name]
        firsts == {i \in DOMAIN entities : \A j \in 1..i - 1 : names[j] # names[i]}
        Same(i) == {j \in DOMAIN entities : names[j] = names[i]}
        Acl(i) == FoldSet(LAMBDA j, acl : MergedAcl(acl, entities[j].acl),
                          entities[i].acl, Same(i) \ {i})
    IN  {[id |-> entities[i].id, acl |-> Acl(i),
          absorbed |-> {entities[j].id : j \in Same(i) \ {i}},
          seen |-> Min({entities[j].seen : j \in Same(i)})] : i \in firsts}

-----------------------------------------------------------------------------
SessionTypeOK ==
    /\ preceded \subseteq SessionIds \X SessionIds
    /\ \A i \in DOMAIN published : published[i].session \in SessionIds
    /\ \A r \in Linkers : linker[r].pc \in {"idle", "check", "upsert"}
    /\ owed \subseteq SessionIds \X SessionIds
    /\ loop.tick \in 0..LastDay * Day /\ loop.pc \in {"plan", "sleep", "run", "rest"}

\* What a complete run found unlinked and alike is linked once no run is going on, even if
\* another ran at the same time on the same events.  (On other events it may link one of
\* a pair first, and the pair is left out for ever; so it is by a run that dies.)
\* (get_unlinked_sessions and link_and_upsert of two processes.)
DueIsLinked ==
    linkKills = 0 /\ (\A r \in Linkers : linker[r] = NotLinking) => owed \subseteq preceded

\* A run after a complete one, with nothing published in between, has nothing to do.
\* (rebuild_session_links.py: "Designed to be idempotent".)
RunsAgain ==
    \A r \in Linkers : linker[r].pc = "upsert" /\ linker[r].again => linker[r].pending = {}

\* No two sessions precede each other: who is later is told by events that all runs see.
OneDirection == \A e \in preceded : <<e[2], e[1]>> \notin preceded

\* The loop misses no two nights in a row; after each run it does miss one.
EverySecondNight ==
    \A d \in 1..(loop.tick \div Day) - 2 : d \in loop.nights \/ d + 1 \in loop.nights

\* Merging gives nobody access to what he could not see, and loses no entity.  It does
\* give access where the first has no list and no list of the others names a reader:
\* a closed entity is then open to all.
\* (dedup.py: "acl_allow: INTERSECTION (fail-closed)".)
MergeIsClosed ==
    \A n \in 0..MergeBound : \A names \in [1..n -> 1..2],
       acls \in [1..n -> {NoList} \union {ListOf(r) : r \in SUBSET {1, 2}}] :
       LET entities == [i \in 1..n |->
              [id |-> i, name |-> names[i], acl |-> acls[i], seen |-> (2 * i) % 3]]
           merged == Deduplicated(entities)
           Opens(m) == /\ acls[m.id] = NoList
                       /\ \A j \in m.absorbed : acls[j].allow = {}
       IN  /\ \A i \in 1..n : \E m \in merged :
                 /\ i = m.id \/ i \in m.absorbed
                 /\ \A p \in 1..2 : MayRead(m.acl, p) => Opens(m) \/ MayRead(acls[i], p)
                 /\ m.seen <= entities[i].seen
           /\ Cardinality(merged) = Cardinality({names[i] : i \in 1..n})

LinksSound == DueIsLinked /\ RunsAgain /\ OneDirection /\ EverySecondNight /\ MergeIsClosed
=============================================================================
