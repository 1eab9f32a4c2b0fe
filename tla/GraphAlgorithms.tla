--------------------------- MODULE GraphAlgorithms ----------------------------
(***************************************************************************)
(* Two algorithms on graphs whose result is easy to get wrong: the walk    *)
(* with an access filter, and the union-find that makes scenarios.         *)
(***************************************************************************)
EXTENDS Naturals, FiniteSets

-----------------------------------------------------------------------------
(***************************************************************************)
(* The walk over the knowledge graph (graph/traverser.py, traverse) for a  *)
(* principal who may not see every entity.  Edges that the relationship    *)
(* filter or the time window leaves out are not in `links`; an edge may    *)
(* name an entity the store does not have.                                 *)
(***************************************************************************)

CONSTANTS
    Entities,    \* ids that edges name
    Origin,      \* where the walk starts
    MaxHops      \* bound: the depth asked for

ASSUME OriginAssumption == Origin \in Entities /\ MaxHops \in Nat

VARIABLES
    links,       \* the edges that are followed, each a set of its ends
    known,       \* the entities in the store
    visible,     \* those the principal may see
    depth,       \* the hops asked for
    hop,         \* the hops that are complete
    frontier,    \* entities of this hop still to be expanded
    nextFrontier,
    visited,
    connected    \* the result

walkVars == <<links, known, visible, depth, hop, frontier, nextFrontier, visited,
              connected>>

Edges == {e \in SUBSET Entities : Cardinality(e) \in {1, 2}}

\* With an origin that is missing or hidden, traverse returns at once.
WalkInit ==
    /\ links \in SUBSET {e \in Edges : Cardinality(e) = 2}
    /\ known \in {k \in SUBSET Entities : Origin \in k}
    /\ visible \in {v \in SUBSET known : Origin \in v}
    /\ depth \in 0..MaxHops
    /\ hop = 0
    /\ frontier = {Origin}
    /\ nextFrontier = {}
    /\ visited = {Origin}
    /\ connected = {}

Neighbours(e) == {n \in Entities : n # e /\ {n, e} \in links}
Fresh(e) == (Neighbours(e) \intersect known) \ visited

\* Mutant: the walk goes on through an entity that the principal may not see.
PassesHidden(e) == Fresh(e)
Passes(e) == Fresh(e) \intersect visible

\* The edges of one entity.  A hidden neighbour is marked visited, and not passed through.
ExpandEntity(e) ==
    /\ hop < depth
    /\ e \in frontier
    /\ frontier' = frontier \ {e}
    /\ connected' = connected \union (Fresh(e) \intersect visible)
    /\ nextFrontier' = nextFrontier \union Passes(e)
    /\ visited' = visited \union Fresh(e)
    /\ UNCHANGED <<links, known, visible, depth, hop>>

NextHop ==
    /\ hop < depth
    /\ frontier = {}
    /\ hop' = hop + 1
    /\ frontier' = nextFrontier
    /\ nextFrontier' = {}
    /\ UNCHANGED <<links, known, visible, depth, visited, connected>>

WalkNext == NextHop \/ \E e \in Entities : ExpandEntity(e)

WalkSpec == WalkInit /\ [][WalkNext]_walkVars

WalkDone == hop = depth

-----------------------------------------------------------------------------
WalkTypeOK ==
    /\ links \subseteq Edges
    /\ known \subseteq Entities /\ visible \subseteq known
    /\ depth \in 0..MaxHops /\ hop \in 0..depth
    /\ frontier \subseteq visible /\ nextFrontier \subseteq visible
    /\ Origin \in visited /\ visited \subseteq known
    /\ connected \subseteq visible

\* What the principal can reach from the origin in n steps, seeing every entity on the way.
Ball[n \in 0..(MaxHops + 1)] ==
    IF n = 0 THEN {Origin}
    ELSE LET inner == Ball[n - 1]
         IN  inner \union {e \in visible : \E i \in inner : {i, e} \in links}

\* Whatever the order in which a hop's entities are expanded, nothing is reported that
\* cannot be reached over visible entities within the hops used so far, and what can be
\* reached so in the hops that are complete is reported.
\* (visited and next_frontier in traverse.)
WalkIsExact ==
    IF WalkDone THEN connected = Ball[depth] \ {Origin}
    ELSE Ball[hop] \ {Origin} \subseteq connected /\ connected \subseteq Ball[hop + 1] \ {Origin}

-----------------------------------------------------------------------------
(***************************************************************************)
(* The clustering of memories into scenarios (cognitive/scenario.py,       *)
(* _cluster_memories): a union-find over all pairs, in order, of memories  *)
(* that are within a day of each other and similar.  find halves the paths *)
(* it walks, one link per step here.                                       *)
(***************************************************************************)

CONSTANT Count    \* how many memories there are

ASSUME CountAssumption == Count \in Nat \ {0}

Indices == 1..Count
Pairs == {p \in Indices \X Indices : p[1] < p[2]}

VARIABLES
    similar,     \* the pairs within the time window and above the threshold
    parent,      \* the forest
    pair,        \* the pair being looked at, or the index being grouped
    phase,       \* what is under way
    walk         \* the positions of the two finds

clusterVars == <<similar, parent, pair, phase, walk>>

ClusterInit ==
    /\ similar \in SUBSET Pairs
    /\ parent = [i \in Indices |-> i]
    /\ pair = <<1, 1>>
    /\ phase = "next"
    /\ walk = <<1, 1>>

\* The pairs in the order of the two loops.
Later(p, q) == p[1] < q[1] \/ (p[1] = q[1] /\ p[2] < q[2])
IsNextPair(q) ==
    /\ q \in Pairs /\ Later(pair, q)
    /\ \A r \in Pairs : Later(pair, r) => r = q \/ Later(q, r)

\* A pair that fails the time window or the threshold is passed over.
NextPair ==
    /\ phase = "next"
    /\ \E q \in Pairs :
          /\ IsNextPair(q)
          /\ pair' = q
          /\ walk' = q
          /\ phase' = IF q \in similar THEN "find" ELSE "next"
    /\ UNCHANGED <<similar, parent>>

\* One round of find for the first or the second of the pair.
FindStep(k) ==
    /\ phase \in {"find", "group"}
    /\ k = 2 => phase = "find" /\ parent[walk[1]] = walk[1]
    /\ LET x == walk[k] IN
          /\ parent[x] # x
          /\ parent' = [parent EXCEPT ![x] = parent[parent[x]]]
          /\ walk' = [walk EXCEPT ![k] = parent'[x]]
    /\ UNCHANGED <<similar, pair, phase>>

Found == parent[walk[1]] = walk[1] /\ parent[walk[2]] = walk[2]

\* Mutant: the memory is linked, not the root that was found for it.
LinkIndex ==
    /\ phase = "find" /\ Found
    /\ parent' = IF walk[1] = walk[2] THEN parent ELSE [parent EXCEPT ![pair[1]] = walk[2]]
    /\ phase' = "next"
    /\ UNCHANGED <<similar, pair, walk>>
Link ==
    /\ phase = "find" /\ Found
    /\ parent' = IF walk[1] = walk[2] THEN parent ELSE [parent EXCEPT ![walk[1]] = walk[2]]
    /\ phase' = "next"
    /\ UNCHANGED <<similar, pair, walk>>

\* After the last pair each memory is put in the group of its root.
Group(i) ==
    /\ pair' = <<i, i>>
    /\ walk' = <<i, i>>
    /\ phase' = "group"
    /\ UNCHANGED <<similar, parent>>

StartGrouping ==
    /\ phase = "next"
    /\ \A q \in Pairs : ~Later(pair, q)
    /\ Group(1)

GroupNext ==
    /\ phase = "group" /\ parent[walk[1]] = walk[1]
    /\ pair[1] < Count
    /\ Group(pair[1] + 1)

ClusterNext ==
    \/ NextPair \/ Link \/ StartGrouping \/ GroupNext
    \/ \E k \in {1, 2} : FindStep(k)

ClusterSpec == ClusterInit /\ [][ClusterNext]_clusterVars

-----------------------------------------------------------------------------
ClusterTypeOK ==
    /\ similar \subseteq Pairs
    /\ parent \in [Indices -> Indices]
    /\ pair \in Indices \X Indices /\ walk \in Indices \X Indices
    /\ phase \in {"next", "find", "group"}

\* What find returns for i.
Above[n \in 0..Count, i \in Indices] == IF n = 0 THEN i ELSE parent[Above[n - 1, i]]
Root(i) == Above[Count, i]

\* The pairs that have been looked at, and what they connect.
Merged == {p \in similar : Later(p, pair) \/ (p = pair /\ phase = "next") \/ phase = "group"}
Linked(i, j) == <<i, j>> \in Merged \/ <<j, i>> \in Merged
Near[n \in 0..(Count - 1), i \in Indices] ==
    IF n = 0 THEN {i}
    ELSE LET nearer == Near[n - 1, i]
         IN  nearer \union {j \in Indices : \E k \in nearer : Linked(k, j)}

\* At every step of the loops two memories have the same root exactly if the pairs seen
\* so far connect them, so a scenario is a component of the similarity relation, however
\* the paths were halved meanwhile.  (find, union and the grouping in _cluster_memories.)
RootsAreComponents ==
    \A i \in Indices : Near[Count - 1, i] = {j \in Indices : Root(j) = Root(i)}
=============================================================================
