----------------------------- MODULE EventFabric -----------------------------
(***************************************************************************)
(* The event fabric: core/event_store.py over a graph store               *)
(* (graph/store.py) and Redis Streams, and the subscribers of              *)
(* GET /v1/events/stream (api/events.py), and what the seeds and trails of *)
(* agents read back from the graph.  A write to the graph is one step,     *)
(* made under a flock of its project; SQLite writes one row.  The JSON     *)
(* store is read once, when a process starts, and written as a whole, in   *)
(* place: writers of two projects may leave a mixture.                     *)
(***************************************************************************)
EXTENDS Integers, Sequences, FiniteSets, Functions, SequencesExt

CONSTANTS
    Producers,    \* processes with an EventStore of their own
    Projects,      \* project slugs, each one a stream
    Contents,      \* contents of memories; content-addressed
    Watchers,      \* subscribers of the event stream
    Follows,       \* the projects a watcher asks for, in the order it names them
    Absent,        \* no such entity
    NoRef,         \* the content of an event that brings none
    Newest,        \* the id "$": what comes after the newest entry
    Sinces,        \* the ids that clients which received nothing yet connect with: 0, Newest
    Garbled,       \* a graph file that does not parse
    Stores,        \* the kinds of graph store considered: "sqlite", "json"
    BatchSize,     \* how many entries of a stream one XREAD returns at most
    MaxPublishes,  \* bound: calls of publish and publish_memory
    MaxDrops,      \* bound: connections of watchers that break
    MaxCrashes     \* bound: deaths of publishers

ASSUME FollowsAssumption ==
    /\ Follows \in [Watchers -> Seq(Projects)]
    /\ \A w \in Watchers : IsInjective(Follows[w])
ASSUME StoresAssumption == Stores \subseteq {"sqlite", "json"}
ASSUME ContentsAssumption == IsFiniteSet(Contents)
ASSUME RefAssumption == NoRef \notin Contents /\ Absent \notin Projects
ASSUME SincesAssumption == Newest \notin Nat /\ Sinces \subseteq {0, Newest}
ASSUME FabricBounds ==
    /\ BatchSize \in Nat \ {0}
    /\ MaxPublishes \in Nat
    /\ MaxDrops \in Nat
    /\ MaxCrashes \in Nat

VARIABLES
    store,       \* the kind of graph store in use
    graph,       \* what it has on disk
    graphCopy,   \* JSON: what each process read at its start and has changed since
    streams,     \* the Redis stream of each project
    publishing,  \* the call each process is executing
    returned,    \* the events whose call returned
    started,     \* how many calls there had been when each process started
    watch,       \* the connection of each watcher
    received,    \* what each watcher has received
    calls, drops, crashes

fabricVars == <<store, graph, graphCopy, streams, publishing, returned, started, watch,
                received, calls, drops, crashes>>

Event == [n: 1..MaxPublishes, by: Producers, project: Projects,
          refs: SUBSET Contents, content: Contents \union {NoRef}]
Graph == [memories: [Contents -> Projects \union {Absent}],
          events: SUBSET Event,
          edges: SUBSET ((1..MaxPublishes) \X Contents)]
Entry == [id: Nat, event: Event]
Publishing == [pc: {"idle"}] \union
              [pc: {"memory", "event", "edge", "notify"}, event: Event]
Position == Nat \union {Newest}
Connection == [open: BOOLEAN, since: {0, Newest}, last: Position,
               cursor: [Projects -> Position], waits: BOOLEAN, from: [Projects -> Nat],
               batch: Seq(Seq(Entry))]

EmptyGraph == [memories |-> [c \in Contents |-> Absent], events |-> {}, edges |-> {}]
Idle == [pc |-> "idle"]

\* What one XREAD returned: of each stream it was asked for, some entries.
NoBatch(w) == [k \in DOMAIN Follows[w] |-> <<>>]

\* A client that has received nothing and is not connected.
Unconnected(w, since) ==
    [open |-> FALSE, since |-> since, last |-> since, cursor |-> [r \in Projects |-> since],
     waits |-> FALSE, from |-> [r \in Projects |-> 0], batch |-> NoBatch(w)]

Publishes(p, pc) == publishing[p].pc = pc
Advance(p, pc) == publishing' = [publishing EXCEPT ![p].pc = pc]
Published(p) == publishing[p].event

FabricInit ==
    /\ store \in Stores
    /\ graph = EmptyGraph
    /\ graphCopy = [p \in Producers |-> EmptyGraph]
    /\ streams = [r \in Projects |-> <<>>]
    /\ publishing = [p \in Producers |-> Idle]
    /\ returned = [p \in Producers |-> {}]
    /\ started = [p \in Producers |-> 0]
    /\ \E since \in [Watchers -> Sinces] :
          watch = [w \in Watchers |-> Unconnected(w, since[w])]
    /\ received = [w \in Watchers |-> <<>>]
    /\ calls = 0 /\ drops = 0 /\ crashes = 0

(***************************************************************************)
(* The graph store as a process sees it, and a write to it.                *)
(***************************************************************************)
Rows == graph
View(p) == IF store = "json" THEN graphCopy[p] ELSE Rows

\* Mutant: the JSON store reads the file again and then writes what it read.
SaveForgets(p, g) ==
    /\ graph' = g
    /\ graphCopy' = [graphCopy EXCEPT ![p] = IF store = "json" THEN graph ELSE @]

\* The publishers that write: one of another project does not wait for p.
Saving(q) == publishing[q].pc \in {"memory", "event", "edge"}
Overlapping(p) == \E q \in Producers : Saving(q) /\ Published(q).project # Published(p).project

SaveWhole(p, g) ==
    /\ graph' = g \/ (Overlapping(p) /\ graph' = Garbled)
    /\ graphCopy' = [graphCopy EXCEPT ![p] = g]
SaveRow(g) == graph' = g /\ UNCHANGED graphCopy
Save(p, g) == IF store = "json" THEN SaveWhole(p, g) ELSE SaveRow(g)

Load(g) == IF g = Garbled THEN EmptyGraph ELSE g

(***************************************************************************)
(* publish_memory: whether the memory is there is looked up before and     *)
(* only reported.  publish: the caller names any memories, whether they    *)
(* are there or not.                                                       *)
(***************************************************************************)
StartWith(p, pc, r, refs, c) ==
    /\ Publishes(p, "idle")
    /\ calls < MaxPublishes
    /\ calls' = calls + 1
    /\ publishing' = [publishing EXCEPT ![p] =
          [pc |-> pc, event |-> [n |-> calls + 1, by |-> p, project |-> r, refs |-> refs,
                                 content |-> c]]]
    /\ UNCHANGED <<store, graph, graphCopy, streams, returned, started, watch, received, drops,
                   crashes>>

PublishMemory(p, r, c) == StartWith(p, "memory", r, {c}, c)

Publish(p, r) == \E refs \in SUBSET Contents : StartWith(p, "event", r, refs, NoRef)

\* An event of a tool call, without any memory.
PublishAmbientTrace(p, r) == StartWith(p, "event", r, {}, NoRef)

WriteMemory(p) ==
    /\ Publishes(p, "memory")
    /\ Save(p, [View(p) EXCEPT !.memories[Published(p).content] = Published(p).project])
    /\ Advance(p, "event")
    /\ UNCHANGED <<store, streams, returned, started, watch, received, calls, drops, crashes>>

\* Mutant: subscribers are notified before the event is in the graph.
WriteEventLate(p) ==
    /\ Publishes(p, "event")
    /\ Save(p, [View(p) EXCEPT !.events = @ \union {Published(p)}])
    /\ publishing' = [publishing EXCEPT ![p].pc = "edge"]
    /\ streams' = [streams EXCEPT ![Published(p).project] =
                     Append(@, [id |-> calls, event |-> Published(p)])]
    /\ UNCHANGED <<store, returned, started, watch, received, calls, drops, crashes>>
WriteEvent(p) ==
    /\ Publishes(p, "event")
    /\ Save(p, [View(p) EXCEPT !.events = @ \union {Published(p)}])
    /\ Advance(p, IF Published(p).refs = {} THEN "notify" ELSE "edge")
    /\ UNCHANGED <<store, streams, returned, started, watch, received, calls, drops, crashes>>

\* The memories named by the event to which it has no edge yet.
Unlinked(p) == {c \in Published(p).refs : <<Published(p).n, c>> \notin View(p).edges}

WriteEdge(p) ==
    /\ Publishes(p, "edge")
    /\ \E c \in Unlinked(p) :
          /\ Save(p, [View(p) EXCEPT !.edges = @ \union {<<Published(p).n, c>>}])
          /\ Advance(p, IF Unlinked(p) = {c} THEN "notify" ELSE "edge")
    /\ UNCHANGED <<store, streams, returned, started, watch, received, calls, drops, crashes>>

(***************************************************************************)
(* What is read back.  Of the time of an event counts which came before.   *)
(* (No code writes an AGENT_RECEIVED edge: nobody counts as an observer.)  *)
(***************************************************************************)
RecentEvents(g, rs, since) == {e \in g.events : e.project \in rs /\ e.n > since}

\* The memories that recent events of some projects refer to.
\* Mutant: those that themselves belong to one of the projects.
SeedMemoriesOf(g, rs, since) ==
    {c \in Contents : /\ g.memories[c] \in rs
                      /\ \E e \in RecentEvents(g, rs, since) : c \in e.refs}
SeedMemories(g, rs, since) ==
    {c \in Contents : /\ g.memories[c] # Absent
                      /\ \E e \in RecentEvents(g, rs, since) : c \in e.refs}
\* The best k of them, whatever their scores are.
SeedBundles(g, rs, since, k) ==
    LET found == SeedMemories(g, rs, since) IN
    {b \in SUBSET found :
        Cardinality(b) = IF k < Cardinality(found) THEN k ELSE Cardinality(found)}

\* The events of an agent, of one project or of all.
InTrail(e, agent, rs) == e.by = agent /\ e.project \in rs
Trail(g, agent, rs) == {e \in g.events : InTrail(e, agent, rs)}

(***************************************************************************)
(* XADD.  Entry ids are milliseconds and a number; they increase within a  *)
(* stream, and entries of two streams may have the same one.               *)
(***************************************************************************)
LastId(s) == IF s = <<>> THEN 0 ELSE s[Len(s)].id
NewIds(r) ==
    {n \in {LastId(streams[q]) + d : q \in Projects, d \in 0..1} :
        n > LastId(streams[r]) /\ \A q \in Projects : LastId(streams[q]) <= n}

Return(p) ==
    /\ returned' = [returned EXCEPT ![p] = @ \union {Published(p)}]
    /\ publishing' = [publishing EXCEPT ![p] = Idle]
    /\ UNCHANGED <<store, graph, graphCopy, started, watch, received, calls, drops, crashes>>

Notify(p) ==
    /\ Publishes(p, "notify")
    /\ \E n \in NewIds(Published(p).project) :
          streams' = [streams EXCEPT ![Published(p).project] =
                        Append(@, [id |-> n, event |-> Published(p)])]
    /\ Return(p)

\* The notification is best-effort.
NotifyFails(p) ==
    /\ Publishes(p, "notify")
    /\ Return(p)
    /\ UNCHANGED streams

(***************************************************************************)
(* A process dies and starts again.  The JSON store is truncated and       *)
(* written in place: a death inside _save leaves a garbled file, and who   *)
(* starts while another one writes finds one.                              *)
(***************************************************************************)
DieWith(p, g, found) ==
    /\ crashes < MaxCrashes
    /\ crashes' = crashes + 1
    /\ graph' = g
    /\ graphCopy' = [graphCopy EXCEPT ![p] = IF store = "json" THEN Load(found) ELSE @]
    /\ publishing' = [publishing EXCEPT ![p] = Idle]
    /\ started' = [started EXCEPT ![p] = calls]
    /\ UNCHANGED <<store, streams, returned, watch, received, calls, drops>>

ProducerDies(p) ==
    \/ DieWith(p, graph, graph)
    \/ store = "json" /\ (\E q \in Producers \ {p} : Saving(q)) /\ DieWith(p, graph, Garbled)
ProducerDiesInSave(p) == store = "json" /\ Saving(p) /\ DieWith(p, Garbled, Garbled)

(***************************************************************************)
(* A watcher.  It connects with the last entry id it received, or with the *)
(* id it began with, the server reads all its streams from there, and      *)
(* hands the entries on one by one.  "$" is sent again for a stream until  *)
(* an entry of it has been handed on: each XREAD then waits for what is    *)
(* added after it began.                                                   *)
(***************************************************************************)
Followed(w) == {Follows[w][k] : k \in DOMAIN Follows[w]}

\* The connection is moved on, and nothing else.
Moves(w, conn) ==
    /\ watch' = [watch EXCEPT ![w] = conn]
    /\ UNCHANGED <<store, graph, graphCopy, streams, publishing, returned, started, calls,
                   crashes>>

\* Mutant: the watcher asks for what comes after the newest entry.
ConnectToNewest(w) ==
    /\ ~watch[w].open
    /\ Moves(w, [watch[w] EXCEPT !.open = TRUE,
                                 !.cursor = [r \in Projects |-> LastId(streams[r])]])
    /\ UNCHANGED <<received, drops>>
Connect(w) ==
    /\ ~watch[w].open
    /\ Moves(w, [watch[w] EXCEPT !.open = TRUE,
                                 !.cursor = [r \in Projects |-> watch[w].last]])
    /\ UNCHANGED <<received, drops>>

\* The streams of which entries are still to be handed on.
Waiting(w) == {k \in DOMAIN watch[w].batch : watch[w].batch[k] # <<>>}

\* The position an XREAD that begins now reads a stream from.
Since(w, r) == IF watch[w].cursor[r] = Newest THEN LastId(streams[r]) ELSE watch[w].cursor[r]
XReadBegins(w) ==
    /\ watch[w].open /\ ~watch[w].waits
    /\ Waiting(w) = {}
    /\ Moves(w, [watch[w] EXCEPT !.waits = TRUE, !.from = [r \in Projects |-> Since(w, r)]])
    /\ UNCHANGED <<received, drops>>

\* How many entries of a stream are up to the position the server reads it from.
Passed(w, r) ==
    Cardinality({k \in DOMAIN streams[r] : streams[r][k].id <= watch[w].from[r]})
NewEntries(w, r) ==
    LET passed == Passed(w, r)
        end == passed + BatchSize
    IN  SubSeq(streams[r], passed + 1, IF end < Len(streams[r]) THEN end ELSE Len(streams[r]))
NextBatch(w) == [k \in DOMAIN Follows[w] |-> NewEntries(w, Follows[w][k])]

\* It has read: its position means nothing any more.
Read(conn, batch) ==
    [conn EXCEPT !.waits = FALSE, !.from = [r \in Projects |-> 0], !.batch = batch]

XRead(w) ==
    /\ watch[w].waits
    /\ NextBatch(w) # NoBatch(w)
    /\ Moves(w, Read(watch[w], NextBatch(w)))
    /\ UNCHANGED <<received, drops>>

\* Nothing came within the second it waits.
XReadTimesOut(w) ==
    /\ watch[w].waits
    /\ NextBatch(w) = NoBatch(w)
    /\ Moves(w, Read(watch[w], NoBatch(w)))
    /\ UNCHANGED <<received, drops>>

\* The connection when e, of the k-th stream, has been handed on.
HandedOn(conn, k, r, e) ==
    [conn EXCEPT !.batch[k] = Tail(@), !.cursor[r] = e.id, !.last = e.id]

\* Mutant: the position of the stream is not moved on, so XREAD returns an entry again.
YieldStays(w) ==
    /\ watch[w].open
    /\ \E k \in Waiting(w) : \E e \in {Head(watch[w].batch[k])} :
          /\ Moves(w, [watch[w] EXCEPT !.batch[k] = Tail(@), !.last = e.id])
          /\ received' = [received EXCEPT ![w] = Append(@, e)]
    /\ Len(received[w]) < 2 * MaxPublishes
    /\ UNCHANGED drops
Yield(w) ==
    /\ watch[w].open
    /\ \E k \in Waiting(w) : \E e \in {Head(watch[w].batch[k])} :
          /\ \A j \in Waiting(w) : k <= j
          /\ Moves(w, HandedOn(watch[w], k, Follows[w][k], e))
          /\ received' = [received EXCEPT ![w] = Append(@, e)]
    /\ UNCHANGED drops

\* The connection breaks; what was read and not handed on is gone.
Drop(w) ==
    /\ watch[w].open
    /\ drops < MaxDrops
    /\ drops' = drops + 1
    /\ Moves(w, [Read(watch[w], NoBatch(w)) EXCEPT !.open = FALSE])
    /\ UNCHANGED received

FabricNext ==
    \/ \E p \in Producers :
          \/ \E r \in Projects, c \in Contents : PublishMemory(p, r, c)
          \/ \E r \in Projects : Publish(p, r) \/ PublishAmbientTrace(p, r)
          \/ WriteMemory(p) \/ WriteEvent(p) \/ WriteEdge(p)
          \/ Notify(p) \/ NotifyFails(p)
          \/ ProducerDies(p) \/ ProducerDiesInSave(p)
    \/ \E w \in Watchers :
          \/ Connect(w) \/ XReadBegins(w) \/ XRead(w) \/ XReadTimesOut(w)
          \/ Yield(w) \/ Drop(w)

FabricSpec == FabricInit /\ [][FabricNext]_fabricVars

\* The server polls each open stream, and a client that lost it connects again.
FabricFairness ==
    \A w \in Watchers :
       /\ WF_fabricVars(Connect(w))
       /\ WF_fabricVars(XReadBegins(w))
       /\ WF_fabricVars(XRead(w))
       /\ WF_fabricVars(Yield(w))

-----------------------------------------------------------------------------
FabricTypeOK ==
    /\ store \in Stores
    /\ graph \in Graph \union {Garbled}
    /\ graphCopy \in [Producers -> Graph]
    /\ streams \in [Projects -> Seq(Entry)]
    /\ publishing \in [Producers -> Publishing]
    /\ returned \in [Producers -> SUBSET Event]
    /\ started \in [Producers -> 0..MaxPublishes]
    /\ watch \in [Watchers -> Connection]
    /\ received \in [Watchers -> Seq(Entry)]
    /\ calls \in 0..MaxPublishes /\ drops \in 0..MaxDrops /\ crashes \in 0..MaxCrashes

\* The event is in the graph with its edges, and so is the memory it brings.
Indexed(g, e) ==
    /\ e \in g.events
    /\ \A c \in e.refs : <<e.n, c>> \in g.edges
    /\ e.content # NoRef => g.memories[e.content] # Absent

\* The events of its own on which a process can count: with SQLite all whose call
\* returned, with JSON those of calls since it started.
Lasting(p) == {e \in returned[p] : store = "sqlite" \/ e.n > started[p]}

\* What a process published and returned, it finds again, whoever crashes or writes: with
\* SQLite for ever, with JSON as long as it lives.  (The comment of publish_event says of
\* both that it is durable; a JSON graph is overwritten by the next process that writes,
\* and empty after a mixture or a death within a write.)
\* (EventStore.publish, JSONGraphStore._save.)
PublishedStays == \A p \in Producers : \A e \in Lasting(p) : Indexed(View(p), e)

\* With SQLite nobody is notified of an event that the graph does not have yet, and an
\* edge comes from an event that is there and names its other end; whether a memory is
\* there at that end is certain only of one that the event brought.  However the
\* publishers interleave and wherever one dies.
\* (The order of the writes in publish and publish_memory.)
NotifiedIsIndexed ==
    store = "sqlite" =>
       /\ \A r \in Projects : \A k \in DOMAIN streams[r] : Indexed(graph, streams[r][k].event)
       /\ \A d \in graph.edges : \E e \in graph.events :
             /\ e.n = d[1] /\ d[2] \in e.refs
             /\ e.content = d[2] => graph.memories[d[2]] # Absent

\* A watcher of one project has received a run of its stream: each entry once, in order,
\* none left out, over any number of broken connections; and from its beginning, when
\* it began with the id 0.  (RedisStreamBackend.subscribe, stream_events.)
ReceivedInOrder ==
    \A w \in Watchers : Len(Follows[w]) = 1 =>
       LET s == streams[Follows[w][1]]
           n == Len(received[w])
       IN  \E d \in 0..(Len(s) - n) :
              /\ \A k \in 1..n : received[w][k] = s[d + k]
              /\ watch[w].since = 0 => d = 0

\* What a process published and returned leads back: its agent finds the event in its
\* trail, and who starts in a project gets the memories it names and the graph has, unless
\* there are more than it asked for, even when the same content has been published for
\* another project meanwhile, which then has it.  (fabric_seed_bundle, agent_trail.)
PublishedLeadsBack ==
    \A p \in Producers : \A e \in Lasting(p) : \A rs \in SUBSET Projects :
       e.project \in rs =>
          /\ e \in Trail(View(p), e.by, rs)
          /\ \A c \in e.refs : View(p).memories[c] # Absent =>
                \A k \in 1..2 : \A b \in SeedBundles(View(p), rs, e.n - 1, k) :
                   c \in b \/ Cardinality(b) = k

\* What was published stays, nobody hears of what is not there, and everybody hears of
\* it in order.  (EventStore.publish, publish_memory and subscribe.)
FabricSound == PublishedStays /\ PublishedLeadsBack /\ NotifiedIsIndexed /\ ReceivedInOrder

\* A watcher that passes the last id it received misses nothing: an entry up to the
\* position the server reads from has been received.
\* (stream_events, "pass the last entry_id received as since_id to replay missed events".)
NothingSkipped ==
    \A w \in Watchers : watch[w].open =>
       \A r \in Followed(w) : watch[w].cursor[r] # Newest =>
          \A k \in DOMAIN streams[r] :
             streams[r][k].id <= watch[w].cursor[r] => streams[r][k] \in Range(received[w])

\* Every event that reaches the stream of a watcher's one project after what the watcher
\* has received reaches it too.  A client that began with "$" has no such place before its
\* first entry: what is added between two blocking reads until then never reaches it.
\* (The read loop of RedisStreamBackend.subscribe.)
Due(n, w) ==
    /\ Len(Follows[w]) = 1 /\ watch[w].last # Newest
    /\ \E x \in Range(streams[Follows[w][1]]) : x.event.n = n /\ x.id > watch[w].last
Received(n, w) == \E x \in Range(received[w]) : x.event.n = n
Delivered == \A w \in Watchers : \A n \in 1..MaxPublishes : Due(n, w) ~> Received(n, w)
=============================================================================
