------------------------------ MODULE MemoryLog ------------------------------
(***************************************************************************)
(* The decision tools (mcp/tools/decisions.py) over the event log          *)
(* (storage/event_log.py) and the memory store (storage/memory_store.py):  *)
(* a tool reads a memory, appends an event, then writes the whole memory.  *)
(* Tools run in several processes, any of which may die in between.        *)
(***************************************************************************)
EXTENDS Naturals, Sequences, FiniteSets

CONSTANTS
    Callers,    \* processes that run tools
    Memories,   \* ids of memories
    Missing,    \* a memory that is not in the store
    Scrap,      \* a line that does not parse
    MaxEvents,  \* bound: calls of the tools
    MaxTears    \* bound: appends that a death cuts short

ASSUME MissingAssumption == Missing \notin Memories
ASSUME LogBounds == MaxEvents \in Nat /\ MaxTears \in Nat

VARIABLES
    lines,      \* the lines of events.jsonl
    memories,   \* the memory store
    tool,       \* the call each process is executing
    logged,     \* events whose append returned
    named,      \* ids that were made for a memory
    events, tears

logVars == <<lines, memories, tool, logged, named, events, tears>>

LogEvent == [n: 1..MaxEvents, memory: Memories, kind: {"created", "superseded", "outcome"}]
ASSUME ScrapAssumption == Scrap \notin LogEvent
MemoryRecord == [superseded: BOOLEAN, outcomes: SUBSET (1..MaxEvents)]
ToolCall == [pc: {"idle"}] \union
            [pc: {"append", "upsert"}, event: LogEvent, record: MemoryRecord]
NewMemory == [superseded |-> FALSE, outcomes |-> {}]
NoCall == [pc |-> "idle"]

LogInit ==
    /\ lines = <<>>
    /\ memories = [m \in Memories |-> Missing]
    /\ tool = [c \in Callers |-> NoCall]
    /\ logged = {}
    /\ named = {}
    /\ events = 0 /\ tears = 0

(***************************************************************************)
(* The reads.  The record that will be written is made here.               *)
(***************************************************************************)
StartTool(c, m, kind, record) ==
    /\ tool[c].pc = "idle"
    /\ events < MaxEvents
    /\ events' = events + 1
    /\ tool' = [tool EXCEPT ![c] =
          [pc |-> "append", event |-> [n |-> events + 1, memory |-> m, kind |-> kind],
           record |-> record]]
    /\ UNCHANGED <<lines, memories, logged, tears>>

\* Also record_incident: a new id and a new memory.
RecordDecision(c, m) ==
    /\ m \notin named
    /\ named' = named \union {m}
    /\ StartTool(c, m, "created", NewMemory)

ReportOutcome(c, m) ==
    /\ memories[m] # Missing
    /\ StartTool(c, m, "outcome", [memories[m] EXCEPT !.outcomes = @ \union {events + 1}])
    /\ UNCHANGED named

MarkSuperseded(c, m) ==
    /\ memories[m] # Missing
    /\ StartTool(c, m, "superseded", [memories[m] EXCEPT !.superseded = TRUE])
    /\ UNCHANGED named

(***************************************************************************)
(* EventLog.append, under its flock: no newline is put before the line, so *)
(* a line that a death left unended takes the next one with it.            *)
(***************************************************************************)
LogEnded == lines = <<>> \/ lines[Len(lines)].ended
PutLine(row, ended) ==
    lines' = IF LogEnded THEN Append(lines, [row |-> row, ended |-> ended])
             ELSE [lines EXCEPT ![Len(lines)] = [row |-> Scrap, ended |-> ended]]

\* Mutant: the store is written before the log.
AppendSecond(c) ==
    /\ tool[c].pc = "append"
    /\ memories' = [memories EXCEPT ![tool[c].event.memory] = tool[c].record]
    /\ tool' = [tool EXCEPT ![c].pc = "upsert"]
    /\ UNCHANGED <<lines, logged, named, events, tears>>
AppendEvent(c) ==
    /\ tool[c].pc = "append"
    /\ PutLine(tool[c].event, TRUE)
    /\ logged' = logged \union {tool[c].event}
    /\ tool' = [tool EXCEPT ![c].pc = "upsert"]
    /\ UNCHANGED <<memories, named, events, tears>>

\* The process dies in the append: part of the line is there, or all but its newline.
TearLine(c) ==
    /\ tool[c].pc = "append"
    /\ tears < MaxTears
    /\ tears' = tears + 1
    /\ \E row \in {tool[c].event, Scrap} : PutLine(row, FALSE)
    /\ tool' = [tool EXCEPT ![c] = NoCall]
    /\ UNCHANGED <<memories, logged, named, events>>

UpsertMemory(c) ==
    /\ tool[c].pc = "upsert"
    /\ memories' = [memories EXCEPT ![tool[c].event.memory] = tool[c].record]
    /\ tool' = [tool EXCEPT ![c] = NoCall]
    /\ UNCHANGED <<lines, logged, named, events, tears>>

\* A death between two steps.
ToolDies(c) ==
    /\ tool[c].pc # "idle"
    /\ tool' = [tool EXCEPT ![c] = NoCall]
    /\ UNCHANGED <<lines, memories, logged, named, events, tears>>

LogNext ==
    \E c \in Callers :
       \/ \E m \in Memories : RecordDecision(c, m) \/ ReportOutcome(c, m) \/ MarkSuperseded(c, m)
       \/ AppendEvent(c) \/ TearLine(c) \/ UpsertMemory(c) \/ ToolDies(c)

LogSpec == LogInit /\ [][LogNext]_logVars

\* What replay yields.
\* Mutant: it stops at the first line that does not parse.
ReplayUpToScrap ==
    {lines[k].row : k \in {i \in DOMAIN lines : \A j \in 1..i : lines[j].row # Scrap}}
ReplayEvents == {lines[k].row : k \in {i \in DOMAIN lines : lines[i].row # Scrap}}

-----------------------------------------------------------------------------
LogTypeOK ==
    /\ lines \in Seq([row: LogEvent \union {Scrap}, ended: BOOLEAN])
    /\ memories \in [Memories -> MemoryRecord \union {Missing}]
    /\ tool \in [Callers -> ToolCall]
    /\ logged \subseteq LogEvent /\ named \subseteq Memories
    /\ events \in 0..MaxEvents /\ tears \in 0..MaxTears

Logged(m, kind) == \E e \in logged : e.memory = m /\ e.kind = kind

\* The store never shows a change that the log does not have: not while a tool runs,
\* not after one died, not when two wrote the same memory.
\* (The order of append and upsert in record_decision, report_outcome, mark_superseded.)
LoggedFirst ==
    \A m \in Memories : memories[m] # Missing =>
       /\ Logged(m, "created")
       /\ memories[m].superseded => Logged(m, "superseded")
       /\ \A n \in memories[m].outcomes : \E e \in logged : e.n = n /\ e.memory = m

\* A death in an append costs at most one acknowledged event in every later replay,
\* the one that was glued to the torn line.  (EventLog.append, EventLog.replay.)
TearLosesOne == Cardinality(logged \ ReplayEvents) <= tears

\* The log is what the store can be rebuilt from, up to one event per torn append.
LogSound == LoggedFirst /\ TearLosesOne
=============================================================================
