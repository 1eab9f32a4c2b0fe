------------------------------ MODULE Publishing ------------------------------
(***************************************************************************)
(* What the tools and hooks put onto the context bus                       *)
(* (mcp/tools/capture.py, project.py, system.py, bridge.py; hooks/): a     *)
(* publication goes to the bus, then to the log of important events, then  *)
(* to the vector index, in three steps that threads interleave and a kill  *)
(* cuts.  And the register of projects (core/project_registry.py), a file  *)
(* that several processes rewrite through one temporary file.              *)
(*                                                                         *)
(* The bus is the atomic one of ContextBus: a publication is one step that *)
(* refuses a content it already has.                                       *)
(***************************************************************************)
EXTENDS Integers, Sequences, FiniteSets, SequencesExt, FiniteSetsExt

CONSTANTS
    Senders,           \* threads of the server, and hooks
    Hooks,             \* those of Senders that are hooks
    Sources,           \* item ids of the files of a project, in the order of a sync
    Drafts,            \* contents
    FirstDraft,        \* what the files hold at first
    MaxDocs,           \* MAX_TOTAL_FILES
    MaxSends,          \* bound: calls that publish
    MaxRewrites,       \* bound: changes of the files
    Registrars,        \* processes that rewrite the register
    Projects,          \* slugs
    MaxRegistrations,  \* bound: calls that rewrite the register
    MaxKilled,         \* bound: kills
    MaxLines           \* bound: lines of a backlog or a conversation

ASSUME PublishingBounds ==
    /\ {MaxDocs, MaxSends, MaxRewrites, MaxRegistrations, MaxKilled, MaxLines} \subseteq Nat
    /\ Hooks \subseteq Senders /\ FirstDraft \in Drafts

VARIABLES
    onBus,       \* bus.jsonl: [item, draft]
    noticed,    \* the log of important events
    vector,     \* vector index: item -> content
    source,     \* file of a project -> content
    sender,     \* where each sender is
    sends, rewrites,
    lastSent,   \* history: item -> content of its last publication
    unclear,    \* history: items published by two at once, or not indexed
    owed,        \* history: contents that a tool published first, as important
    missed,     \* history: contents whose event could not be written or was cut
    inode,      \* file contents by number
    where,      \* "register" and "temp" -> number, 0 for no file
    writer,      \* where each registrar is
    accepted,   \* history: slugs whose registration was answered with success
    crossed,    \* history: two registrars were at work at once
    halfway,    \* history: a registrar was killed in the middle
    mixed,      \* history: one left a text over the end of another's
    registrations, killed

sendVars == <<onBus, noticed, vector, source, sender, sends, rewrites, lastSent, unclear,
              owed, missed>>
registryVars ==
    <<inode, where, writer, accepted, crossed, halfway, mixed, registrations, killed>>
publishingVars == <<sendVars, registryVars>>

SourceIds == ToSet(Sources)
NoDraft == "none"
Hashed == "hashed"
Random == "random"
NotSending == [pc |-> "idle"]
Blank == {"blank"}  \* a file that was opened, and emptied, to be written
Torn == {"torn"}    \* a text over the end of a longer one
NoJson == {Blank, Torn}
LastFile == MaxRegistrations + 1

ASSUME PublishingNames ==
    /\ Sources \in Seq(SourceIds) /\ {Hashed, Random} \intersect SourceIds = {}
    /\ NoDraft \notin Drafts /\ (Blank \union Torn) \intersect Projects = {}

PublishingInit ==
    /\ onBus = <<>> /\ noticed = <<>> /\ vector = [i \in SourceIds |-> NoDraft]
    /\ source = [i \in SourceIds |-> FirstDraft]
    /\ sender = [s \in Senders |-> NotSending] /\ sends = 0 /\ rewrites = 0
    /\ lastSent = [i \in SourceIds |-> NoDraft]
    /\ unclear = {} /\ owed = {} /\ missed = {}
    /\ inode = [n \in 1..LastFile |-> {}] /\ where = [register |-> 1, temp |-> 0]
    /\ writer = [r \in Registrars |-> NotSending]
    /\ accepted = {} /\ crossed = FALSE /\ halfway = FALSE /\ mixed = FALSE
    /\ registrations = 0 /\ killed = 0

-----------------------------------------------------------------------------
(* Publications.                                                           *)

\* A call begins with what it will publish: an item with its content, or with NoDraft for
\* a file that is read when its turn comes.
Begins(s, docs, high) ==
    /\ sender[s] = NotSending /\ sends < MaxSends /\ sends' = sends + 1
    /\ sender' = [sender EXCEPT ![s] = [pc |-> "next", left |-> docs, high |-> high]]
    /\ UNCHANGED <<onBus, noticed, vector, source, rewrites, lastSent,
                   unclear, owed, missed>>

\* depthfusion_publish_context: the caller chooses the item.
PublishContext(s, i, d, high) ==
    s \notin Hooks /\ Begins(s, <<[item |-> i, draft |-> d]>>, high)

\* The answer of another model is published under a hash of it.
Bridge(s, d) == s \notin Hooks /\ Begins(s, <<[item |-> Hashed, draft |-> d]>>, FALSE)

\* ingest_conversation: the fragments of an assistant, under hashes of them.
IngestConversation(s, d, e) ==
    /\ s \notin Hooks
    /\ Begins(s, <<[item |-> Hashed, draft |-> d], [item |-> Hashed, draft |-> e]>>, FALSE)

\* sync_project: the backlog, the instructions and the log of commits.
Synchronise(s) ==
    /\ s \notin Hooks
    /\ Begins(s, [n \in DOMAIN Sources |-> [item |-> Sources[n], draft |-> NoDraft]], FALSE)

\* ingest_project: the files in their order, as many as are allowed.
IngestProject(s) ==
    /\ s \notin Hooks
    /\ Begins(s, [n \in 1..Min({Len(Sources), MaxDocs}) |->
                     [item |-> Sources[n], draft |-> NoDraft]], FALSE)

\* At its start a session is seeded with what a recall finds; the items have random names.
SeedSession(s, d, e) ==
    /\ s \in Hooks
    /\ Begins(s, <<[item |-> Random, draft |-> d], [item |-> Random, draft |-> e]>>, FALSE)

\* After the use of a tool its files are reported.
ReportToolUse(s, d) == s \in Hooks /\ Begins(s, <<[item |-> Random, draft |-> d]>>, FALSE)

Take(s) ==
    LET next == Head(sender[s].left) IN
    /\ sender[s].pc = "next"
    /\ sender' = [sender EXCEPT ![s] =
          IF @.left = <<>> THEN NotSending
          ELSE [pc |-> "send", left |-> Tail(@.left), item |-> next.item, high |-> @.high,
                draft |-> IF next.draft = NoDraft THEN source[next.item] ELSE next.draft]]
    /\ UNCHANGED <<onBus, noticed, vector, source, sends, rewrites, lastSent, unclear, owed,
                   missed>>

GoesOn(s, pc) ==
    sender' = [sender EXCEPT ![s] =
       IF pc = "next" THEN [pc |-> "next", left |-> @.left, high |-> @.high]
       ELSE [@ EXCEPT !.pc = pc]]

\* The bus knows a content, under whatever item.  Mutant: it knows an item.
OnBusItem(i, d) == \E n \in DOMAIN onBus : onBus[n].item = i
OnBus(i, d) == \E n \in DOMAIN onBus : onBus[n].draft = d

\* What follows the bus.  Mutant: a content that is known is not indexed.
AfterNew(hook, known, high) ==
    CASE hook \/ known -> "next" [] high -> "notice" [] OTHER -> "index"
After(hook, known, high) ==
    CASE hook -> "next" [] ~known /\ high -> "notice" [] OTHER -> "index"

\* Those between the bus and the index with an item.
Indexing(i) ==
    {s \in Senders \ Hooks : sender[s].pc \in {"notice", "index"} /\ sender[s].item = i}

Send(s) ==
    LET i == sender[s].item
        d == sender[s].draft
        known == OnBus(i, d)
        hook == s \in Hooks
    IN  /\ sender[s].pc = "send"
        /\ onBus' = IF known THEN onBus ELSE Append(onBus, [item |-> i, draft |-> d])
        /\ GoesOn(s, After(hook, known, sender[s].high))
        /\ lastSent' = IF i \in SourceIds THEN [lastSent EXCEPT ![i] = d] ELSE lastSent
        /\ unclear' = IF Indexing(i) = {} THEN unclear \ {i} ELSE unclear \union {i}
        /\ owed' = IF ~hook /\ ~known /\ sender[s].high THEN owed \union {d} ELSE owed
        /\ UNCHANGED <<noticed, vector, source, sends, rewrites, missed>>

\* The bus raises: the tool answers with the error, and a sync goes on all the same.
SendFails(s) ==
    /\ sender[s].pc = "send"
    /\ GoesOn(s, "next")
    /\ UNCHANGED <<onBus, noticed, vector, source, sends, rewrites, lastSent, unclear, owed,
                   missed>>

\* emit_if_high_importance, whose result nobody looks at.
Notice(s) ==
    /\ sender[s].pc = "notice"
    /\ \/ noticed' = Append(noticed, sender[s].draft) /\ UNCHANGED missed
       \/ missed' = missed \union {sender[s].draft} /\ UNCHANGED noticed
    /\ GoesOn(s, "index")
    /\ UNCHANGED <<onBus, vector, source, sends, rewrites, lastSent, unclear, owed>>

Index(s) ==
    LET i == sender[s].item IN
    /\ sender[s].pc = "index"
    /\ \/ /\ vector' = IF i \in SourceIds THEN [vector EXCEPT ![i] = sender[s].draft]
                      ELSE vector
          /\ UNCHANGED unclear
       \/ unclear' = unclear \union {i} /\ UNCHANGED vector
    /\ GoesOn(s, "next")
    /\ UNCHANGED <<onBus, noticed, source, sends, rewrites, lastSent, owed, missed>>

Rewrite(i, d) ==
    /\ rewrites < MaxRewrites /\ rewrites' = rewrites + 1
    /\ d # source[i] /\ source' = [source EXCEPT ![i] = d]
    /\ UNCHANGED <<onBus, noticed, vector, sender, sends, lastSent, unclear, owed, missed>>

\* The server is killed, with all its threads.  (The index is saved at each change.)
ServerKilled ==
    /\ \E s \in Senders \ Hooks : sender[s] # NotSending
    /\ sender' = [s \in Senders |-> IF s \in Hooks THEN sender[s] ELSE NotSending]
    /\ unclear' = unclear \union {i \in SourceIds : Indexing(i) # {}}
    /\ missed' = missed \union
          {sender[s].draft : s \in {t \in Senders : sender[t].pc = "notice"}}
    /\ UNCHANGED <<onBus, noticed, vector, source, sends, rewrites, lastSent, owed>>

SendNext ==
    \/ \E s \in Senders :
          \/ \E i \in SourceIds, d \in Drafts, high \in BOOLEAN :
                PublishContext(s, i, d, high)
          \/ \E d \in Drafts : Bridge(s, d) \/ ReportToolUse(s, d)
          \/ \E d, e \in Drafts : IngestConversation(s, d, e) \/ SeedSession(s, d, e)
          \/ Synchronise(s) \/ IngestProject(s) \/ Take(s) \/ Send(s) \/ SendFails(s)
          \/ Notice(s) \/ Index(s)
    \/ \E i \in SourceIds, d \in Drafts : Rewrite(i, d)
    \/ ServerKilled

-----------------------------------------------------------------------------
(* The register of projects: load, change, write projects.tmp, rename.     *)

AtWork(r) == writer[r] # NotSending

LoadRegister(r, slug) ==
    /\ ~AtWork(r) /\ registrations < MaxRegistrations
    /\ registrations' = registrations + 1
    /\ writer' = [writer EXCEPT ![r] =
          IF inode[where.register] \in NoJson THEN NotSending  \* JSONDecodeError
          ELSE [pc |-> "open", slug |-> slug, data |-> inode[where.register] \union {slug},
                file |-> 0]]
    /\ crossed' = (crossed \/ \E q \in Registrars \ {r} : AtWork(q))
    /\ UNCHANGED <<inode, where, accepted, halfway, mixed, killed>>

\* update_last_synced of a project that is not there writes nothing.
StampSynced(r, slug) == slug \in inode[where.register] /\ LoadRegister(r, slug)

\* open("w") of the temporary file: the one there is, or a new one.  Mutant: of the file
\* itself.
OpenInPlace == where.register
Opened ==
    IF where.temp # 0 THEN where.temp
    ELSE CHOOSE n \in 1..LastFile : n # where.register /\ \A r \in Registrars :
            AtWork(r) => writer[r].file # n

OpenTemp(r) ==
    /\ writer[r].pc = "open"
    /\ inode' = [inode EXCEPT ![Opened] = Blank]
    /\ where' = [where EXCEPT !.temp = Opened]
    /\ writer' = [writer EXCEPT ![r].pc = "put", ![r].file = Opened]
    /\ UNCHANGED <<accepted, crossed, halfway, mixed, registrations, killed>>

\* The text goes to the start of the file.  If another wrote there since both opened it, a
\* shorter text leaves the end of the longer one.
Overlays(old, new) == IF old = Blank THEN {new} ELSE {new, Torn}

PutTemp(r) ==
    LET file == writer[r].file IN
    /\ writer[r].pc = "put"
    /\ \E text \in Overlays(inode[file], writer[r].data) :
          /\ inode' = [inode EXCEPT ![file] = text]
          /\ mixed' = (mixed \/ text = Torn)
    /\ writer' = [writer EXCEPT ![r].pc = "replace"]
    /\ UNCHANGED <<where, accepted, crossed, halfway, registrations, killed>>

\* os.replace; FileNotFoundError when another one has renamed the file.
Replace(r) ==
    /\ writer[r].pc = "replace"
    /\ where' = IF where.temp = 0 THEN where ELSE [register |-> where.temp, temp |-> 0]
    /\ accepted' = IF where.temp = 0 THEN accepted ELSE accepted \union {writer[r].slug}
    /\ writer' = [writer EXCEPT ![r] = NotSending]
    /\ UNCHANGED <<inode, crossed, halfway, mixed, registrations, killed>>

RegistrarKilled(r) ==
    /\ AtWork(r) /\ killed < MaxKilled /\ killed' = killed + 1
    /\ halfway' = (halfway \/ writer[r].pc = "put")
    /\ writer' = [writer EXCEPT ![r] = NotSending]
    /\ UNCHANGED <<inode, where, accepted, crossed, mixed, registrations>>

RegistryNext ==
    \E r \in Registrars :
       \/ \E slug \in Projects : LoadRegister(r, slug) \/ StampSynced(r, slug)
       \/ OpenTemp(r) \/ PutTemp(r) \/ Replace(r) \/ RegistrarKilled(r)

PublishingNext ==
    (SendNext /\ UNCHANGED registryVars) \/ (RegistryNext /\ UNCHANGED sendVars)
PublishingSpec == PublishingInit /\ [][PublishingNext]_publishingVars

-----------------------------------------------------------------------------
(* Two readers of text.  A line of a backlog is an epic, a story or else.  *)
(* A line of a conversation is [role, long]: it begins with a role or goes *)
(* on ("more"), and has text, of at least 20 characters or so little that  *)
(* all such lines together have fewer.                                     *)

\* parse_backlog: a story belongs to the last epic above it ("" at the top).
EpicLines(lines) == {k \in DOMAIN lines : lines[k] \in {"e1", "e2"}}
EpicAt(lines, n) ==
    LET above == {k \in EpicLines(lines) : k < n}
    IN  IF above = {} THEN "" ELSE lines[Max(above)]
StoriesOf(lines) ==
    {[line |-> n, epic |-> EpicAt(lines, n)] :
       n \in {k \in DOMAIN lines : lines[k] = "story"}}

\* _format_backlog_context: under each epic, the stories of its id.
Listed(lines) ==
    {p \in EpicLines(lines) \X StoriesOf(lines) : p[2].epic = lines[p[1]]}

\* GenericParser on text: a message from each line with a role to the next one.  Without
\* any, the text is one message of an assistant.  Mutant: the last message is forgotten.
TurnsButLast(lines) ==
    {t \in (DOMAIN lines) \X (DOMAIN lines) :
       /\ t[1] < t[2] /\ lines[t[1]].role # "more" /\ lines[t[2]].role # "more"
       /\ \A k \in t[1] + 1..t[2] - 1 : lines[k].role = "more"}
Turns(lines) ==
    LET heads == {n \in DOMAIN lines : lines[n].role # "more"} IN
    IF heads = {} THEN {<<1, Len(lines) + 1>>}
    ELSE {<<n, Min({m \in heads : m > n} \union {Len(lines) + 1})>> : n \in heads}

\* ingest_conversation keeps what an assistant said, if it is not too short.
RoleOf(lines, turn) ==
    LET role == lines[turn[1]].role IN IF role = "more" THEN "assistant" ELSE role
IsLong(lines, turn) == \E k \in turn[1]..turn[2] - 1 : lines[k].long
Fragments(lines) ==
    {t \in Turns(lines) : RoleOf(lines, t) = "assistant" /\ IsLong(lines, t)}

-----------------------------------------------------------------------------
PublishingTypeOK ==
    /\ \A n \in DOMAIN onBus : /\ onBus[n].item \in SourceIds \union {Hashed, Random}
                           /\ onBus[n].draft \in Drafts
    /\ vector \in [SourceIds -> Drafts \union {NoDraft}] /\ source \in [SourceIds -> Drafts]
    /\ \A n \in 1..LastFile : inode[n] \in NoJson \/ inode[n] \subseteq Projects
    /\ where.register \in 1..LastFile /\ where.temp \in 0..LastFile

\* A content that a tool published as important before anybody else published it is
\* noticed once, however many publish it at once and under whatever item, unless its event
\* failed or was cut.  Nothing else is noticed; what was published without importance first
\* never is.  (publish_context: only what is not deduped is emitted.)
NoticedOnce ==
    \A d \in Drafts :
       LET times == Cardinality({n \in DOMAIN noticed : noticed[n] = d})
           coming == \E s \in Senders : sender[s].pc = "notice" /\ sender[s].draft = d
       IN  times = IF d \in owed \ missed /\ ~coming THEN 1 ELSE 0

\* The index holds the last content of an item that nobody is publishing, unless two
\* published it at once or the indexing failed; and the bus has that content, but perhaps
\* under another item, when it had been published before.  (publish_context indexes what is
\* deduped as well.)
VectorFollows ==
    \A i \in SourceIds :
       /\ Indexing(i) = {} /\ i \notin unclear => vector[i] = lastSent[i]
       /\ lastSent[i] # NoDraft => \E n \in DOMAIN onBus : onBus[n].draft = lastSent[i]

\* One registrar at a time, with kills: the register can be read and has all that was
\* accepted.  Several at once: once they are done it can be read, unless one was killed
\* while it wrote, or one left a text over the end of another's: then the file that is
\* renamed is no JSON, though nobody died.  (_save: write_text to the one temporary file,
\* and os.replace.  Two at once may also lose entries, and one of them may get an error
\* though its entry is stored.)
RegisterKept ==
    /\ ~crossed => /\ inode[where.register] \notin NoJson
                   /\ accepted \subseteq inode[where.register]
    /\ ~halfway /\ ~mixed /\ (\A r \in Registrars : ~AtWork(r)) =>
          inode[where.register] \notin NoJson

\* A story is listed under the nearest epic above it.  It is listed nowhere if it stands
\* above every epic, and more than once only if two epics have one id.  (parse_backlog,
\* _format_backlog_context.)
StoriesListed ==
    \A lines \in [1..MaxLines -> {"e1", "e2", "story", "text"}] :
       \A s \in StoriesOf(lines) :
          LET above == {k \in EpicLines(lines) : k < s.line}
              under == {n \in EpicLines(lines) : <<n, s>> \in Listed(lines)}
          IN  IF above = {} THEN under = {}
              ELSE /\ Max(above) \in under
                   /\ \A m, n \in under : lines[m] = lines[n]

\* A line below the first role lies in one turn, and only lines above it are left out.  A
\* long line is stored unless a user or the system said it, and those say nothing that is
\* stored.  (GenericParser, ingest_conversation.)
Conversations ==
    [1..MaxLines -> [role : {"assistant", "user", "system", "more"}, long : BOOLEAN]]
TurnsCover ==
    \A lines \in Conversations : \A n \in DOMAIN lines :
       LET turns == {t \in Turns(lines) : n \in t[1]..t[2] - 1}
           Others(t) == lines[t[1]].role \in {"user", "system"}
       IN /\ Cardinality(turns) <= 1
          /\ turns = {} <=> /\ \A k \in 1..n : lines[k].role = "more"
                            /\ \E k \in DOMAIN lines : lines[k].role # "more"
          /\ \A t \in turns : IF t \in Fragments(lines) THEN ~Others(t)
                              ELSE Others(t) \/ ~lines[n].long

PublishingSound ==
    NoticedOnce /\ VectorFollows /\ RegisterKept /\ StoriesListed /\ TurnsCover
=============================================================================
