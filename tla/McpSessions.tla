---------------------------- MODULE McpSessions ----------------------------
(***************************************************************************)
(* Streamable-HTTP sessions of the MCP server (mcp/http_server.py), the    *)
(* activity tracked for each (mcp/session_activity.py) and the checkpoints *)
(* written when one is deleted and when the server shuts down              *)
(* (EventStore.publish_checkpoint).                                        *)
(*                                                                         *)
(* Requests are coroutines of one event loop: what lies between two awaits *)
(* is one step.  Tools run, and record their calls, in executor threads.   *)
(***************************************************************************)
EXTENDS Naturals, FiniteSets

CONSTANTS
    Sessions,      \* session ids (uuid4, never issued twice)
    Files,         \* what tool calls touch
    Requests,      \* coroutines that serve POST and DELETE /mcp
    Lifespan,      \* the lifespan hook
    MaxDeletes,    \* bound: checkpoints begun when the last DELETE is admitted
    MaxRuns,       \* bound: starts of the server
    MaxFailures,   \* bound: publishes that fail, requests that are cancelled
    None

ASSUME LifespanAssumption == Lifespan \notin Requests
ASSUME NoneAssumption == None \notin Sessions
ASSUME BoundsAssumption == MaxDeletes \in Nat /\ MaxRuns \in Nat /\ MaxFailures \in Nat

Publishers == Requests \union {Lifespan}

VARIABLES
    server,    \* "up", "stopping" (no new requests), "sweeping", "down"
    open,      \* keys of _MCP_STREAMABLE_SESSIONS
    issued,    \* session ids issued so far
    activity,  \* files_modified of each session's SessionActivity ({}: no entry)
    job,       \* what each request and the lifespan hook are doing
    sweep,     \* sessions the lifespan hook has still to checkpoint
    saved,     \* checkpoint files that parse
    stamp,     \* the last created_at
    runs, failures,
    answered,  \* history: what the calls touched that each session's clients got answers to
    promised   \* history: what was answered for the session when a publish of it began

vars == <<server, open, issued, activity, job, sweep, saved, stamp, runs, failures>>

Checkpoint == [session: Sessions, at: Nat, files: SUBSET Files]

\* pc of a tool call: running, answering; of a publish: writing (diffs and file,
\* in a thread), mirroring (the event in the graph and the stream); orphan: a
\* thread that goes on when its request is gone.
Job == [pc: {"idle", "running", "answering", "writing", "mirroring", "orphan"},
        session: Sessions \union {None}, files: SUBSET Files, at: Nat]
NoJob == [pc |-> "idle", session |-> None, files |-> {}, at |-> 0]

At(p, state) == job[p].pc = state
Become(p, next) == job' = [job EXCEPT ![p] = next]
Busy(q) == ~At(q, "idle") /\ ~At(q, "orphan")

Init ==
    /\ server = "up"
    /\ open = {}
    /\ issued = {}
    /\ activity = [s \in Sessions |-> {}]
    /\ job = [p \in Publishers |-> NoJob]
    /\ sweep = {}
    /\ saved = {}
    /\ stamp = 0
    /\ runs = 1
    /\ failures = 0
-----------------------------------------------------------------------------
(* POST /mcp                                                               *)

Initialize(s) ==
    /\ server = "up"
    /\ s \notin issued
    /\ issued' = issued \union {s}
    /\ open' = open \union {s}
    /\ UNCHANGED <<server, activity, job, sweep, saved, stamp, runs, failures>>

\* A tools/call, of an open session or without a session id, that passes the
\* rate limiter (one that does not is answered 429 and changes nothing here)
\* runs in a thread, whatever becomes of its session meanwhile.
CallAdmitted(q, s, files) ==
    /\ server = "up"
    /\ At(q, "idle")
    /\ s \in open \union {None}
    /\ Become(q, [NoJob EXCEPT !.pc = "running", !.session = s, !.files = files])
    /\ UNCHANGED <<server, open, issued, activity, sweep, saved, stamp, runs, failures>>

\* record_tool_call: nothing is tracked without a session id.  Mutants: an entry
\* is made for any id; get for setdefault, so that a new entry is not kept.
RecordedForAny(s, files) ==
    [t \in Sessions \union {s} |->
        IF t = s THEN files \union (IF s = None THEN {} ELSE activity[s]) ELSE activity[t]]
RecordedByGet(s, files) ==
    IF s = None \/ activity[s] = {} THEN activity ELSE [activity EXCEPT ![s] = @ \union files]
Recorded(s, files) ==
    IF s = None THEN activity ELSE [activity EXCEPT ![s] = @ \union files]

CallRecorded(q) ==
    /\ At(q, "running")
    /\ activity' = Recorded(job[q].session, job[q].files)
    /\ Become(q, [job[q] EXCEPT !.pc = "answering"])
    /\ UNCHANGED <<server, open, issued, sweep, saved, stamp, runs, failures>>

CallAnswered(q) ==
    /\ At(q, "answering")
    /\ Become(q, NoJob)
    /\ UNCHANGED <<server, open, issued, activity, sweep, saved, stamp, runs, failures>>
-----------------------------------------------------------------------------
(* _publish_session_checkpoint, by DELETE /mcp and by the lifespan hook    *)

\* (The sweep of a session comes on top of the bound: a session has only one.)
Snapshot(p, s) ==
    /\ stamp < MaxDeletes + Cardinality(Sessions)
    /\ stamp' = stamp + 1
    /\ Become(p, [pc |-> "writing", session |-> s, files |-> activity[s], at |-> stamp + 1])

\* A request whose publish is over, or failed, closes the session; the lifespan
\* hook goes on to the next.  Mutant: the session stays registered.
LeftOpen(p) == open
StillOpen(p) == IF p = Lifespan THEN open ELSE open \ {job[p].session}

\* What the lifespan hook has still to do when a publish is over or failed.
Swept(p) == IF p = Lifespan THEN sweep \ {job[p].session} ELSE sweep

\* The session is known, and its snapshot taken, before the first await.
DeleteAdmitted(q, s) ==
    /\ server = "up"
    /\ At(q, "idle")
    /\ s \in open
    /\ stamp < MaxDeletes
    /\ Snapshot(q, s)
    /\ UNCHANGED <<server, open, issued, activity, sweep, saved, runs, failures>>

Saved(p) ==
    saved \union {[session |-> job[p].session, at |-> job[p].at, files |-> job[p].files]}

CheckpointWritten(p) ==
    /\ At(p, "writing")
    /\ saved' = Saved(p)
    /\ Become(p, [job[p] EXCEPT !.pc = "mirroring"])
    /\ UNCHANGED <<server, open, issued, activity, sweep, stamp, runs, failures>>

\* The mirror is best-effort; then the tracked activity is dropped and, with no
\* await in between, the session.
PublishDone(p) ==
    /\ At(p, "mirroring")
    /\ activity' = [activity EXCEPT ![job[p].session] = {}]
    /\ open' = StillOpen(p)
    /\ sweep' = Swept(p)
    /\ Become(p, NoJob)
    /\ UNCHANGED <<server, issued, saved, stamp, runs, failures>>

\* An exception is logged and swallowed.
PublishFails(p) ==
    /\ At(p, "writing")
    /\ failures < MaxFailures
    /\ failures' = failures + 1
    /\ open' = StillOpen(p)
    /\ sweep' = Swept(p)
    /\ Become(p, NoJob)
    /\ UNCHANGED <<server, issued, activity, saved, stamp, runs>>

\* Without a project (the working directory is gone) nothing is published.
DeleteWithoutProject(q, s) ==
    /\ server = "up"
    /\ At(q, "idle")
    /\ s \in open
    /\ failures < MaxFailures
    /\ failures' = failures + 1
    /\ open' = open \ {s}
    /\ UNCHANGED <<server, issued, activity, job, sweep, saved, stamp, runs>>
-----------------------------------------------------------------------------
(* Shutdown                                                                *)

\* SIGTERM: uvicorn takes no new requests and waits for those under way ...
Stop ==
    /\ server = "up"
    /\ server' = "stopping"
    /\ UNCHANGED <<open, issued, activity, job, sweep, saved, stamp, runs, failures>>

\* ... and cancels them after a timeout.  What has begun in a thread goes on.
Cancel(q) ==
    /\ server = "stopping"
    /\ Busy(q)
    /\ failures < MaxFailures
    /\ failures' = failures + 1
    /\ \/ Become(q, NoJob)
       \/ /\ job[q].pc \in {"running", "writing"}
          /\ Become(q, [job[q] EXCEPT !.pc = "orphan"])
    /\ UNCHANGED <<server, open, issued, activity, sweep, saved, stamp, runs>>

\* A thread whose request was cancelled records its call, or writes its file.
OrphanEnds(q) ==
    /\ At(q, "orphan")
    /\ IF job[q].at = 0
       THEN activity' = Recorded(job[q].session, job[q].files) /\ UNCHANGED saved
       ELSE saved' = Saved(q) /\ UNCHANGED activity
    /\ Become(q, NoJob)
    /\ UNCHANGED <<server, open, issued, sweep, stamp, runs, failures>>

\* _checkpoint_open_sessions_on_shutdown works off a list of the open sessions.
\* Mutant: it waits for what cancelled requests have left behind, which may hang.
SweepingAlone == server = "sweeping" /\ \A p \in Publishers : At(p, "idle")
Sweeping == server = "sweeping" /\ At(Lifespan, "idle")

SweepStart ==
    /\ server = "stopping"
    /\ \A q \in Requests : ~Busy(q)
    /\ server' = "sweeping"
    /\ sweep' = open
    /\ UNCHANGED <<open, issued, activity, job, saved, stamp, runs, failures>>

SweepNext(s) ==
    /\ Sweeping
    /\ s \in sweep
    /\ Snapshot(Lifespan, s)
    /\ UNCHANGED <<server, open, issued, activity, sweep, saved, runs, failures>>

SweepDone ==
    /\ Sweeping
    /\ sweep = {}
    /\ server' = "down"
    /\ UNCHANGED <<open, issued, activity, job, sweep, saved, stamp, runs, failures>>

\* The process dies at any moment: only the checkpoint files remain (one that
\* was half written does not parse, and every reader skips it).
Crash ==
    /\ server # "down"
    /\ failures < MaxFailures
    /\ failures' = failures + 1
    /\ server' = "down"
    /\ job' = [p \in Publishers |-> NoJob]
    /\ UNCHANGED <<open, issued, activity, sweep, saved, stamp, runs>>

\* A new process, once the last threads of the old one have ended.
Start ==
    /\ server = "down"
    /\ \A p \in Publishers : At(p, "idle")
    /\ runs < MaxRuns
    /\ runs' = runs + 1
    /\ server' = "up"
    /\ open' = {}
    /\ activity' = [s \in Sessions |-> {}]
    /\ sweep' = {}
    /\ UNCHANGED <<issued, job, saved, stamp, failures>>
-----------------------------------------------------------------------------
CallStep(q) == CallRecorded(q) \/ CallAnswered(q)
PublishStep(p) == CheckpointWritten(p) \/ PublishDone(p) \/ PublishFails(p)
ShutdownStep == SweepStart \/ (\E s \in Sessions : SweepNext(s)) \/ SweepDone

Next ==
    \/ \E s \in Sessions : Initialize(s)
    \/ \E q \in Requests, s \in Sessions \union {None}, f \in Files : CallAdmitted(q, s, {f})
    \/ \E q \in Requests, s \in Sessions : DeleteAdmitted(q, s) \/ DeleteWithoutProject(q, s)
    \/ \E q \in Requests : CallStep(q) \/ Cancel(q) \/ OrphanEnds(q)
    \/ \E p \in Publishers : PublishStep(p)
    \/ Stop \/ ShutdownStep \/ Crash \/ Start

\* Tools and writes return (git is run with a time limit), and the event loop
\* goes on with what they awaited.
Fairness ==
    /\ \A q \in Requests : WF_vars(CallStep(q))
    /\ \A p \in Publishers : WF_vars(PublishStep(p))
    /\ WF_vars(ShutdownStep)

-----------------------------------------------------------------------------
(* The sessions, with the history variables.                               *)

SessionsInit ==
    /\ Init
    /\ answered = [s \in Sessions |-> {}]
    /\ promised = [p \in Publishers |-> {}]

Answers(s) ==
    {q \in Requests : At(q, "answering") /\ job[q].session = s
                      /\ job'[q] = NoJob /\ failures' = failures}

SessionsNext ==
    /\ Next
    /\ answered' = [s \in Sessions |-> answered[s] \union UNION {job[q].files : q \in Answers(s)}]
    /\ promised' = [p \in Publishers |->
          IF At(p, "idle") /\ job'[p].pc = "writing" THEN answered[job'[p].session]
          ELSE IF job'[p] = NoJob THEN {} ELSE promised[p]]

sessionVars == <<vars, answered, promised>>
SessionsSpec == SessionsInit /\ [][SessionsNext]_sessionVars
FairSessionsSpec == SessionsSpec /\ Fairness
-----------------------------------------------------------------------------
(* Properties                                                              *)

\* Every variable and every job has its type.
TypeOK ==
    /\ server \in {"up", "stopping", "sweeping", "down"}
    /\ open \subseteq issued /\ issued \subseteq Sessions
    /\ activity \in [Sessions -> SUBSET Files]
    /\ job \in [Publishers -> Job]
    /\ sweep \subseteq Sessions
    /\ saved \subseteq Checkpoint
    /\ stamp \in Nat /\ runs \in Nat /\ failures \in Nat

\* What get_latest_checkpoint returns for a session (the newest created_at)
\* never lacks what an older checkpoint of it has: a client may repeat DELETE,
\* shutdown may follow a cancelled DELETE, in whatever order their files land.
LatestCovers ==
    \A c, d \in saved : (c.session = d.session /\ c.at < d.at) => c.files \subseteq d.files

\* A checkpoint holds every call that was answered before its publish began,
\* although other publishes of the session drop the activity when they are done.
AnsweredIsSaved ==
    \A p \in Publishers : job[p].at > 0 => promised[p] \subseteq job[p].files

\* A newer checkpoint covers the older ones, and each what was answered before it.
CheckpointsCover == LatestCovers /\ AnsweredIsSaved

SavedFiles(s) == UNION {c.files : c \in {d \in saved : d.session = s}}

\* "There is nothing left to recover" (session_activity.py) once the server was
\* shut down and nothing failed: every call is in a checkpoint of its session.
NothingLeft ==
    (server = "down" /\ failures = 0) => \A s \in Sessions : answered[s] \subseteq SavedFiles(s)

\* A DELETE that was admitted closes its session, whatever fails, unless the
\* server stops first ("can never block session teardown").
DeleteCloses ==
    \A s \in Sessions :
        (\E q \in Requests : At(q, "writing") /\ job[q].session = s)
            ~> (s \notin open \/ server = "down")

\* A shutdown ends, whatever fails ("can never block server shutdown").
StopEnds == server = "stopping" ~> server = "down"

\* Neither a failing nor a hanging publish keeps a session or the server from ending.
\* (_publish_session_checkpoint, _checkpoint_open_sessions_on_shutdown.)
SessionsEnd == DeleteCloses /\ StopEnds
=============================================================================
