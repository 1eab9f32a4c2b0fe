----------------------------- MODULE AuditTrail -----------------------------
(***************************************************************************)
(* Exports under audit: audit_export_action with its policy check, its     *)
(* sliding-window limiter and its anomaly detector (authz/export_audit.py, *)
(* authz/export_controls.py), on the audit store (audit/log.py) that the   *)
(* admin console purges (api/admin_console.py).                            *)
(*                                                                         *)
(* Exports run in threads, an action for each call of the store or of the  *)
(* limiter, which hold their locks for that long.  Of the store, the rows  *)
(* of exports that were allowed are kept: no other kind is read here, by   *)
(* which everything else the console logs and shows is left out.           *)
(***************************************************************************)
EXTENDS Integers, Sequences, FiniteSets, FiniteSetsExt

CONSTANTS
    Exporters,   \* calls of audit_export_action that can be under way
    Actors,      \* principals
    Folders,     \* projects exported from
    Asks,        \* what is asked for: a level, a format, whether it was approved
    ExportCap,   \* max_exports
    Burst,       \* burst_threshold
    Sweep,       \* project_sweep_threshold
    Span,        \* window_seconds, of the limiter and of the detector
    Retention,   \* the shortest retention
    CallTime,    \* bound: the longest a call takes
    QueryCap,    \* the most rows that a query returns
    LastTime,    \* bound: the clock
    MaxExports,  \* bound: exports that the limiter lets pass
    MaxStops     \* bound: restarts of the server

\* A day of retention outlasts the detector's hour and the calls under way.
ASSUME AuditBounds ==
    /\ {ExportCap, Burst, Sweep, Span, CallTime, QueryCap} \subseteq Nat \ {0}
    /\ Retention \in Nat /\ Retention >= Span + CallTime
    /\ QueryCap > Burst
    /\ {LastTime, MaxExports, MaxStops} \subseteq Nat

VARIABLES
    hour,      \* the clock
    trail,     \* the export_allowed rows of audit_events
    hits,      \* the limiter's deque of each principal
    export,    \* the call each exporter is executing
    alerts,    \* what the alert channel was given
    granted,   \* history: the exports that the limiter let pass
    stops

auditVars == <<hour, trail, hits, export, alerts, granted, stops>>
-----------------------------------------------------------------------------
(* The policy matrix.                                                      *)

Policy(formats, approval) == [formats |-> formats, approval |-> approval]
DefaultMatrix ==
    [public       |-> Policy({"json", "csv", "markdown", "pdf", "raw"}, FALSE),
     internal     |-> Policy({"json", "csv", "markdown"}, FALSE),
     confidential |-> Policy({"json", "csv"}, FALSE),
     restricted   |-> Policy({}, TRUE)]

\* A level that the matrix does not name is as closed as can be.
PolicyOf(matrix, level) ==
    IF level \in DOMAIN matrix THEN matrix[level] ELSE Policy({}, TRUE)

Permitted(matrix, ask) ==
    LET p == PolicyOf(matrix, ask.level)
    IN  /\ p.approval => ask.approved
        /\ ask.format \in p.formats

-----------------------------------------------------------------------------
(* The store.  INSERT names neither the device nor the project.            *)

NoExport == [pc |-> "idle"]

\* The rows that a query returns: the first QueryCap by time.
Rows(actor, since) ==
    LET found == {e \in trail : e.actor = actor /\ e.at >= since}
        Before(e) == {d \in found : d.at < e.at \/ (d.at = e.at /\ d.id < e.id)}
    IN  {e \in found : Cardinality(Before(e)) < QueryCap}

\* The exports that the detector looks at.  Mutant: the edge of the window is left out.
RecentWithin(actor, at) == Rows(actor, at - Span + 1)
Recent(actor, at) == Rows(actor, at - Span)

\* The projects of some rows, as evaluate reads them: what was not stored is no project.
ProjectsOf(rows) == {e.project : e \in {d \in rows : "project" \in DOMAIN d}}

\* Of the ids that AUTOINCREMENT gives, only the order counts.
NextId == 1 + Max({0} \union {e.id : e \in trail})

AuditInit ==
    /\ hour = 0
    /\ trail = {}
    /\ hits = [a \in Actors |-> <<>>]
    /\ export = [c \in Exporters |-> NoExport]
    /\ alerts = {}
    /\ granted = <<>>
    /\ stops = 0

\* Time passes, but no call takes longer than CallTime.
Pass ==
    /\ hour < LastTime
    /\ \A c \in Exporters : export[c].pc # "idle" => hour < export[c].at + CallTime
    /\ hour' = hour + 1
    /\ UNCHANGED <<trail, hits, export, alerts, granted, stops>>

-----------------------------------------------------------------------------
(* audit_export_action, without a matrix of the caller's own.              *)

GoTo(c, pc) == export' = [export EXCEPT ![c].pc = pc]
ExportDone(c) == export' = [export EXCEPT ![c] = NoExport]

Ask(c, actor, folder, ask) ==
    /\ export[c].pc = "idle"
    /\ export' = [export EXCEPT ![c] =
          [pc |-> IF Permitted(DefaultMatrix, ask) THEN "acquire" ELSE "deny",
           actor |-> actor, folder |-> folder, at |-> hour, grant |-> 0]]
    /\ UNCHANGED <<hour, trail, hits, alerts, granted, stops>>

\* The policy forbids it: logged and refused.
Deny(c) ==
    /\ export[c].pc = "deny"
    /\ ExportDone(c)
    /\ UNCHANGED <<hour, trail, hits, alerts, granted, stops>>

\* _evict drops from the front until it meets an entry inside the window.
\* Mutant: an entry at the edge is dropped too.
EvictedEdge(queue, cutoff) ==
    LET kept == {i \in DOMAIN queue : queue[i] > cutoff}
    IN  IF kept = {} THEN <<>> ELSE SubSeq(queue, Min(kept), Len(queue))
Evicted(queue, cutoff) ==
    LET kept == {i \in DOMAIN queue : queue[i] >= cutoff}
    IN  IF kept = {} THEN <<>> ELSE SubSeq(queue, Min(kept), Len(queue))

Acquire(c) ==
    /\ export[c].pc = "acquire"
    /\ LET a == export[c].actor
           queue == Evicted(hits[a], export[c].at - Span)
       IN  IF Len(queue) >= ExportCap
           THEN /\ hits' = [hits EXCEPT ![a] = queue]
                /\ GoTo(c, "limit")
                /\ UNCHANGED granted
           ELSE /\ Len(granted) < MaxExports
                /\ hits' = [hits EXCEPT ![a] = Append(queue, export[c].at)]
                /\ granted' = Append(granted, [actor |-> a, folder |-> export[c].folder,
                                               at |-> export[c].at, live |-> TRUE,
                                               done |-> FALSE])
                /\ export' = [export EXCEPT ![c] = [@ EXCEPT !.pc = "record",
                                                          !.grant = Len(granted) + 1]]
    /\ UNCHANGED <<hour, trail, alerts, stops>>

\* Refused by the limiter: logged, and the detector raises an alert.
RefuseByLimit(c) ==
    /\ export[c].pc = "limit"
    /\ alerts' = alerts \union {[kind |-> "limit", actor |-> export[c].actor]}
    /\ ExportDone(c)
    /\ UNCHANGED <<hour, trail, hits, granted, stops>>

LogAllowed(c) ==
    /\ export[c].pc = "record"
    /\ trail' = trail \union {[id |-> NextId, actor |-> export[c].actor,
                               at |-> export[c].at]}
    /\ GoTo(c, "evaluate")
    /\ UNCHANGED <<hour, hits, alerts, granted, stops>>

\* The heuristics, on what the store returns now.
Detect(c) ==
    /\ export[c].pc = "evaluate"
    /\ LET rows == Recent(export[c].actor, export[c].at)
           raised == (IF Cardinality(rows) > Burst THEN {"burst"} ELSE {})
                     \union (IF Cardinality(ProjectsOf(rows)) >= Sweep THEN {"sweep"} ELSE {})
       IN  alerts' = alerts \union {[kind |-> k, actor |-> export[c].actor] : k \in raised}
    /\ granted' = [granted EXCEPT ![export[c].grant].done = TRUE]
    /\ ExportDone(c)
    /\ UNCHANGED <<hour, trail, hits, stops>>

-----------------------------------------------------------------------------
\* POST /v2/admin/retention/enforce: purge_before, in one handler without an await.
EnforceRetention(age) ==
    /\ age >= Retention
    /\ trail' = {e \in trail : e.at >= hour - age}
    /\ UNCHANGED <<hour, hits, export, alerts, granted, stops>>

\* The server dies and starts again: the store keeps what it has.
StopServer ==
    /\ stops < MaxStops
    /\ stops' = stops + 1
    /\ hits' = [a \in Actors |-> <<>>]
    /\ export' = [c \in Exporters |-> NoExport]
    /\ granted' = [i \in DOMAIN granted |-> [granted[i] EXCEPT !.live = FALSE]]
    /\ UNCHANGED <<hour, trail, alerts>>

AuditNext ==
    \/ Pass
    \/ \E c \in Exporters :
          \/ \E a \in Actors, f \in Folders, ask \in Asks : Ask(c, a, f, ask)
          \/ Deny(c) \/ Acquire(c) \/ RefuseByLimit(c) \/ LogAllowed(c) \/ Detect(c)
    \/ EnforceRetention(Retention)
    \/ StopServer

AuditSpec == AuditInit /\ [][AuditNext]_auditVars
-----------------------------------------------------------------------------
AuditTypeOK ==
    /\ hour \in 0..LastTime
    /\ trail \subseteq [id: Nat, actor: Actors, at: 0..LastTime]
    /\ hits \in [Actors -> Seq(0..LastTime)]
    /\ export \in [Exporters -> {NoExport} \union
          [pc: {"deny", "acquire", "limit", "record", "evaluate"},
           actor: Actors, folder: Folders, at: 0..LastTime, grant: 0..Len(granted)]]
    /\ alerts \subseteq [kind: {"limit", "burst", "sweep"}, actor: Actors]
    /\ granted \in Seq([actor: Actors, folder: Folders, at: 0..LastTime,
                        live: BOOLEAN, done: BOOLEAN])
    /\ stops \in 0..MaxStops

\* Within the window that ends now, the limiter let pass no more of a principal's exports
\* than its maximum, whichever order the threads came to it in.
\* (ExportRateLimiter.acquire: "rejects any that would push the principal above
\* max_exports within the trailing window_seconds".)
CapKept ==
    \A a \in Actors :
        Cardinality({i \in DOMAIN granted : /\ granted[i].actor = a /\ granted[i].live
                                            /\ granted[i].at >= hour - Span}) <= ExportCap

\* The exports of a principal whose audit is complete and that lie in one window.
Finished(a, start) ==
    {i \in DOMAIN granted : /\ granted[i].actor = a /\ granted[i].done
                            /\ granted[i].at \in start..(start + Span)}

\* More of them than the burst threshold have raised the alert, though they were logged and
\* evaluated at the same time, events were purged and the server was restarted meanwhile.
\* (ExportAnomalyDetector.evaluate.)
BurstSeen ==
    \A a \in Actors, start \in 0..LastTime :
        Cardinality(Finished(a, start)) > Burst => [kind |-> "burst", actor |-> a] \in alerts

ExportsWatched == CapKept /\ BurstSeen

\* As many projects as the sweep threshold have raised the alert: "exports touching at
\* least project_sweep_threshold distinct projects in the window".
\* (ExportAnomalyDetector.evaluate reads ev["project_id"] of rows that AuditStore.log
\* wrote.)
SweepSeen ==
    \A a \in Actors, start \in 0..LastTime :
        Cardinality({granted[i].folder : i \in Finished(a, start)}) >= Sweep =>
            [kind |-> "sweep", actor |-> a] \in alerts
=============================================================================
