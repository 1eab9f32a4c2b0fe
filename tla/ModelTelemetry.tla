--------------------------- MODULE ModelTelemetry ---------------------------
(***************************************************************************)
(* What models cost and how well they do: the outcomes of dispatches       *)
(* (telemetry/recorder.py, analytics/budget.py), the statistics over them  *)
(* with their cache (analytics/model_stats.py), the recommendation of a    *)
(* model within a budget (analytics/recommender.py), the counts of usage   *)
(* (analytics/aggregation.py), and the drafts of skills for tools that     *)
(* recur (mcp/tools/telemetry.py, mcp/skillforge_client.py).               *)
(*                                                                         *)
(* Threads of several processes share the database; each process has a     *)
(* lock, a cache and a budget of its own.  Costs and qualities are small   *)
(* integers; the averages that make them are left out.                     *)
(***************************************************************************)
EXTENDS Integers, Sequences, FiniteSets, FiniteSetsExt

CONSTANTS
    Dispatchers,  \* threads that log the outcome of a dispatch
    Advisers,     \* threads that ask for statistics
    ServerOf,     \* thread -> process
    Outcome,      \* the dispatches: session, model, category and tokens
    Price,        \* outcome -> its cost
    DedupWindow,  \* 60 seconds
    StatsTtl,     \* CACHE_TTL_SECONDS
    LastBeat,     \* bound: time
    MaxLogged,    \* bound: calls that log
    Surfacers,    \* calls of surface_skill_candidates
    Recurring,    \* tools that recur
    MaxAttempts,  \* _MAX_ATTEMPTS
    MaxSurfaced,  \* bound: calls that surface
    CountBound    \* bound: days of usage

ASSUME TelemetryBounds ==
    /\ {DedupWindow, StatsTtl, LastBeat, MaxLogged, MaxAttempts, MaxSurfaced, CountBound}
          \subseteq Nat
    /\ DOMAIN ServerOf = Dispatchers \union Advisers /\ DOMAIN Price = Outcome

VARIABLES
    beat,       \* the time
    telemetry,  \* table model_telemetry: [outcome, at, server, seen]
    holder,     \* process -> the thread that has its lock
    memo,       \* process -> what its cache of statistics has
    spent,      \* process -> what its budget was debited
    dispatch,   \* where each dispatcher is
    advice,     \* where each adviser is
    logged,       \* calls that log
    tracked,    \* table candidate_skills
    drafts,     \* history: the drafts that SkillForge received
    surfacing,  \* where each surfacer is
    excuse,     \* history: tools tracked by a dry run, or whose draft failed or was cut off
    surfaced    \* calls that surface

recordVars == <<beat, telemetry, holder, memo, spent, dispatch, advice, logged>>
draftVars == <<tracked, drafts, surfacing, excuse, surfaced>>
telemetryVars == <<recordVars, draftVars>>

Servers == {ServerOf[t] : t \in Dispatchers \union Advisers}
Unheld == "unheld"
NoMemo == [rows |-> -1]
NotLogging == [pc |-> "idle"]

TelemetryInit ==
    /\ beat = 0 /\ telemetry = <<>> /\ logged = 0
    /\ holder = [s \in Servers |-> Unheld] /\ memo = [s \in Servers |-> NoMemo]
    /\ spent = [s \in Servers |-> 0]
    /\ dispatch = [d \in Dispatchers |-> NotLogging]
    /\ advice = [a \in Advisers |-> NotLogging]
    /\ tracked = {} /\ drafts = <<>> /\ excuse = {} /\ surfaced = 0
    /\ surfacing = [s \in Surfacers |-> NotLogging]

-----------------------------------------------------------------------------
(* log_dispatch_outcome: record_event, then the debit.                     *)

Moves(d, pc) == dispatch' = [dispatch EXCEPT ![d].pc = pc]

\* The time is the caller's, and may lie a little back.
Log(d, e) ==
    /\ dispatch[d] = NotLogging /\ logged < MaxLogged
    /\ logged' = logged + 1
    /\ \E at \in Nat \intersect {beat, beat - DedupWindow - 1} :
          dispatch' = [dispatch EXCEPT ![d] = [pc |-> "wait", outcome |-> e, at |-> at]]
    /\ UNCHANGED <<beat, telemetry, holder, memo, spent, advice>>

\* abs(recorded_dt - existing_dt) <= dedup_window.  Mutant: later ones only.
NearLater(t, u) == t - u \in 0..DedupWindow
Near(t, u) == t - u \in -DedupWindow..DedupWindow

Select(d) ==
    LET s == ServerOf[d]
        twice == \E i \in DOMAIN telemetry : /\ telemetry[i].outcome = dispatch[d].outcome
                                             /\ Near(dispatch[d].at, telemetry[i].at)
    IN  /\ dispatch[d].pc = "wait" /\ holder[s] = Unheld
        /\ Moves(d, IF twice THEN "debit" ELSE "insert")
        /\ holder' = [holder EXCEPT ![s] = IF twice THEN Unheld ELSE d]
        /\ UNCHANGED <<beat, telemetry, memo, spent, advice, logged>>

Insert(d) ==
    /\ dispatch[d].pc = "insert"
    /\ telemetry' = Append(telemetry,
          [outcome |-> dispatch[d].outcome, at |-> dispatch[d].at,
           server |-> ServerOf[d], seen |-> FALSE])
    /\ Moves(d, "invalidate")
    /\ UNCHANGED <<beat, holder, memo, spent, advice, logged>>

\* The database is locked by another process for too long: the result is an error.
InsertFails(d) ==
    /\ dispatch[d].pc = "insert" /\ Cardinality(Servers) > 1
    /\ holder' = [holder EXCEPT ![ServerOf[d]] = Unheld]
    /\ dispatch' = [dispatch EXCEPT ![d] = NotLogging]
    /\ UNCHANGED <<beat, telemetry, memo, spent, advice, logged>>

\* The rows of a process that its cache was told of.
Mine(s) == {i \in DOMAIN telemetry : telemetry[i].server = s}
Told(s) == {i \in Mine(s) : telemetry[i].seen}

\* invalidate_model_stats_cache, still under the lock.  Mutant: the cache stays.
Uncleared(s, m) == m
Cleared(s, m) == NoMemo
Invalidate(d) ==
    LET s == ServerOf[d] IN
    /\ dispatch[d].pc = "invalidate"
    /\ memo' = [memo EXCEPT ![s] = Cleared(s, @)]
    /\ telemetry' = [i \in DOMAIN telemetry |->
          IF i \in Mine(s) THEN [telemetry[i] EXCEPT !.seen = TRUE] ELSE telemetry[i]]
    /\ holder' = [holder EXCEPT ![s] = Unheld]
    /\ Moves(d, "debit")
    /\ UNCHANGED <<beat, spent, advice, logged>>

\* A repeated outcome is debited again.
Debit(d) ==
    /\ dispatch[d].pc = "debit"
    /\ spent' = [spent EXCEPT ![ServerOf[d]] = @ + Price[dispatch[d].outcome]]
    /\ dispatch' = [dispatch EXCEPT ![d] = NotLogging]
    /\ UNCHANGED <<beat, telemetry, holder, memo, advice, logged>>

-----------------------------------------------------------------------------
(* get_model_stats of one key.  It takes no lock.                          *)

\* Mutant: an entry lives one tick too long.
LiveLonger(m) == m # NoMemo /\ beat - m.at <= StatsTtl
Live(m) == m # NoMemo /\ beat - m.at < StatsTtl

Consult(a) ==
    LET s == ServerOf[a] IN
    /\ advice[a].pc \in {"idle", "told"}
    /\ IF Live(memo[s])
       THEN /\ advice' = [advice EXCEPT ![a] = [pc |-> "told", rows |-> memo[s].rows,
                     at |-> memo[s].at, raced |-> memo[s].raced, due |-> Told(s),
                     now |-> beat]]
            /\ UNCHANGED memo
       ELSE /\ advice' = [advice EXCEPT ![a] = [pc |-> "fill", rows |-> Len(telemetry),
                                                due |-> Told(s)]]
            /\ memo' = [memo EXCEPT ![s] = NoMemo]
    /\ UNCHANGED <<beat, telemetry, holder, spent, dispatch, logged>>

Fill(a) ==
    LET s == ServerOf[a] IN
    /\ advice[a].pc = "fill"
    /\ memo' = [memo EXCEPT ![s] = [rows |-> advice[a].rows, at |-> beat,
                                    raced |-> Told(s) \ advice[a].due]]
    /\ advice' = [advice EXCEPT ![a] = NotLogging]
    /\ UNCHANGED <<beat, telemetry, holder, spent, dispatch, logged>>

BeatPasses ==
    /\ beat < LastBeat /\ beat' = beat + 1
    /\ UNCHANGED <<telemetry, holder, memo, spent, dispatch, advice, logged>>

RecordNext ==
    \/ \E d \in Dispatchers : \/ \E e \in Outcome : Log(d, e)
                              \/ Select(d) \/ Insert(d) \/ InsertFails(d)
                              \/ Invalidate(d) \/ Debit(d)
    \/ \E a \in Advisers : Consult(a) \/ Fill(a)
    \/ BeatPasses

-----------------------------------------------------------------------------
(* surface_skill_candidates: a draft for each tool that is not tracked yet. *)

Surface(s, dry) ==
    /\ surfacing[s] = NotLogging /\ surfaced < MaxSurfaced
    /\ surfaced' = surfaced + 1
    /\ surfacing' = [surfacing EXCEPT ![s] =
          [pc |-> "add", dry |-> dry, left |-> Recurring]]
    /\ UNCHANGED <<tracked, drafts, excuse>>

\* INSERT OR IGNORE tells whether the row is new.  Mutant: it does not.
IsNewAlways(t) == TRUE
IsNew(t) == t \notin tracked

\* The row is there before the draft is posted, and after a dry run too.
AddCandidate(s) ==
    /\ surfacing[s].pc = "add"
    /\ \E t \in surfacing[s].left :
          /\ tracked' = tracked \union {t}
          /\ surfacing' = [surfacing EXCEPT ![s] =
                IF IsNew(t) /\ ~surfacing[s].dry
                THEN [pc |-> "post", dry |-> FALSE, left |-> @.left \ {t}, tool |-> t,
                      tries |-> 1]
                ELSE [@ EXCEPT !.left = @ \ {t}]]
          /\ excuse' = IF IsNew(t) /\ surfacing[s].dry THEN excuse \union {t} ELSE excuse
    /\ UNCHANGED <<drafts, surfaced>>

\* A post arrives or not, and its answer arrives or not.
Post(s) ==
    LET t == surfacing[s].tool
        on == [pc |-> "add", dry |-> FALSE, left |-> surfacing[s].left]
    IN  /\ surfacing[s].pc = "post"
        /\ \E arrives, replied \in BOOLEAN :
              /\ replied => arrives
              /\ drafts' = IF arrives THEN Append(drafts, t) ELSE drafts
              /\ surfacing' = [surfacing EXCEPT ![s] =
                    IF replied \/ @.tries = MaxAttempts THEN on
                    ELSE [@ EXCEPT !.tries = @ + 1]]
              /\ excuse' = IF ~replied /\ surfacing[s].tries = MaxAttempts
                           THEN excuse \union {t} ELSE excuse
        /\ UNCHANGED <<tracked, surfaced>>

EndSurfacing(s) ==
    /\ surfacing[s] # NotLogging
    /\ surfacing[s].pc = "add" => surfacing[s].left = {}
    /\ surfacing' = [surfacing EXCEPT ![s] = NotLogging]
    \* In the middle of a post the server may be killed.
    /\ excuse' = IF surfacing[s].pc = "post" THEN excuse \union {surfacing[s].tool}
                 ELSE excuse
    /\ UNCHANGED <<tracked, drafts, surfaced>>

DraftNext ==
    \E s \in Surfacers :
       \/ \E dry \in BOOLEAN : Surface(s, dry)
       \/ AddCandidate(s) \/ Post(s) \/ EndSurfacing(s)

TelemetryNext == (RecordNext /\ UNCHANGED draftVars) \/ (DraftNext /\ UNCHANGED recordVars)
TelemetrySpec == TelemetryInit /\ [][TelemetryNext]_telemetryVars

-----------------------------------------------------------------------------
(* Recommendations for one category.  stats is model -> [source, quality,  *)
(* cost, vendor]; the source is "observed", "blended" with the prior,      *)
(* "prior", "family" (no row of its own: recommend takes the prior of its  *)
(* family) or "none".                                                      *)

\* Ten outcomes speak for themselves; fewer are blended with the prior, if there is one.
SourceOf(outcomes, prior, family) ==
    CASE outcomes >= 10 \/ (outcomes > 0 /\ ~prior) -> "observed"
      [] outcomes \in 1..9 /\ prior -> "blended"
      [] outcomes = 0 /\ prior -> "prior"
      [] OTHER -> IF family THEN "family" ELSE "none"

\* quality^2 / cost, and the cheaper one of two equals.  A model that costs nothing, or
\* never passes, has no points.
Points(p) == IF p.quality * p.cost = 0 THEN <<0, 1>> ELSE <<p.quality * p.quality, p.cost>>
Better(p, q) ==
    LET won == Points(p)[1] * Points(q)[2]
        lost == Points(q)[1] * Points(p)[2]
    IN  won > lost \/ (won = lost /\ p.cost < q.cost)

Candidates(stats, excluded) ==
    {m \in DOMAIN stats : stats[m].source # "none" /\ stats[m].vendor \notin excluded}

\* What recommend ranks first.  Mutant: the best one, if none is affordable.
SelectedAnyway(stats, models, budget) ==
    LET affordable == {m \in models : stats[m].cost <= budget}
    IN  IF affordable # {} THEN affordable ELSE models
Selected(stats, models, budget) ==
    LET affordable == {m \in models : stats[m].cost <= budget}
        cheapest == {m \in models : \A n \in models : stats[m].cost <= stats[n].cost}
    IN  IF affordable # {} THEN affordable ELSE cheapest
Recommended(stats, excluded, budget) ==
    LET models == Selected(stats, Candidates(stats, excluded), budget) IN
    {m \in models : ~\E n \in models : Better(stats[n], stats[m])}

\* min_eligible_cost looks at observed and prior rows only.
Eligible(stats, excluded) ==
    {m \in Candidates(stats, excluded) : stats[m].source \in {"observed", "prior"}}
\* budget_alert: dispatch may go on.
AlertOk(stats, excluded, remaining) ==
    \E m \in Eligible(stats, excluded) : stats[m].cost <= remaining

-----------------------------------------------------------------------------
(* Usage counts.  A day has two seconds of two ticks: at the whole second  *)
(* and after it.  The windows end at the last whole second.                *)

Within(t, from, to) == t >= 4 * from /\ t <= 4 * to + 2
\* _period_bounds: the day, or the week of CountBound days that ends with it.
InDay(t, day) == Within(t, day, day)
InWeek(t, day) == Within(t, day - CountBound + 1, day)

-----------------------------------------------------------------------------
TelemetryTypeOK ==
    /\ beat \in 0..LastBeat /\ logged \in 0..MaxLogged
    /\ \A i \in DOMAIN telemetry :
          telemetry[i].outcome \in Outcome /\ telemetry[i].at <= beat
    /\ \A s \in Servers : holder[s] \in Dispatchers \union {Unheld}
    /\ tracked \subseteq Recurring /\ excuse \subseteq tracked

\* One process records an outcome once in a window, whoever repeats it and whatever time
\* the caller gives.  (Two processes may each record it.)  (record_event: "deduplicated".)
RecordedOnce ==
    \A i, j \in DOMAIN telemetry :
       /\ i < j /\ telemetry[i].server = telemetry[j].server
       /\ telemetry[i].outcome = telemetry[j].outcome
       => ~Near(telemetry[i].at, telemetry[j].at)

\* Statistics are at most as old as the cache allows, and lack an outcome of their own
\* process only if it was recorded between the query that they come from and the moment
\* they were stored.  (get_model_stats, invalidate_model_stats_cache.)
StatsLag ==
    \A a \in Advisers : advice[a].pc = "told" =>
       /\ advice[a].now - advice[a].at < StatsTtl
       /\ \A i \in advice[a].due : i <= advice[a].rows \/ i \in advice[a].raced

\* The budget knows of all that was recorded for it.  (build_budget_summary of the
\* telemetry never tells more than was debited.)
SpentCovers ==
    \A s \in Servers :
       (\A d \in Dispatchers : ServerOf[d] = s => dispatch[d] = NotLogging) =>
          MapThenSumSet(LAMBDA i : Price[telemetry[i].outcome], Mine(s)) <= spent[s]

\* A tool is drafted by one call only, which may repeat its post, and one that is tracked
\* has been drafted, is being drafted, or was given up.  (A dry run tracks it too, and then
\* nobody drafts it: surface_skill_candidates inserts the row before it looks at dry_run.)
DraftedOnce ==
    /\ \A t \in Recurring :
          Cardinality({i \in DOMAIN drafts : drafts[i] = t}) <= MaxAttempts
    /\ \A t \in tracked \ excuse :
          \/ \E i \in DOMAIN drafts : drafts[i] = t
          \/ \E s \in Surfacers : surfacing[s].pc = "post" /\ surfacing[s].tool = t

\* No model of an excluded vendor is recommended; what is recommended is affordable if any
\* model is, and the cheapest one otherwise.  When the alert lets a dispatch go on, so does
\* the recommendation; when it does not, all that is affordable has blended statistics or
\* its family's, which the alert does not know.  (budget_alert, select_model_for_task.)
AlertAgrees ==
    \A counts \in [1..2 -> {0, 9, 10}], prior, family \in [1..2 -> BOOLEAN],
       costs \in [1..2 -> 0..2], good \in [1..2 -> 0..2], excluded \in SUBSET {"v1"},
       budget \in 0..2 :
       LET stats == [m \in 1..2 |-> [cost |-> costs[m],
              source |-> SourceOf(counts[m], prior[m], family[m]),
              quality |-> good[m], vendor |-> IF m = 1 THEN "v1" ELSE "v2"]]
           top == Recommended(stats, excluded, budget)
           affordable == {m \in Candidates(stats, excluded) : stats[m].cost <= budget}
       IN  /\ \A m \in top : stats[m].vendor \notin excluded
           /\ (top = {}) = (Candidates(stats, excluded) = {})
           /\ affordable # {} => top \subseteq affordable
           /\ affordable = {} => \A m \in top : \A n \in Candidates(stats, excluded) :
                                    stats[m].cost <= stats[n].cost
           /\ AlertOk(stats, excluded, budget) => affordable # {}
           /\ ~AlertOk(stats, excluded, budget) =>
                 \A m \in affordable : stats[m].source \in {"blended", "family"}

\* No event counts for two days, what counts for a day counts for its week, and what counts
\* for the week only lies within the last second of one of its days.  (The windows end at
\* 23:59:59, the events have microseconds.)
CountsAgree ==
    \A t \in 0..4 * CountBound - 1 :
       LET days == {d \in 0..CountBound - 1 : InDay(t, d)} IN
       /\ Cardinality(days) <= 1
       /\ days # {} => InWeek(t, CountBound - 1)
       /\ InWeek(t, CountBound - 1) /\ days = {} => t % 4 = 3

TelemetrySound ==
    RecordedOnce /\ StatsLag /\ SpentCovers /\ DraftedOnce /\ AlertAgrees /\ CountsAgree
=============================================================================
