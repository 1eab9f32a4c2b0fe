------------------------------ MODULE QueryPages ------------------------------
(***************************************************************************)
(* The logs of metrics (metrics/collector.py), the table of tool calls     *)
(* (storage/telemetry_store.py) and the queries that page through them     *)
(* (api/query.py, api/rest.py, metrics/aggregator.py): any process appends *)
(* events to the file of the day or a row to the table, a client asks for  *)
(* one page after the other, each time with the cursor of the last answer. *)
(*                                                                         *)
(* Writers lock the file; readers do not, and each page is cut out of the  *)
(* whole list read anew.  Times of day are whole hours.                    *)
(***************************************************************************)
EXTENDS Integers, Sequences, FiniteSets, FiniteSetsExt, SequencesExt

CONSTANTS
    Collectors,    \* processes that record events
    Pagers,        \* clients that page
    Hours,         \* the length of a day
    Zone,          \* local time minus UTC
    FirstHour,     \* when the history starts
    LastHour,      \* bound: when it ends
    MaxRecorded,   \* bound: events
    Modes,         \* the mode of an event, which query_sessions calls its agent
    AnyMode,
    Ranges,        \* the ranges asked for: [from, to] in hours
    PageSize,      \* limit
    Notes,         \* the discoveries there may be: numbers, in the order of their names
    AclOf,         \* who may read each: acl_allow
    Askers,        \* callers, each the ids it acts under; AnyCaller: no principal
    AnyCaller,
    MaxBreaks,     \* bound: processes that die
    Reports,       \* what clients report of a tool call: by which session, how long ago
                   \* it began, in which zone its stamp is, how long it took, which tool
    MaxMetered     \* bound: tool calls reported

ASSUME PagesBounds ==
    /\ {Hours, PageSize} \subseteq Nat \ {0}
    /\ Zone \in -(Hours - 1)..(Hours - 1)
    /\ {FirstHour, LastHour, MaxRecorded} \subseteq Nat
    /\ FirstHour >= Hours
    /\ Ranges \subseteq [from: Nat, to: Nat]
    /\ AnyMode \notin Modes
    /\ Notes \subseteq Nat /\ DOMAIN AclOf = Notes
    /\ {MaxBreaks, MaxMetered} \subseteq Nat
    /\ \A r \in Reports : {r.back, r.took} \subseteq Nat /\ r.zone \in {0, Zone}

VARIABLES
    utcHour,    \* the clock, in UTC
    logs,       \* the files of the days that have one, each a sequence of lines
    collector,  \* what each process is recording
    numbered,   \* the events stamped so far
    listed,     \* the discoveries that are there
    pager,      \* where each client is
    recorded,   \* history: the events whose line was written to its end
    breaks,     \* history: how many processes died
    metered     \* table telemetry_events

logVars == <<utcHour, logs, collector, numbered, listed, recorded, breaks>>
pagesVars == <<logVars, pager, metered>>

UtcDay(t) == t \div Hours
LocalDay(t) == (t + Zone) \div Hours

\* A line has the first part of its event, then all of it, and then its newline; what is
\* written behind an unfinished line spoils it.
Parses(line) == line.state \in {"full", "ended"}
Complete(line) == line.state \in {"ended", "closed"}
LinesOf(day) == IF day \in DOMAIN logs THEN logs[day] ELSE <<>>

Gone == [pc |-> "gone"]

PagesInit ==
    /\ utcHour = FirstHour
    /\ logs = [d \in {} |-> <<>>]
    /\ collector = [c \in Collectors |-> Gone]
    /\ numbered = 0
    /\ listed \in SUBSET Notes
    /\ pager = [p \in Pagers |-> Gone]
    /\ recorded = {}
    /\ breaks = 0
    /\ metered = {}

-----------------------------------------------------------------------------
(* record_recall_query and _append_jsonl.                                  *)

\* The event is stamped in UTC ...
Stamp(c, mode) ==
    /\ collector[c] = Gone /\ numbered < MaxRecorded
    /\ numbered' = numbered + 1
    /\ collector' = [collector EXCEPT ![c] =
          [pc |-> "stamped", event |-> [id |-> numbered + 1, at |-> utcHour, mode |-> mode]]]
    /\ UNCHANGED <<utcHour, logs, listed, pager, recorded, breaks, metered>>

\* ... its file is named after the day it is where the process runs ...
Locate(c) ==
    /\ collector[c].pc = "stamped"
    /\ collector' = [collector EXCEPT ![c] =
          [pc |-> "waiting", event |-> @.event, day |-> LocalDay(utcHour)]]
    /\ UNCHANGED <<utcHour, logs, numbered, listed, pager, recorded, breaks, metered>>

\* ... and one process at a time appends to it.
Locked(day) == \E c \in Collectors : collector[c].pc = "writing" /\ collector[c].day = day

\* A file after the first bytes of an event were appended.
Begun(lines, e) ==
    IF lines # <<>> /\ ~Complete(Last(lines))
    THEN Append(Front(lines), [event |-> e, state |-> "spoilt"])
    ELSE Append(lines, [event |-> e, state |-> "begun"])

BeginLine(c) ==
    LET day == collector[c].day
        lines == LinesOf(day)
        spoils == lines # <<>> /\ Last(lines).state = "full"
    IN
    /\ collector[c].pc = "waiting" /\ ~Locked(day)
    /\ logs' = [d \in DOMAIN logs \union {day} |->
          IF d = day THEN Begun(lines, collector[c].event) ELSE logs[d]]
    /\ collector' = [collector EXCEPT ![c].pc = "writing"]
    /\ pager' = [p \in Pagers |->
          IF spoils /\ pager[p] # Gone THEN [pager[p] EXCEPT !.shrunk = TRUE] ELSE pager[p]]
    /\ UNCHANGED <<utcHour, numbered, listed, recorded, breaks, metered>>

Grown(line) ==
    [line EXCEPT !.state = CASE @ = "begun" -> "full"
                             [] @ = "full" -> "ended"
                             [] @ = "spoilt" -> "closed"]

\* A write may be cut between any two bytes: before the event is whole, or its newline.
WriteOn(c) ==
    LET day == collector[c].day
        line == Grown(Last(logs[day]))
    IN
    /\ collector[c].pc = "writing"
    /\ logs' = [logs EXCEPT ![day] = Append(Front(@), line)]
    /\ collector' = [collector EXCEPT ![c] = IF Complete(line) THEN Gone ELSE @]
    /\ recorded' = IF Complete(line) THEN recorded \union {collector[c].event} ELSE recorded
    /\ UNCHANGED <<utcHour, numbered, listed, pager, breaks, metered>>

CollectorDies(c) ==
    /\ collector[c] # Gone /\ breaks < MaxBreaks
    /\ breaks' = breaks + 1
    /\ collector' = [collector EXCEPT ![c] = Gone]
    /\ UNCHANGED <<utcHour, logs, numbered, listed, pager, recorded, metered>>

\* Nobody takes an hour from the stamp to the name of the file.
HourPasses ==
    /\ utcHour < LastHour
    /\ \A c \in Collectors : collector[c].pc = "stamped" => collector[c].event.at = utcHour
    /\ utcHour' = utcHour + 1
    /\ UNCHANGED <<logs, collector, numbered, listed, pager, recorded, breaks, metered>>

\* Discoveries come and are archived meanwhile.
NoteComes(n) ==
    /\ n \in Notes \ listed
    /\ listed' = listed \union {n}
    /\ UNCHANGED <<utcHour, logs, collector, numbered, pager, recorded, breaks, metered>>
NoteGoes(n) ==
    /\ n \in listed
    /\ listed' = listed \ {n}
    /\ pager' = [p \in Pagers |->
          IF pager[p] # Gone THEN [pager[p] EXCEPT !.shrunk = TRUE] ELSE pager[p]]
    /\ UNCHANGED <<utcHour, logs, collector, numbered, recorded, breaks, metered>>

-----------------------------------------------------------------------------
(* TelemetryStore.  The caller gives the stamp; it is stored as it is       *)
(* written, with its offset, and compared as a text.                       *)

Written(r) == r.at + r.zone

Report(r) ==
    /\ Cardinality(metered) < MaxMetered /\ r.back <= utcHour
    /\ metered' = metered \union
          {[id |-> Cardinality(metered) + 1, by |-> r.by, at |-> utcHour - r.back,
            zone |-> r.zone, took |-> r.took, mode |-> r.mode]}
    /\ UNCHANGED <<logVars, pager>>

\* The rows of a query, newest first.  Equal stamps are in the order in which the index
\* is read: backwards by the stamp's own, forwards by that of the tool.
Matching(q) ==
    {r \in metered : /\ q.mode \in {AnyMode, r.mode}
                     /\ Written(r) \in q.range.from..q.range.to}
CallsIn(q) ==
    SetToSortSeq(Matching(q),
        LAMBDA r, t : \/ Written(r) > Written(t)
                      \/ /\ Written(r) = Written(t)
                         /\ IF q.mode = AnyMode THEN r.id > t.id ELSE r.id < t.id)

\* The same rows by day: strftime turns a stamp to UTC.
Tally(q) == [day \in {UtcDay(r.at) : r \in Matching(q)} |->
               Cardinality({r \in Matching(q) : UtcDay(r.at) = day})]

\* compute_think_times: from the end of the call before, in the same session, to the
\* start of this one.  Equal stamps keep the order of the page.
\* Mutant: whichever session it was in.
BeforeAnyone(rows, i) ==
    {j \in DOMAIN rows : Written(rows[j]) < Written(rows[i])
                           \/ (Written(rows[j]) = Written(rows[i]) /\ j < i)}
Before(rows, i) ==
    {j \in DOMAIN rows :
        /\ rows[j].by = rows[i].by
        /\ \/ Written(rows[j]) < Written(rows[i])
           \/ Written(rows[j]) = Written(rows[i]) /\ j < i}
NoThinking == -1
ThinkTime(rows, i) ==
    IF Before(rows, i) = {} THEN NoThinking
    ELSE LET j == CHOOSE k \in Before(rows, i) :
                     \A l \in Before(rows, i) \ {k} :
                        \/ Written(rows[l]) < Written(rows[k])
                        \/ Written(rows[l]) = Written(rows[k]) /\ l < k
         IN  Max({0, rows[i].at - rows[j].at - rows[j].took})

-----------------------------------------------------------------------------
(* query_sessions, query_discoveries and get_telemetry.                     *)

\* What one event or discovery must meet.
Wanted(q, e) == e.at \in q.range.from..q.range.to /\ (q.mode = AnyMode \/ e.mode = q.mode)
\* _principal_can_see
MayRead(caller, n) == caller = AnyCaller \/ AclOf[n] \intersect caller # {}

\* The files that a query visits: those whose name has a day of the range, or all.
FilesInRange(range) == {d \in DOMAIN logs : d \in UtcDay(range.from)..UtcDay(range.to)}
ToVisit(q) ==
    CASE q.of = "events" -> SetToSortSeq(FilesInRange(q.range), <)
      [] q.of = "notes" -> SetToSortSeq(listed, <)
      [] q.of = "calls" -> <<"the table">>

\* The items of one file, the lines that do not parse left out.
\* Mutant: the first line that does not parse ends the file.
ReadableTo(lines) ==
    SelectSeq(SubSeq(lines, 1, Min({Len(lines)} \union
                 {i - 1 : i \in {j \in DOMAIN lines : ~Parses(lines[j])}})), Parses)
Readable(lines) == SelectSeq(lines, Parses)
EventsIn(day, q) ==
    SelectSeq([i \in DOMAIN Readable(LinesOf(day)) |-> Readable(LinesOf(day))[i].event],
              LAMBDA e : Wanted(q, e))
ItemsIn(file, q) ==
    CASE q.of = "events" -> [i \in DOMAIN EventsIn(file, q) |-> EventsIn(file, q)[i].id]
      [] q.of = "notes" -> IF file \in listed /\ MayRead(q.caller, file) THEN <<file>> ELSE <<>>
      [] q.of = "calls" -> [i \in DOMAIN CallsIn(q) |-> CallsIn(q)[i].id]

\* What a walk that begins now must bring: of a range all but its first and last day,
\* as a file is named after the local day and an event stamped in UTC.
Owed(q) ==
    CASE q.of = "events" ->
            {e.id : e \in {f \in UNION {Range(EventsIn(d, q)) : d \in DOMAIN logs} :
                          UtcDay(f.at) \in UtcDay(q.range.from) + 1..UtcDay(q.range.to) - 1}}
      [] q.of = "notes" -> {n \in listed : MayRead(q.caller, n)}
      [] q.of = "calls" -> {r.id : r \in Matching(q)}

AskFirst(p, q) ==
    /\ pager[p].pc \in {"gone", "done"}
    /\ pager' = [pager EXCEPT ![p] =
          [pc |-> "reading", query |-> q, offset |-> 0, todo |-> ToVisit(q), items |-> <<>>,
           got |-> {}, owed |-> Owed(q), shrunk |-> FALSE, told |-> 0,
           first |-> Cardinality(metered)]]
    /\ UNCHANGED <<logVars, metered>>

ReadNext(p) ==
    /\ pager[p].pc = "reading" /\ pager[p].todo # <<>>
    /\ pager' = [pager EXCEPT ![p].todo = Tail(@),
          ![p].items = @ \o ItemsIn(Head(pager[p].todo), pager[p].query)]
    /\ UNCHANGED <<logVars, metered>>

\* The cursor of an answer: how many items came before.
\* Mutant: the next page begins one item too late.
NextOffsetPast(offset, page) == offset + Len(page) + 1
NextOffset(offset, page) == offset + Len(page)

AnswerPage(p) ==
    LET g == pager[p]
        page == SubSeq(g.items, g.offset + 1, Min({g.offset + PageSize, Len(g.items)}))
        next == NextOffset(g.offset, page)
    IN
    /\ g.pc = "reading" /\ g.todo = <<>>
    /\ pager' = [pager EXCEPT ![p] =
          [@ EXCEPT !.got = @ \union Range(page), !.offset = next, !.items = <<>>,
                    !.told = @ + Len(page),
                    !.pc = IF next < Len(g.items) THEN "paged" ELSE "done"]]
    /\ UNCHANGED <<logVars, metered>>

AskNext(p) ==
    /\ pager[p].pc = "paged"
    /\ pager' = [pager EXCEPT ![p].pc = "reading", ![p].todo = ToVisit(pager[p].query)]
    /\ UNCHANGED <<logVars, metered>>

Queries ==
    [of: {"events", "calls"}, range: Ranges, mode: Modes \union {AnyMode}]
        \union [of: {"notes"}, caller: Askers \union {AnyCaller}]

PagesNext ==
    \/ \E c \in Collectors :
          (\E mode \in Modes : Stamp(c, mode)) \/ Locate(c) \/ BeginLine(c) \/ WriteOn(c)
             \/ CollectorDies(c)
    \/ HourPasses
    \/ \E n \in Notes : NoteComes(n) \/ NoteGoes(n)
    \/ \E r \in Reports : Report(r)
    \/ \E p \in Pagers :
          (\E q \in Queries : AskFirst(p, q)) \/ ReadNext(p) \/ AnswerPage(p) \/ AskNext(p)

PagesSpec == PagesInit /\ [][PagesNext]_pagesVars

-----------------------------------------------------------------------------
(* Summaries of one day (metrics/aggregator.py).                           *)

DaySummary(day) ==
    [total |-> Len(Readable(LinesOf(day))),
     skipped |-> Len(LinesOf(day)) - Len(Readable(LinesOf(day)))]

\* The rank of a percentile among n values, of the daily summary (nearest rank) and of
\* query_aggregate.
Rank(n, percent) == Max({1, Min({n, (percent * n + 99) \div 100})})
AggregateRank(n) == IF n > 20 THEN (95 * n) \div 100 + 1 ELSE n

-----------------------------------------------------------------------------
PagesTypeOK ==
    /\ utcHour \in FirstHour..LastHour /\ numbered \in 0..MaxRecorded
    /\ listed \subseteq Notes /\ breaks \in 0..MaxBreaks
    /\ \A d \in DOMAIN logs : \A i \in DOMAIN logs[d] :
          logs[d][i].state \in {"begun", "full", "ended", "spoilt", "closed"}
    /\ \A c \in Collectors : collector[c].pc \in {"gone", "stamped", "waiting", "writing"}
    /\ \A p \in Pagers :
          \/ pager[p] = Gone
          \/ /\ pager[p].pc \in {"reading", "paged", "done"}
             /\ pager[p].offset \in 0..Max({MaxRecorded, Cardinality(Notes), MaxMetered})
    /\ Cardinality(metered) <= MaxMetered

\* A client that follows the cursors to the end has every item that its query matched
\* when it began, though events are appended, files begun and discoveries added between
\* its pages, unless an item left the list meanwhile.  (query_sessions, query_discoveries;
\* of a range of events, all but its first and its last day.)  Of the table of tool calls,
\* where new rows come first, a row is told twice only for one that was added.
\* (get_telemetry.)
WalkIsWhole ==
    \A p \in Pagers : pager[p].pc = "done" =>
       /\ ~pager[p].shrunk => pager[p].owed \subseteq pager[p].got
       /\ pager[p].query.of = "calls" =>
             pager[p].told - Cardinality(pager[p].got) <= Cardinality(metered) - pager[p].first

\* A process that dies while it records costs at most one event that another recorded:
\* the one whose line continues its own.  (_append_jsonl, _iter_jsonl_counted.)
LossIsBounded ==
    LET kept == UNION {{logs[d][i].event : i \in {j \in DOMAIN logs[d] : Parses(logs[d][j])}} :
                       d \in DOMAIN logs}
        counted == FoldSet(LAMBDA d, n : n + DaySummary(d).total, 0, DOMAIN logs)
    IN  /\ Cardinality(recorded \ kept) <= breaks
        /\ Cardinality(recorded) - counted <= breaks

\* A percentile is a value that no fewer than its share of the values reach, and in the
\* daily summary the least such value.
RanksAreNearest ==
    \A n \in 1..45 :
       /\ \A percent \in {50, 95} :
             Rank(n, percent) * 100 >= percent * n /\ (Rank(n, percent) - 1) * 100 < percent * n
       /\ AggregateRank(n) \in 1..n /\ AggregateRank(n) * 100 >= 95 * n

\* Whatever page a row of a tool call is on, its think time is the one it has in the
\* whole table, or none, unless a call of the same session and stamp is on another page;
\* and where all stamps are in one zone, a session has not thought for longer than it
\* lasted.  (compute_think_times, called for one page by get_telemetry.)
ThinkTimesAgree ==
    \A range \in Ranges :
       LET all == CallsIn([of |-> "calls", range |-> range, mode |-> AnyMode]) IN
       /\ \A from, to \in DOMAIN all : \A i \in from..to :
             LET page == SubSeq(all, from, to)
                 cut == \E j \in DOMAIN all \ (from..to) :
                           /\ all[j].by = all[i].by
                           /\ Written(all[j]) \in {Written(all[k]) : k \in from..to}
             IN  cut \/ ThinkTime(page, i - from + 1) \in {NoThinking, ThinkTime(all, i)}
       /\ \A i \in DOMAIN all :
             LET ours == {j \in DOMAIN all : all[j].by = all[i].by}
                 thought == {j \in ours : ThinkTime(all, j) # NoThinking}
             IN  (\A j, k \in DOMAIN all : all[j].zone = all[k].zone) =>
                    MapThenSumSet(LAMBDA j : ThinkTime(all, j), thought)
                       <= Max({all[j].at : j \in ours}) - Min({all[j].at : j \in ours})

\* The counts by day add up to the rows that a walk of the same range tells, and the count
\* of a day is off its own rows only by stamps that are not in UTC.  (aggregate, query.)
TalliesAgree ==
    \A range \in Ranges :
       LET q == [of |-> "calls", range |-> range, mode |-> AnyMode]
           days == DOMAIN Tally(q)
           rows(d) == Matching([q EXCEPT !.range =
                         [from |-> Max({range.from, d * Hours}),
                          to |-> Min({range.to, d * Hours + Hours - 1})]])
           shifted == {r \in Matching(q) : r.zone # 0}
       IN  /\ MapThenSumSet(LAMBDA d : Tally(q)[d], days) = Len(CallsIn(q))
           /\ \A d \in days : Tally(q)[d] - Cardinality(rows(d))
                 \in -Cardinality(shifted)..Cardinality(shifted)

PagesSound ==
    WalkIsWhole /\ LossIsBounded /\ RanksAreNearest /\ ThinkTimesAgree /\ TalliesAgree
=============================================================================
