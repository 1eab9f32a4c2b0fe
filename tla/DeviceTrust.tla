----------------------------- MODULE DeviceTrust -----------------------------
(***************************************************************************)
(* What a device holds and trusts while it is offline.  The encrypted      *)
(* cache (app/src-tauri/src/cache/store.rs) takes in what its policy       *)
(* admits (cache/admission.py) and keeps a digest of its leases, sealed    *)
(* after each change and verified when it is opened.  A signed snapshot of *)
(* the server's policy decides for a while (authz/policy_snapshot.py,      *)
(* policy_engine.py).  What to fetch in advance is planned from pins,      *)
(* scores and the activity recorded on the device (cache/prefetch_         *)
(* scheduler.py, activity_signals.py), and what it has is searched         *)
(* (cache/lease_lifecycle.py).  Python calls the admission, the            *)
(* plan and the signals only in tests; the cache's caller is the desktop   *)
(* application, which seals after a change as the store asks it to.        *)
(***************************************************************************)
EXTENDS Integers, Sequences, FiniteSets, SequencesExt, FiniteSetsExt, Functions

CONSTANTS
    Papers,        \* records: [level, acl]
    Owner,         \* the principal of the device
    Ceiling,       \* the highest level it may keep offline
    MaxChanges,    \* bound: changes of the cache
    MaxBreakdowns, \* bound: crashes of the application
    Jobs,          \* roles the policy may allow for a level
    SigningKeys,   \* the keys the server has in turn: 1, 2, ...
    SnapshotTtl,   \* ttl_seconds
    LastInstant,   \* bound: time
    Lags,          \* bound: by how much the device's clock may be behind (or, below 0, ahead)
    Noters,        \* processes that record activity
    MaxSignals,    \* max_signals
    MaxNotes,      \* bound: activity recorded
    Wanted,        \* candidates of a plan: [path, score, size, project]
    Pins,          \* pinned_paths and pinned_projects
    Budgets,       \* budget_bytes
    Spellings      \* of labels: spelling -> the label in lower case

ASSUME DeviceTrustBounds ==
    /\ {MaxChanges, MaxBreakdowns, SnapshotTtl, LastInstant} \subseteq Nat
    /\ {MaxSignals, MaxNotes} \subseteq Nat
    /\ Budgets \subseteq Nat /\ Ceiling \in 0..3
    /\ Lags \subseteq Int /\ 0 \in Lags
    /\ SigningKeys \subseteq Nat \ {0} /\ 1 \in SigningKeys

VARIABLES
    held,       \* cached_record
    granted,    \* cache_lease: records with a lease
    seal,       \* the digest of leases, by what it is of, or NoSeal
    cache,      \* "closed", "ready" or "wipe"
    filling,    \* the change that the application is making
    whole,      \* history: what was granted when the last change was complete
    broken,     \* history: a change was cut off, or the first seal
    changes, breakdowns,
    instant,    \* the time, by the clock of the server
    lag,        \* the device's clock is behind it by so much
    allowed,    \* the server's roles for the level
    serverKey,  \* the key it signs with
    snapshot,   \* what the device has, or NoSnapshot
    deviceKey,  \* the key it verifies with, or 0
    history,    \* history: instant -> the roles that were allowed at some time in it
    offline,   \* history: offline decisions: [roles, labelled, when, lag, yes]
    signals,    \* activity_signals: [id, ts]
    noter,      \* where each process is
    nextId,
    dropped     \* history: signals that were pruned, with those kept at that time

sealVars == <<held, granted, seal, cache, filling, whole, broken, changes, breakdowns>>
snapshotVars ==
    <<instant, lag, allowed, serverKey, snapshot, deviceKey, history, offline>>
signalVars == <<signals, noter, nextId, dropped>>
trustVars == <<sealVars, snapshotVars, signalVars>>

NoSeal == <<>>
NoSnapshot == [version |-> 0, key |-> 0]
NothingToDo == <<>>
NotNoting == [pc |-> "idle"]

TrustInit ==
    /\ held = {} /\ granted = {} /\ seal = NoSeal /\ cache = "closed"
    /\ filling = NothingToDo /\ whole = {} /\ broken = FALSE
    /\ changes = 0 /\ breakdowns = 0
    /\ instant = 0 /\ lag \in Lags /\ allowed \in SUBSET Jobs /\ serverKey = 1
    /\ snapshot = NoSnapshot /\ deviceKey \in {0, 1}
    /\ history = [n \in 0..LastInstant |-> IF n = 0 THEN {allowed} ELSE {}] /\ offline = {}
    /\ signals = {} /\ noter = [n \in Noters |-> NotNoting] /\ nextId = 1 /\ dropped = {}

-----------------------------------------------------------------------------
(* The sealed cache.                                                       *)

\* is_admissible: both must hold; the owner's groups do not count, only the principal.
Admissible(r) == Owner \in r.acl /\ r.level <= Ceiling

DigestOf(leases) == <<leases>>

\* CacheStore::open: a missing digest is a first run if there is no lease.
FirstRun == seal = NoSeal /\ granted = {}

OpenCache ==
    /\ cache = "closed"
    /\ cache' = IF FirstRun \/ seal = DigestOf(granted) THEN "ready" ELSE "wipe"
    /\ seal' = IF FirstRun THEN DigestOf({}) ELSE seal
    /\ UNCHANGED <<held, granted, filling, whole, broken, changes, breakdowns>>

\* A change is a list of statements, each committed by itself, with the seal at its end.
\* Mutant: the seal comes first.
AdmittingSealed(r) == <<<<"seal", r>>, <<"record", r>>, <<"lease", r>>>>
Admitting(r) == <<<<"record", r>>, <<"lease", r>>, <<"seal", r>>>>
Removing(r) == <<<<"delete", r>>, <<"seal", r>>>>

StartsChange(statements) ==
    /\ cache = "ready" /\ filling = NothingToDo /\ changes < MaxChanges
    /\ changes' = changes + 1 /\ filling' = statements
    /\ UNCHANGED <<held, granted, seal, cache, whole, broken, breakdowns>>

Admit(r) == r \notin held /\ Admissible(r) /\ StartsChange(Admitting(r))
Discard(r) == r \in held /\ StartsChange(Removing(r))

\* The lease of a record that is deleted goes with it (ON DELETE CASCADE).
Statement ==
    LET s == Head(filling) IN
    /\ filling # NothingToDo /\ filling' = Tail(filling)
    /\ held' = CASE s[1] = "record" -> held \union {s[2]}
                 [] s[1] = "delete" -> held \ {s[2]}
                 [] OTHER -> held
    /\ granted' = CASE s[1] = "lease" -> granted \union {s[2]}
                    [] s[1] = "delete" -> granted \ {s[2]}
                    [] OTHER -> granted
    /\ seal' = IF s[1] = "seal" THEN DigestOf(granted) ELSE seal
    /\ whole' = IF Tail(filling) = NothingToDo THEN granted' ELSE whole
    /\ broken' = (broken /\ Tail(filling) # NothingToDo)
    /\ UNCHANGED <<cache, changes, breakdowns>>

CloseCache ==
    /\ cache = "ready" /\ filling = NothingToDo /\ cache' = "closed"
    /\ UNCHANGED <<held, granted, seal, filling, whole, broken, changes, breakdowns>>

ApplicationDies ==
    /\ cache = "ready" /\ breakdowns < MaxBreakdowns /\ breakdowns' = breakdowns + 1
    /\ cache' = "closed" /\ filling' = NothingToDo
    /\ broken' = (broken \/ filling # NothingToDo)
    /\ UNCHANGED <<held, granted, seal, whole, changes>>

\* The caller wipes the file and fetches everything again.
WipeAndResync ==
    /\ cache = "wipe" /\ cache' = "closed"
    /\ held' = {} /\ granted' = {} /\ seal' = NoSeal /\ whole' = {} /\ broken' = FALSE
    /\ UNCHANGED <<filling, changes, breakdowns>>

SealNext ==
    \/ OpenCache \/ Statement \/ CloseCache \/ ApplicationDies \/ WipeAndResync
    \/ \E r \in Papers : Admit(r) \/ Discard(r)

-----------------------------------------------------------------------------
(* The policy snapshot.                                                    *)

InstantPasses ==
    /\ instant < LastInstant /\ instant' = instant + 1
    /\ history' = [history EXCEPT ![instant + 1] = {allowed}]
    /\ UNCHANGED <<lag, allowed, serverKey, snapshot, deviceKey, offline>>

\* The clock of the device is set.
DeviceClockSet ==
    /\ lag' \in Lags
    /\ UNCHANGED <<instant, allowed, serverKey, snapshot, deviceKey, history, offline>>

PolicyChanges(roles) ==
    /\ roles # allowed /\ allowed' = roles
    /\ history' = [history EXCEPT ![instant] = @ \union {roles}]
    /\ UNCHANGED <<instant, lag, serverKey, snapshot, deviceKey, offline>>

KeyChanges ==
    /\ serverKey + 1 \in SigningKeys /\ serverKey' = serverKey + 1
    /\ UNCHANGED <<instant, lag, allowed, snapshot, deviceKey, history, offline>>

DeviceGetsKey ==
    /\ deviceKey' = serverKey
    /\ UNCHANGED <<instant, lag, allowed, serverKey, snapshot, history, offline>>

\* sign_policy_snapshot, and the copy on the device (to_dict, from_dict).  Mutant: it has
\* no end.
NeverExpires == LastInstant + 1
Expires == instant + SnapshotTtl

Sync ==
    /\ snapshot' = [version |-> 1, key |-> serverKey,
                    expires |-> Expires, roles |-> allowed]
    /\ UNCHANGED <<instant, lag, allowed, serverKey, deviceKey, history, offline>>

\* verify_policy_snapshot: unsigned (never so here), a key that is missing or another one,
\* expired by the clock of the device, in this order.
Verdict ==
    CASE snapshot = NoSnapshot -> "unsigned"
      [] deviceKey = 0 \/ snapshot.key # deviceKey -> "tampered"
      [] instant - lag >= snapshot.expires -> "expired"
      [] OTHER -> "ok"

\* _evaluate with a snapshot.  Of a resource without a label the snapshot is not looked at.
\* (The capabilities and the ACL are those of PolicyEngine and allow here.)
OfflineAllows(roles, labelled) ==
    labelled => Verdict = "ok" /\ roles \intersect snapshot.roles # {}

DecideOffline(roles, labelled) ==
    /\ offline' = {[roles |-> roles, labelled |-> labelled, when |-> instant,
                     lag |-> lag, yes |-> OfflineAllows(roles, labelled)]}
    /\ UNCHANGED <<instant, lag, allowed, serverKey, snapshot, deviceKey, history>>

SnapshotNext ==
    \/ InstantPasses \/ DeviceClockSet \/ KeyChanges \/ DeviceGetsKey \/ Sync
    \/ \E roles \in SUBSET Jobs :
          PolicyChanges(roles) \/ \E labelled \in BOOLEAN : DecideOffline(roles, labelled)

-----------------------------------------------------------------------------
(* Activity signals.  Each process has its own connection, so that the     *)
(* count and the deletion are apart.                                       *)

\* record: the INSERT is committed.  Clocks may go back, so ts is any.
Note(n, ts) ==
    /\ noter[n] = NotNoting /\ nextId <= MaxNotes
    /\ signals' = signals \union {[id |-> nextId, ts |-> ts]}
    /\ nextId' = nextId + 1
    /\ noter' = [noter EXCEPT ![n] = [pc |-> "count"]]
    /\ UNCHANGED dropped

CountSignals(n) ==
    LET total == Cardinality(signals) IN
    /\ noter[n].pc = "count"
    /\ noter' = [noter EXCEPT ![n] =
          IF total <= MaxSignals THEN NotNoting
          ELSE [pc |-> "prune", excess |-> total - MaxSignals]]
    /\ UNCHANGED <<signals, nextId, dropped>>

\* The oldest by time, those of one time in any order.  Mutant: the newest.
Oldest(some) == \A s \in some, t \in signals \ some : s.ts <= t.ts
Newest(some) == \A s \in some, t \in signals \ some : s.ts >= t.ts
Prunable(some) == Oldest(some)

Prune(n) ==
    /\ noter[n].pc = "prune"
    /\ \E some \in SUBSET signals :
          /\ Cardinality(some) = Min({noter[n].excess, Cardinality(signals)})
          /\ Prunable(some)
          /\ signals' = signals \ some
          /\ dropped' = dropped \union
                [gone : {s.ts : s \in some}, kept : {{t.ts : t \in signals'}}]
    /\ noter' = [noter EXCEPT ![n] = NotNoting]
    /\ UNCHANGED nextId

ClearSignals ==
    /\ signals # {} /\ signals' = {}
    /\ UNCHANGED <<noter, nextId, dropped>>

SignalNext ==
    \/ \E n \in Noters :
          \/ \E ts \in 1..2 : Note(n, ts)
          \/ CountSignals(n) \/ Prune(n)
    \/ ClearSignals

TrustNext ==
    \/ SealNext /\ UNCHANGED <<snapshotVars, signalVars>>
    \/ SnapshotNext /\ UNCHANGED <<sealVars, signalVars>>
    \/ SignalNext /\ UNCHANGED <<sealVars, snapshotVars>>
TrustSpec == TrustInit /\ [][TrustNext]_trustVars

-----------------------------------------------------------------------------
(* Computed from what is given.                                            *)

\* _is_pinned: by the pins of the scheduler; the candidate's own mark is not asked.
Pinned(c) == c.path \in Pins \/ c.project \in Pins

\* build_plan: one group after the other, each by score; what does not fit is left out
\* and the next is tried.  Mutant: the pinned ones come last.
ByScore(candidates) == SortSeq(candidates, LAMBDA c, d : c.score > d.score)
GroupedLast(candidates) ==
    ByScore(SelectSeq(candidates, LAMBDA c : ~Pinned(c))) \o
    ByScore(SelectSeq(candidates, Pinned))
Grouped(candidates) ==
    ByScore(SelectSeq(candidates, Pinned)) \o
    ByScore(SelectSeq(candidates, LAMBDA c : ~Pinned(c)))

SizeOf(candidates) == FoldLeft(LAMBDA n, c : n + c.size, 0, candidates)

Plan(candidates, budget) ==
    FoldLeft(LAMBDA taken, c :
                IF SizeOf(taken) + c.size <= budget THEN Append(taken, c) ELSE taken,
             <<>>, Grouped(candidates))

\* _parse_config: the entries of the file, each a spelling and a level, a later spelling of
\* a label over an earlier one; one that is no level, or a default that is too low,
\* refuses the whole file.
Levels4 == 0..3
SafeDefaults == {2, 3}
NoMapping == [default |-> "refused"]

\* Mutant: any level may be the default.
DefaultAny(level) == level \in Levels4
DefaultIsSafe(level) == level \in SafeDefaults

LoadMapping(entries, default) ==
    IF ~DefaultIsSafe(default) \/ \E n \in DOMAIN entries : entries[n][2] \notin Levels4
    THEN NoMapping
    ELSE [default |-> default,
          levels |-> FoldLeft(LAMBDA known, e : (Spellings[e[1]] :> e[2]) @@ known,
                              <<>>, entries)]

\* LabelMapper.map
MapLabel(mapping, spelling) ==
    LET key == Spellings[spelling] IN
    IF key \in DOMAIN mapping.levels THEN mapping.levels[key] ELSE mapping.default

\* issue_service_account: no ceiling is the lowest one; a scope with a verb that changes
\* something in any of its parts is refused.
Verbs == {"write", "create", "update", "delete", "admin", "manage"}
CeilingOf(asked) == IF asked \in Levels4 THEN asked ELSE 0
Issued(scopes) == \A scope \in scopes : ToSet(scope) \intersect Verbs = {}

\* _record_level and is_record_visible.  Mutant: a record without a level is public.
LevelOrPublic(level) == IF level \in Levels4 THEN level ELSE 0
LevelOrRestricted(level) == IF level \in Levels4 THEN level ELSE 3
VisibleTo(ceiling, level) == LevelOrRestricted(level) <= ceiling

-----------------------------------------------------------------------------
(* OfflineQueryEngine.search.  A document is [until, matches, near]: when   *)
(* its lease ends (0: it has none), whether a word of the query is in it,  *)
(* and the cosine of its embedding.  Scores are small integers.            *)

Searchable(docs, now) == {d \in DOMAIN docs : docs[d].until > now}

\* BM25: nothing for a document without any word of the query, something for another.
LexicalScores(docs, subset) ==
    {f \in [subset -> 0..2] : \A d \in subset : (f[d] > 0) = docs[d].matches}

\* The cosine, cut off below; no embedding of the query, no similarity.
VectorScores(docs, subset, embedded) ==
    [d \in subset |-> IF embedded THEN Max({0, docs[d].near}) ELSE 0]

\* Each kind of score runs from its lowest to its highest, and says nothing if all are
\* equal.  Mutant: it is taken as it is.
NormalisedNot(scores) == [part |-> scores, whole |-> 1]
Normalised(scores) ==
    LET low == Min(Range(scores))
        high == Max(Range(scores))
    IN  [part |-> [d \in DOMAIN scores |-> scores[d] - low],
         whole |-> IF high = low THEN 1 ELSE high - low]

\* alpha halves go to the vectors and the rest to the words; times both wholes.
Blended(lexical, vector, alpha) ==
    LET l == Normalised(lexical)
        v == Normalised(vector)
    IN  [d \in DOMAIN lexical |->
            alpha * v.part[d] * l.whole + (2 - alpha) * l.part[d] * v.whole]

\* Equals stay in the order of the documents.
FoundOffline(scores, topK) ==
    LET ranked == SetToSortSeq(DOMAIN scores,
                      LAMBDA d, e : scores[d] > scores[e] \/ (scores[d] = scores[e] /\ d < e))
    IN  SubSeq(ranked, 1, Min({topK, Len(ranked)}))

-----------------------------------------------------------------------------
(* Properties.                                                             *)

TrustTypeOK ==
    /\ granted \subseteq held /\ held \subseteq Papers
    /\ cache \in {"closed", "ready", "wipe"}
    /\ filling \in Seq({"record", "lease", "delete", "seal"} \X Papers)
    /\ instant \in 0..LastInstant /\ lag \in Lags /\ allowed \subseteq Jobs
    /\ serverKey \in SigningKeys /\ deviceKey \in SigningKeys \union {0}
    /\ \A n \in Noters : noter[n].pc \in {"idle", "count", "prune"}

\* A cache that is handed out between two changes has the leases of the last complete
\* change, whatever was cut off before; and the device fetches everything again only
\* after a change was cut off (open, seal_with, read_leases).
CacheAsSealed ==
    /\ cache = "ready" /\ filling = NothingToDo => granted = whole
    /\ cache = "wipe" => broken

\* Offline a labelled resource is allowed only to roles that the server allowed at some
\* time less than the snapshot's life before what the device's clock shows, whatever
\* changed since and whichever key the device has.  A clock that is set back makes the
\* snapshot live longer by as much: nothing on the device remembers a later time
\* (verify_policy_snapshot, _check_classification_offline).
SnapshotObeyed ==
    \A v \in offline : v.yes /\ v.labelled =>
        \E n \in (v.when - v.lag - SnapshotTtl + 1)..v.when :
           n >= 0 /\ \E roles \in history[n] : roles \intersect v.roles # {}

\* Between calls there are no more signals than allowed, however the counts and deletions
\* of several processes interleave, and none was pruned for an older one.
OldSignalsGo ==
    /\ (\A n \in Noters : noter[n] = NotNoting) => Cardinality(signals) <= MaxSignals
    /\ \A d \in dropped : \A ts \in d.kept : d.gone <= ts

\* A plan is within its budget.  What it leaves out does not fit beside those that go
\* before it, which are the pinned ones and then the higher scores, so that nothing
\* unpinned takes the place of a pinned record (build_plan).
PlanKeepsPins ==
    \A budget \in Budgets : \A candidates \in SetToSeqs(Wanted) :
        LET plan == Plan(candidates, budget)
            before(c) == SelectSeq(plan, LAMBDA d :
                            \/ Pinned(d) /\ ~Pinned(c)
                            \/ Pinned(d) = Pinned(c) /\ d.score >= c.score)
        IN /\ SizeOf(plan) <= budget
           /\ \A c \in Wanted \ ToSet(plan) : SizeOf(before(c)) + c.size > budget

\* A label that the file does not list is never public or internal, and neither is one
\* that it lists as more, in any spelling and order; and a record of which the level is
\* not known is seen only by an account with the highest ceiling, so that an account that
\* asked for none sees public records alone (_parse_config, map, _record_level).
LabelsKept ==
    \A default \in Levels4 : \A s, t \in DOMAIN Spellings : \A a, b \in Levels4 \union {4} :
        LET mapping == LoadMapping(<<<<s, a>>, <<t, b>>>>, default) IN
        mapping # NoMapping =>
            \A label \in DOMAIN Spellings :
               LET level == MapLabel(mapping, label)
                   same(p) == Spellings[p[1]] = Spellings[label]
                   listed == {p \in {<<s, a>>, <<t, b>>} : same(p)}
               IN IF listed = {} THEN ~VisibleTo(1, level)
                  ELSE level \in {p[2] : p \in listed}

AccountsStayLow ==
    /\ \A level \in Levels4 \union {9} :
          VisibleTo(CeilingOf(9), level) <=> level = 0
    /\ \A noun \in {"query", "records"}, verb \in Verbs :
          ~Issued({<<noun, verb>>}) /\ ~Issued({<<verb, noun>>})

\* What is searched offline is ranked the same in whatever units BM25 counts ("so the blend
\* is scale-invariant"), a document that is better in both respects goes before the other,
\* and without an embedding those that have a word of the query go before those that have
\* none, unless words count for nothing.  (search, _min_max_normalise.)
OfflineRanksFairly ==
    \A docs \in [1..3 -> [until: {0, 2}, matches: BOOLEAN, near: {-1, 1}]] :
       LET subset == Searchable(docs, 1) IN
       subset # {} =>
          \A alpha \in 0..2 : \A lexical \in LexicalScores(docs, subset) :
             LET vector == VectorScores(docs, subset, TRUE)
                 blended == Blended(lexical, vector, alpha)
                 scaled == Blended([d \in subset |-> 3 * lexical[d]], vector, alpha)
                 bare == Blended(lexical, VectorScores(docs, subset, FALSE), alpha)
             IN  /\ FoundOffline(blended, 3) = FoundOffline(scaled, 3)
                 /\ \A d, e \in subset :
                       /\ lexical[d] > lexical[e] /\ vector[d] > vector[e]
                             => blended[d] > blended[e]
                       /\ docs[d].matches /\ ~docs[e].matches /\ alpha < 2
                             => bare[d] > bare[e]

\* What a device holds and decides while it is offline, and what is computed for it.
DeviceTrustSound == CacheAsSealed /\ SnapshotObeyed /\ OldSignalsGo
DevicePlansSound == PlanKeepsPins /\ LabelsKept /\ AccountsStayLow /\ OfflineRanksFairly
=============================================================================
