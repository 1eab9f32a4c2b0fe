---------------------------- MODULE OfflineLease ----------------------------
(***************************************************************************)
(* The life of the leases on a device's offline cache                      *)
(* (cache/lease_lifecycle.py): LeaseManager issues and renews them,        *)
(* PurgeEngine removes the expired ones on its timer, at start and on a    *)
(* revoke, and both work on SqliteLeaseStore, the cached records and the   *)
(* device token with one call at a time, from different threads.           *)
(*                                                                         *)
(* Time is counted in days and the device's clock may be set to any of     *)
(* them at any moment.                                                     *)
(***************************************************************************)
EXTENDS Integers

CONSTANTS
    Records,     \* ids of cacheable records
    Levels,      \* classification levels
    LevelsOf,    \* those the server may give a record
    Ttl,         \* CLASSIFICATION_TTL_SECONDS, in days
    MaxTime,     \* bound: the last day the clock shows
    MaxCrashes,  \* bound: how often the application dies
    None         \* no lease

ASSUME TtlAssumption == Ttl \in [Levels -> Nat \ {0}]
ASSUME LevelsAssumption == LevelsOf \in [Records -> SUBSET Levels]
ASSUME BoundsAssumption == MaxTime \in Nat /\ MaxCrashes \in Nat

Time == 0..MaxTime

\* What is read of a lease (nothing reads issued_at).
Lease == [level: Levels, expires: Nat]
ASSUME NoneAssumption == None \notin Lease /\ None \notin Records

VARIABLES
    lease,   \* the leases table
    hwm,     \* the high-water mark persisted in the kv table
    mark,    \* the one in the memory of the purge engine
    cached,  \* records whose content is in the cache
    token,   \* the device holds its token
    clock,   \* what time_fn returns
    manager, \* the renewal under way in LeaseManager
    purge,   \* the run under way in PurgeEngine
    crashes,
    due      \* history: the records that the run under way has to remove

stored == <<lease, hwm, cached, token>>
vars == <<lease, hwm, mark, cached, token, clock, manager, purge, crashes>>

Idle == [pc |-> "idle", record |-> None, level |-> None, moment |-> 0]
Asleep == [pc |-> "asleep", now |-> 0, todo |-> {}, record |-> None]

\* A lease of this level, issued or renewed at a moment.
\* Mutant: the TTL is taken off.
GrantedBefore(level, moment) ==
    [level |-> level, expires |-> moment - Ttl[level]]
Granted(level, moment) ==
    [level |-> level, expires |-> moment + Ttl[level]]

\* A lease is valid up to the moment it expires.  Mutant: and at that moment.
ExpiredAfter(l, now) == l # None /\ now > l.expires
Expired(l, now) == IF l = None THEN FALSE ELSE now >= l.expires

\* The mark a new purge engine starts from.  Mutant: it was kept in memory only.
MarkInMemory == 0
LoadedMark == hwm

Init ==
    /\ lease = [r \in Records |-> None]
    /\ hwm = 0
    /\ mark = 0
    /\ cached = {}
    /\ token = TRUE
    /\ clock \in Time
    /\ manager = Idle
    /\ purge = Asleep
    /\ crashes = 0
-----------------------------------------------------------------------------
(* LeaseManager.  Every call piggybacks on a contact with the server, which *)
(* takes the device token.                                                 *)

\* The record's content is cached and its lease issued.
Issue(r, level) ==
    /\ manager.pc = "idle"
    /\ token
    /\ lease' = [lease EXCEPT ![r] = Granted(level, clock)]
    /\ cached' = cached \union {r}
    /\ UNCHANGED <<hwm, mark, token, clock, manager, purge, crashes>>

\* renew(server_grants=True): the moment is taken and the lease looked up; an
\* unknown one is treated as denied.
RenewGranted(r) ==
    /\ manager.pc = "idle"
    /\ token
    /\ manager' = IF lease[r] = None
                  THEN [Idle EXCEPT !.pc = "wipe record", !.record = r]
                  ELSE [pc |-> "upsert", record |-> r, level |-> lease[r].level,
                        moment |-> clock]
    /\ UNCHANGED <<stored, mark, clock, purge, crashes>>

RenewUpsert ==
    /\ manager.pc = "upsert"
    /\ lease' = [lease EXCEPT ![manager.record] = Granted(manager.level, manager.moment)]
    /\ manager' = Idle
    /\ UNCHANGED <<hwm, mark, cached, token, clock, purge, crashes>>

\* renew(server_grants=False): the lease, the record, then the token.
RenewDenied(r) ==
    /\ manager.pc = "idle"
    /\ token
    /\ lease' = [lease EXCEPT ![r] = None]
    /\ manager' = [Idle EXCEPT !.pc = "wipe record", !.record = r]
    /\ UNCHANGED <<hwm, mark, cached, token, clock, purge, crashes>>

DeniedWipeRecord ==
    /\ manager.pc = "wipe record"
    /\ cached' = cached \ {manager.record}
    /\ manager' = [manager EXCEPT !.pc = "wipe token"]
    /\ UNCHANGED <<lease, hwm, mark, token, clock, purge, crashes>>

DeniedWipeToken ==
    /\ manager.pc = "wipe token"
    /\ token' = FALSE
    /\ manager' = Idle
    /\ UNCHANGED <<lease, hwm, mark, cached, clock, purge, crashes>>
-----------------------------------------------------------------------------
(* PurgeEngine                                                             *)

\* The evaluation time, from the clock and the mark.  Mutant: the clock alone.
ClockOnly(now, past) == now
Later(now, past) == IF now >= past THEN now ELSE past

\* Mutant: the mark advances in memory and is not persisted.
NotPersisted(now) == hwm
Persisted(now) == IF now > mark THEN now ELSE hwm

\* _effective_now: the evaluation time never moves back, and its high-water
\* mark is persisted.
Observe(next) ==
    LET now == Later(clock, mark) IN
    /\ purge.pc = "asleep"
    /\ mark' = now
    /\ hwm' = Persisted(now)
    /\ purge' = [Asleep EXCEPT !.pc = next, !.now = now]
    /\ UNCHANGED <<lease, cached, token, clock, manager, crashes>>

\* run_on_timer and run_on_start.
RunOnTimer == Observe("list")
RunOnRevoke == Observe("clear")

\* all_leases() is listed once, and the expired ones are worked off.
ListExpired ==
    /\ purge.pc = "list"
    /\ purge' = [purge EXCEPT !.pc = "delete",
                              !.todo = {r \in Records : Expired(lease[r], purge.now)}]
    /\ UNCHANGED <<stored, mark, clock, manager, crashes>>

DeleteLease ==
    /\ purge.pc = "delete"
    /\ \E r \in purge.todo :
         /\ lease' = [lease EXCEPT ![r] = None]
         /\ purge' = [purge EXCEPT !.pc = "wipe record", !.todo = @ \ {r}, !.record = r]
    /\ UNCHANGED <<hwm, mark, cached, token, clock, manager, crashes>>

\* What the wipe of an expired record leaves in the cache.
\* Mutant: only the lease goes.
CacheUntouched(r) == cached
CacheWithout(r) == cached \ {r}

WipeRecord ==
    /\ purge.pc = "wipe record"
    /\ cached' = CacheWithout(purge.record)
    /\ purge' = [purge EXCEPT !.pc = "delete", !.record = None]
    /\ UNCHANGED <<lease, hwm, mark, token, clock, manager, crashes>>

PurgeDone ==
    /\ purge.pc = "delete"
    /\ purge.todo = {}
    /\ purge' = Asleep
    /\ UNCHANGED <<stored, mark, clock, manager, crashes>>

\* A revoke clears the leases, then the cache, then the token.

RevokeClear ==
    /\ purge.pc = "clear"
    /\ lease' = [r \in Records |-> None]
    /\ purge' = [purge EXCEPT !.pc = "wipe all"]
    /\ UNCHANGED <<hwm, mark, cached, token, clock, manager, crashes>>

RevokeWipeAll ==
    /\ purge.pc = "wipe all"
    /\ cached' = {}
    /\ purge' = [purge EXCEPT !.pc = "wipe token"]
    /\ UNCHANGED <<lease, hwm, mark, token, clock, manager, crashes>>

RevokeWipeToken ==
    /\ purge.pc = "wipe token"
    /\ token' = FALSE
    /\ purge' = Asleep
    /\ UNCHANGED <<lease, hwm, mark, cached, clock, manager, crashes>>
-----------------------------------------------------------------------------
\* The clock of the device moves, or is set back.
SetClock ==
    /\ clock' \in Time \ {clock}
    /\ UNCHANGED <<stored, mark, manager, purge, crashes>>

\* The application dies and starts again on the same database.
Restart ==
    /\ crashes < MaxCrashes
    /\ crashes' = crashes + 1
    /\ mark' = LoadedMark
    /\ manager' = Idle
    /\ purge' = Asleep
    /\ UNCHANGED <<stored, clock>>

PurgeStep == ListExpired \/ DeleteLease \/ WipeRecord \/ PurgeDone
RevokeStep == RevokeClear \/ RevokeWipeAll \/ RevokeWipeToken

Next ==
    \/ \E r \in Records : \E level \in LevelsOf[r] : Issue(r, level)
    \/ \E r \in Records : RenewGranted(r) \/ RenewDenied(r)
    \/ RenewUpsert \/ DeniedWipeRecord \/ DeniedWipeToken
    \/ RunOnTimer \/ PurgeStep
    \/ RunOnRevoke \/ RevokeStep
    \/ SetClock
    \/ Restart

\* The background timer fires again and again, and a run goes on to its end.
Fairness == WF_vars(RunOnTimer) /\ WF_vars(PurgeStep) /\ WF_vars(RevokeStep)

Spec == Init /\ [][Next]_vars

\* A record is due when the run lists its lease as expired, or a revoke starts,
\* and no longer when a lease for it is issued or renewed before the run ends.
NextDue ==
    IF purge'.pc = "asleep" THEN {}
    ELSE IF purge.pc = "list" THEN {r \in Records : lease[r] # None /\ lease[r].expires <= purge.now}
    ELSE IF purge.pc = "asleep" /\ purge'.pc = "clear" THEN Records
    ELSE {r \in due : lease'[r] = None \/ lease'[r] = lease[r]}

runVars == <<vars, due>>
RunInit == Init /\ due = {}
RunNext == Next /\ due' = NextDue
RunSpec == RunInit /\ [][RunNext]_runVars
FairSpec == RunSpec /\ Fairness
-----------------------------------------------------------------------------
(* Properties                                                              *)

\* Every variable has its type; in particular no time is ever negative.
TypeOK ==
    /\ lease \in [Records -> Lease \union {None}]
    /\ hwm \in Nat /\ mark \in Nat /\ clock \in Time
    /\ cached \subseteq Records
    /\ token \in BOOLEAN
    /\ manager \in [pc: {"idle", "upsert", "wipe record", "wipe token"},
                    record: Records \union {None}, level: Levels \union {None}, moment: Nat]
    /\ purge \in [pc: {"asleep", "list", "delete", "wipe record", "clear", "wipe all",
                       "wipe token"},
                  now: Nat, todo: SUBSET Records, record: Records \union {None}]
    /\ crashes \in 0..MaxCrashes

\* The time of the run under way is never ahead of the persisted mark.
RunAnchored == purge.pc # "asleep" => purge.now <= hwm

\* The time against which leases are purged never goes back, whatever the
\* clock does and however often the application restarts (F-008): neither the
\* persisted mark nor the one the engine works with; and whatever is purged
\* was expired at every later evaluation time too.
Anchored == [][hwm' >= hwm /\ mark' >= mark /\ RunAnchored']_vars

\* When a run of the purge engine ends, every record whose lease had expired
\* when it began (a revoke: every record) is gone, lease and content, unless
\* the server granted it again in the meantime.
Swept ==
    [][(purge.pc # "asleep" /\ purge'.pc = "asleep" /\ crashes' = crashes) =>
          \A r \in due : lease'[r] = None /\ r \notin cached']_runVars

\* A run of the purge engine goes by a time that no restart and no clock sets back, and
\* removes all that is due by it.
PurgesSound == Anchored /\ Swept

\* An expired lease is eventually removed or replaced, by a timer that keeps
\* firing, although the application may die in the middle of a run.
ExpiredLeaseEnds ==
    \A r \in Records : \A l \in UNION {{Granted(level, t) : level \in LevelsOf[r]} : t \in Time} :
        (lease[r] = l /\ Expired(l, hwm)) ~> (lease[r] # l)

\* "Removes expired leases (and their backing cache records)": a cached record
\* has a lease, by which a later run finds it, unless it is being wiped.
NoOrphan ==
    \A r \in cached :
        \/ lease[r] # None
        \/ manager.pc = "wipe record" /\ manager.record = r
        \/ purge.pc = "wipe record" /\ purge.record = r
        \/ purge.pc = "wipe all"
=============================================================================
