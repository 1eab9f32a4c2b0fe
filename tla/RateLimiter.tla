----------------------------- MODULE RateLimiter -----------------------------
(***************************************************************************)
(* The fixed-window rate limiter (mcp/ratelimit.py).  In memory, a check   *)
(* is one step of a worker's event loop, on counters of its own.  With     *)
(* Redis it is an INCR, an EXPIRE when the counter was new and a TTL when  *)
(* the quota was used up, and other workers' checks come between.  Time is *)
(* counted in ticks, of which a window has WindowTicks.                    *)
(***************************************************************************)
EXTENDS Naturals, FiniteSets

CONSTANTS
    Workers,       \* server processes
    Checks,        \* calls of check that can be under way
    WorkerOf,      \* the process each runs in
    Principals,    \* who is counted: a principal and a bucket
    Quota,         \* limit
    WindowTicks,   \* _WINDOW_SECONDS
    MaxTicks       \* bound: the clock

ASSUME WorkersAssumption == IsFiniteSet(Workers)
ASSUME WorkerOfAssumption == WorkerOf \in [Checks -> Workers]
ASSUME LimiterBounds ==
    Quota \in Nat \ {0} /\ WindowTicks \in Nat \ {0} /\ MaxTicks \in Nat

VARIABLES
    backend,     \* "memory" or "redis"
    clock,
    windows,     \* memory: the window and the count of each worker and principal
    counters,    \* Redis: the count of a principal and a window, and when it expires
    check,       \* the call each check is executing
    allowed,     \* calls that were allowed and counted in the window in which they came
    early        \* ticks by which a refused caller was told to come back too early

limiterVars == <<backend, clock, windows, counters, check, allowed, early>>

Windows == 0..(MaxTicks \div WindowTicks)
WindowOf(t) == t \div WindowTicks
Never == MaxTicks + WindowTicks + 1    \* a counter without an expiry
NotChecking == [pc |-> "idle"]

LimiterInit ==
    /\ backend \in {"memory", "redis"}
    /\ clock = 0
    /\ windows = [w \in Workers |-> [p \in Principals |-> [window |-> 0, count |-> 0]]]
    /\ counters = [p \in Principals |-> [w \in Windows |-> [count |-> 0, expires |-> Never]]]
    /\ check = [c \in Checks |-> NotChecking]
    /\ allowed = [p \in Principals |-> [w \in Windows |-> 0]]
    /\ early = 0

Tick ==
    /\ clock < MaxTicks
    /\ clock' = clock + 1
    /\ UNCHANGED <<backend, windows, counters, check, allowed, early>>

Allow(p, window) ==
    /\ allowed' = [allowed EXCEPT ![p][window] = @ + 1]
    /\ UNCHANGED early

Refuse(window, wait) ==
    /\ LET end == (window + 1) * WindowTicks IN
          early' = IF clock + wait + early >= end THEN early ELSE end - clock - wait
    /\ UNCHANGED allowed

(***************************************************************************)
(* InMemoryRateLimitBackend.check                                          *)
(***************************************************************************)
CheckInMemory(c, p) ==
    /\ backend = "memory"
    /\ LET w == WorkerOf[c]
           now == WindowOf(clock)
           count == 1 + IF windows[w][p].window = now THEN windows[w][p].count ELSE 0
       IN  /\ windows' = [windows EXCEPT ![w][p] = [window |-> now, count |-> count]]
           /\ count <= Quota + 1    \* bound: refusals that are counted
           /\ IF count > Quota THEN Refuse(now, (now + 1) * WindowTicks - clock)
              ELSE Allow(p, now)
    /\ UNCHANGED <<backend, clock, counters, check>>

(***************************************************************************)
(* RedisRateLimitBackend.check                                             *)
(***************************************************************************)
\* Mutant: the key has the principal and the bucket only.
KeyOfPrincipal(at) == 0
KeyOf(at) == WindowOf(at)

Counter(p, k) ==
    IF counters[p][k].expires <= clock THEN [count |-> 0, expires |-> Never]
    ELSE counters[p][k]

StartCheck(c, p) ==
    /\ backend = "redis"
    /\ check[c].pc = "idle"
    /\ check' = [check EXCEPT ![c] = [pc |-> "incr", principal |-> p, at |-> clock,
                                       counted |-> clock]]
    /\ UNCHANGED <<backend, clock, windows, counters, allowed, early>>

CheckMoves(c, pc) == check' = [check EXCEPT ![c].pc = pc, ![c].counted = clock]
Finish(c) == check' = [check EXCEPT ![c] = NotChecking]

\* A call that its INCR finds in a later window may meet a counter that is gone.
AllowCounted(c, counted) ==
    IF WindowOf(check[c].at) = WindowOf(counted)
    THEN Allow(check[c].principal, WindowOf(counted))
    ELSE UNCHANGED <<allowed, early>>

Incr(c) ==
    /\ check[c].pc = "incr"
    /\ LET p == check[c].principal
           k == KeyOf(check[c].at)
           n == Counter(p, k).count + 1
       IN  /\ n <= Quota + 1    \* bound: refusals that are counted
           /\ counters' = [counters EXCEPT ![p][k] = [Counter(p, k) EXCEPT !.count = n]]
           /\ IF n = 1 THEN CheckMoves(c, "expire") /\ UNCHANGED <<allowed, early>>
              ELSE IF n > Quota THEN CheckMoves(c, "ttl") /\ UNCHANGED <<allowed, early>>
              ELSE Finish(c) /\ AllowCounted(c, clock)
    /\ UNCHANGED <<backend, clock, windows>>

SetExpiry(c) ==
    /\ check[c].pc = "expire"
    /\ LET p == check[c].principal
           k == KeyOf(check[c].at)
       IN  /\ counters' = [counters EXCEPT ![p][k] =
                 IF Counter(p, k).count = 0 THEN Counter(p, k)
                 ELSE [@ EXCEPT !.expires = clock + WindowTicks]]
           /\ AllowCounted(c, check[c].counted)
    /\ Finish(c)
    /\ UNCHANGED <<backend, clock, windows>>

\* A counter that has no expiry, or is gone, gives a whole window.
ReadTtl(c) ==
    /\ check[c].pc = "ttl"
    /\ LET counter == Counter(check[c].principal, KeyOf(check[c].at)) IN
          Refuse(WindowOf(check[c].at),
                 IF counter.expires = Never THEN WindowTicks ELSE counter.expires - clock)
    /\ Finish(c)
    /\ UNCHANGED <<backend, clock, windows, counters>>

\* The call is cancelled, Redis fails or the worker dies: nothing is answered.
CheckDies(c) ==
    /\ check[c].pc # "idle"
    /\ Finish(c)
    /\ UNCHANGED <<backend, clock, windows, counters, allowed, early>>

LimiterNext ==
    \/ Tick
    \/ \E c \in Checks :
          \/ \E p \in Principals : CheckInMemory(c, p) \/ StartCheck(c, p)
          \/ Incr(c) \/ SetExpiry(c) \/ ReadTtl(c) \/ CheckDies(c)

LimiterSpec == LimiterInit /\ [][LimiterNext]_limiterVars

-----------------------------------------------------------------------------
LimiterTypeOK ==
    /\ backend \in {"memory", "redis"}
    /\ clock \in 0..MaxTicks
    /\ windows \in [Workers -> [Principals -> [window: Windows, count: 0..(Quota + 1)]]]
    /\ counters \in [Principals -> [Windows -> [count: 0..(Quota + 1), expires: 0..Never]]]
    /\ check \in [Checks -> {NotChecking} \union
          [pc: {"incr", "expire", "ttl"}, principal: Principals, at: 0..MaxTicks,
           counted: 0..MaxTicks]]
    /\ allowed \in [Principals -> [Windows -> Nat]]
    /\ early \in 0..WindowTicks

\* Of the calls that come and are counted in one window a principal is allowed no more
\* than its quota, over all workers with Redis and for each worker in memory; and a
\* caller who is refused and waits as long as it was told is past the window in which it
\* was refused.  A worker that dies between INCR and EXPIRE and checks that overtake each
\* other change neither.
\* (InMemoryRateLimitBackend.check, RedisRateLimitBackend.check.)
QuotaKept ==
    /\ \A p \in Principals, w \in Windows :
          allowed[p][w] <= Quota * (IF backend = "memory" THEN Cardinality(Workers) ELSE 1)
    /\ early = 0
=============================================================================
