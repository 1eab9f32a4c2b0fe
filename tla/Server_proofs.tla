----------------------------- MODULE Server_proofs ----------------------------
EXTENDS McpSessions, RateLimiter, PolicyEngine, EventFabric, Recall, FiniteSetTheorems,
        SequenceTheorems, TLAPS
(***************************************************************************)
(* Parts of the server, one after the other: the quota of the limiter, the *)
(* decisions of the policy engine, the checkpoints of closed sessions, the *)
(* event fabric, and recall.                                               *)
(***************************************************************************)

-----------------------------------------------------------------------------
(* RateLimiter                                                             *)

LEMMA DivBounds ==
    ASSUME NEW t \in Nat, NEW n \in Nat \ {0}
    PROVE  /\ t \div n \in Nat
           /\ (t \div n) * n <= t
           /\ t < ((t \div n) + 1) * n
OBVIOUS

LEMMA ProductGrows ==
    ASSUME NEW i \in Nat, NEW j \in Nat, NEW n \in Nat, i <= j
    PROVE  i * n <= j * n /\ i * n \in Nat /\ j * n \in Nat
OBVIOUS

LEMMA WindowStarts ==
    ASSUME NEW t \in Nat
    PROVE  /\ WindowOf(t) \in Nat
           /\ WindowOf(t) * WindowTicks <= t
           /\ t < (WindowOf(t) + 1) * WindowTicks
           /\ WindowOf(t) * WindowTicks \in Nat /\ (WindowOf(t) + 1) * WindowTicks \in Nat
BY DivBounds, LimiterBounds, ProductGrows DEF WindowOf

LEMMA WindowsGrow ==
    ASSUME NEW s \in Nat, NEW t \in Nat, s <= t
    PROVE  WindowOf(s) <= WindowOf(t)
<1> SUFFICES ASSUME WindowOf(t) + 1 <= WindowOf(s) PROVE FALSE
  BY WindowStarts
<1>1. (WindowOf(t) + 1) * WindowTicks <= WindowOf(s) * WindowTicks
  <2>1. WindowOf(t) + 1 \in Nat /\ WindowOf(s) \in Nat /\ WindowTicks \in Nat
    BY WindowStarts, LimiterBounds
  <2> QED BY <2>1, ProductGrows
<1>2. t < (WindowOf(t) + 1) * WindowTicks /\ WindowOf(s) * WindowTicks <= s
  BY WindowStarts
<1>3. (WindowOf(t) + 1) * WindowTicks \in Nat /\ WindowOf(s) * WindowTicks \in Nat
  BY WindowStarts
<1> QED BY <1>1, <1>2, <1>3

Now == WindowOf(clock)

\* What the workers have counted for p in the window of now, up to the quota.
Spent(p) ==
    {s \in Workers \X (1..Quota) :
        windows[s[1]][p].window = Now /\ s[2] <= windows[s[1]][p].count}

MemoryCounts ==
    /\ \A c \in Checks : check[c].pc = "idle"
    /\ \A p \in Principals, w \in Windows :
          /\ allowed[p][w] <= Quota * Cardinality(Workers)
          /\ w = Now => allowed[p][w] <= Cardinality(Spent(p))
          /\ w > Now => allowed[p][w] = 0

\* The first call of a window, which is counted and not yet allowed.
Pending(p, w) ==
    {c \in Checks : /\ check[c].pc = "expire" /\ check[c].principal = p
                    /\ WindowOf(check[c].at) = w /\ WindowOf(check[c].counted) = w}
Charged(p, w) == allowed[p][w] + IF Pending(p, w) = {} THEN 0 ELSE 1

RedisCounts ==
    /\ \A c \in Checks :
          check[c].pc # "idle" => check[c].at <= check[c].counted /\ check[c].counted <= clock
    /\ \A p \in Principals, w \in Windows :
          /\ \A c, d \in Pending(p, w) : c = d
          /\ Charged(p, w) <= Quota
          /\ w = Now => Charged(p, w) <= counters[p][w].count
          /\ w > Now => counters[p][w].count = 0 /\ allowed[p][w] = 0
          /\ (w + 1) * WindowTicks <= counters[p][w].expires

LimiterIInv ==
    /\ LimiterTypeOK
    /\ early = 0
    /\ IF backend = "memory" THEN MemoryCounts ELSE RedisCounts

-----------------------------------------------------------------------------
LEMMA LimiterTyped ==
    ASSUME LimiterTypeOK
    PROVE  /\ clock \in Nat /\ clock <= MaxTicks /\ Never \in Nat /\ Now \in Windows
           /\ Windows \subseteq Nat
           /\ Quota \in Nat /\ WindowTicks \in Nat
           /\ \A v \in Workers, p \in Principals :
                 /\ windows[v][p].window \in Windows
                 /\ windows[v][p].count \in 0..(Quota + 1)
           /\ \A p \in Principals, w \in Windows :
                 /\ counters[p][w] \in [count: 0..(Quota + 1), expires: 0..Never]
                 /\ counters[p][w].count \in 0..(Quota + 1)
                 /\ counters[p][w].expires \in 0..Never
                 /\ allowed[p][w] \in Nat
<1>1. clock \in Nat /\ clock <= MaxTicks /\ Never \in Nat /\ Quota \in Nat /\ WindowTicks \in Nat
  BY LimiterBounds DEF LimiterTypeOK, Never
<1>2. MaxTicks \div WindowTicks \in Nat
  BY DivBounds, LimiterBounds
<1>3. Now \in Windows
  <2>1. WindowOf(clock) <= WindowOf(MaxTicks) /\ WindowOf(clock) \in Nat
    BY <1>1, LimiterBounds, WindowsGrow, WindowStarts
  <2> QED BY <1>2, <2>1 DEF Now, Windows, WindowOf
<1>4. Windows \subseteq Nat
  BY <1>2 DEF Windows
<1>5. ASSUME NEW v \in Workers, NEW p \in Principals
      PROVE  /\ windows[v][p].window \in Windows
             /\ windows[v][p].count \in 0..(Quota + 1)
  <2>1. windows[v][p] \in [window: Windows, count: 0..(Quota + 1)]
    BY DEF LimiterTypeOK
  <2> QED BY <2>1
<1>6. ASSUME NEW p \in Principals, NEW w \in Windows
      PROVE  /\ counters[p][w] \in [count: 0..(Quota + 1), expires: 0..Never]
             /\ counters[p][w].count \in 0..(Quota + 1)
             /\ counters[p][w].expires \in 0..Never
             /\ allowed[p][w] \in Nat
  <2>1. counters[p][w] \in [count: 0..(Quota + 1), expires: 0..Never]
    BY DEF LimiterTypeOK
  <2> QED BY <2>1 DEF LimiterTypeOK
<1> QED BY <1>1, <1>3, <1>4, <1>5, <1>6

LEMMA CheckTyped ==
    ASSUME LimiterTypeOK, NEW c \in Checks, check[c].pc # "idle"
    PROVE  /\ check[c] \in [pc: {"incr", "expire", "ttl"}, principal: Principals,
                            at: 0..MaxTicks, counted: 0..MaxTicks]
           /\ check[c].principal \in Principals
           /\ check[c].at \in 0..MaxTicks /\ check[c].counted \in 0..MaxTicks
           /\ check[c].at \in Nat /\ check[c].counted \in Nat
           /\ WindowOf(check[c].at) \in Windows
<1>1. check[c] \in [pc: {"incr", "expire", "ttl"}, principal: Principals,
                    at: 0..MaxTicks, counted: 0..MaxTicks]
  BY DEF LimiterTypeOK, NotChecking
<1>2. check[c].at \in 0..MaxTicks /\ check[c].counted \in 0..MaxTicks
  BY <1>1
<1>3. check[c].at \in Nat /\ check[c].at <= MaxTicks /\ check[c].counted \in Nat
  BY <1>2, LimiterBounds
<1>4. WindowOf(check[c].at) \in Windows
  <2>1. WindowOf(check[c].at) <= WindowOf(MaxTicks) /\ WindowOf(check[c].at) \in Nat
    BY <1>3, LimiterBounds, WindowsGrow, WindowStarts
  <2>2. WindowOf(MaxTicks) \in Nat
    BY LimiterBounds, WindowStarts
  <2> QED BY <2>1, <2>2 DEF Windows, WindowOf
<1> QED BY <1>1, <1>2, <1>3, <1>4

\* A window ends before a counter without an expiry would.
LEMMA WindowsFit ==
    ASSUME NEW w \in Windows
    PROVE  (w + 1) * WindowTicks \in Nat /\ (w + 1) * WindowTicks <= Never
<1>1. MaxTicks \div WindowTicks \in Nat /\ (MaxTicks \div WindowTicks) * WindowTicks <= MaxTicks
  BY DivBounds, LimiterBounds
<1>2. w \in Nat /\ w <= MaxTicks \div WindowTicks
  BY <1>1 DEF Windows
<1>3. w * WindowTicks <= (MaxTicks \div WindowTicks) * WindowTicks /\ w * WindowTicks \in Nat
      /\ (MaxTicks \div WindowTicks) * WindowTicks \in Nat
  BY <1>1, <1>2, LimiterBounds, ProductGrows
<1>4. (w + 1) * WindowTicks = w * WindowTicks + WindowTicks
  BY <1>2, LimiterBounds
<1> QED BY <1>1, <1>3, <1>4, LimiterBounds DEF Never

\* What the workers can count in a window is the quota of each.
LEMMA SpentFinite ==
    ASSUME NEW S \in SUBSET (Workers \X (1..Quota))
    PROVE  /\ IsFiniteSet(S) /\ Cardinality(S) \in Nat
           /\ Cardinality(S) <= Quota * Cardinality(Workers)
<1>1. IsFiniteSet(1..Quota) /\ Cardinality(1..Quota) = Quota
  BY LimiterBounds, FS_Interval
<1>2. /\ IsFiniteSet(Workers \X (1..Quota))
      /\ Cardinality(Workers \X (1..Quota)) = Cardinality(Workers) * Quota
  BY <1>1, WorkersAssumption, FS_Product
<1>3. Cardinality(Workers) * Quota = Quota * Cardinality(Workers)
  BY WorkersAssumption, FS_CardinalityType, LimiterBounds
<1> QED BY <1>2, <1>3, FS_Subset, FS_CardinalityType

\* Nobody has counted a call in a window that is still to come.
LEMMA NonePending ==
    ASSUME LimiterTypeOK, RedisCounts, NEW p \in Principals, NEW w \in Windows, w > Now
    PROVE  Pending(p, w) = {}
<1> SUFFICES ASSUME NEW c \in Pending(p, w) PROVE FALSE
  OBVIOUS
<1>1. c \in Checks /\ check[c].pc = "expire" /\ WindowOf(check[c].counted) = w
  BY DEF Pending
<1>2. check[c].counted <= clock /\ check[c].counted \in Nat /\ clock \in Nat
  BY <1>1, CheckTyped, LimiterTyped DEF RedisCounts
<1>3. WindowOf(check[c].counted) <= Now
  BY <1>2, WindowsGrow DEF Now
<1>4. w \in Nat /\ Now \in Nat
  BY LimiterTyped
<1> QED BY <1>1, <1>3, <1>4

LEMMA LimiterStarts == LimiterInit => LimiterIInv
<1> SUFFICES ASSUME LimiterInit PROVE LimiterIInv
  OBVIOUS
<1>1. MaxTicks \div WindowTicks \in Nat /\ Never \in Nat /\ 0 \in Windows
  BY DivBounds, LimiterBounds DEF Never, Windows
<1>2. LimiterTypeOK
  BY <1>1, LimiterBounds DEF LimiterInit, LimiterTypeOK
<1>3. early = 0
  BY DEF LimiterInit
<1>4. MemoryCounts
  <2>1. \A p \in Principals, w \in Windows : allowed[p][w] = 0
    BY DEF LimiterInit
  <2>2. Quota * Cardinality(Workers) \in Nat
    BY WorkersAssumption, FS_CardinalityType, LimiterBounds, ProductGrows
  <2>3. ASSUME NEW p \in Principals PROVE Cardinality(Spent(p)) \in Nat
    BY SpentFinite DEF Spent
  <2>4. \A c \in Checks : check[c].pc = "idle"
    BY DEF LimiterInit, NotChecking
  <2> QED BY <2>1, <2>2, <2>3, <2>4 DEF MemoryCounts
<1>5. RedisCounts
  <2>1. ASSUME NEW p \in Principals, NEW w \in Windows
        PROVE  /\ Pending(p, w) = {} /\ allowed[p][w] = 0
               /\ counters[p][w].count = 0 /\ counters[p][w].expires = Never
    BY DEF LimiterInit, Pending, NotChecking
  <2>2. ASSUME NEW w \in Windows PROVE (w + 1) * WindowTicks <= Never
    BY WindowsFit
  <2>3. \A c \in Checks : check[c].pc = "idle"
    BY DEF LimiterInit, NotChecking
  <2> QED BY <2>1, <2>2, <2>3, LimiterBounds DEF RedisCounts, Charged
<1> QED BY <1>2, <1>3, <1>4, <1>5 DEF LimiterIInv

LEMMA TickKept ==
    ASSUME LimiterIInv, Tick
    PROVE  LimiterIInv'
<1>1. LimiterTypeOK /\ LimiterTypeOK'
  BY LimiterBounds DEF Tick, LimiterIInv, LimiterTypeOK
<1>2. Now <= Now' /\ Now \in Nat /\ Now' \in Nat /\ clock \in Nat /\ clock' = clock + 1
  <2>1. clock \in Nat /\ clock' = clock + 1
    BY <1>1, LimiterTyped DEF Tick
  <2> QED BY <2>1, WindowsGrow, WindowStarts DEF Now
<1>3. CASE backend = "memory"
  <2>1. MemoryCounts
    BY <1>3 DEF LimiterIInv
  <2>2. ASSUME NEW p \in Principals, NEW w \in Windows
        PROVE  /\ allowed'[p][w] <= Quota * Cardinality(Workers)
               /\ w = Now' => allowed'[p][w] <= Cardinality(Spent(p)')
               /\ w > Now' => allowed'[p][w] = 0
    <3>1. allowed'[p][w] = allowed[p][w]
      BY DEF Tick
    <3>2. w \in Nat
      BY <1>1, LimiterTyped
    <3>3. ASSUME w = Now' PROVE allowed[p][w] <= Cardinality(Spent(p)')
      <4>1. CASE Now = Now'
        <5>1. Spent(p)' = Spent(p)
          BY <4>1 DEF Tick, Spent
        <5> QED BY <2>1, <3>3, <4>1, <5>1 DEF MemoryCounts
      <4>2. CASE Now < Now'
        <5>1. allowed[p][w] = 0
          BY <2>1, <3>3, <4>2 DEF MemoryCounts
        <5>2. Cardinality(Spent(p)') \in Nat
          BY SpentFinite DEF Spent
        <5> QED BY <5>1, <5>2
      <4> QED BY <1>2, <4>1, <4>2
    <3> QED BY <1>2, <2>1, <3>1, <3>2, <3>3 DEF MemoryCounts
  <2>3. \A c \in Checks : check'[c].pc = "idle"
    BY <2>1 DEF MemoryCounts, Tick
  <2> QED BY <1>1, <1>3, <2>2, <2>3 DEF LimiterIInv, MemoryCounts, Tick
<1>4. CASE backend # "memory"
  <2>1. RedisCounts
    BY <1>4 DEF LimiterIInv
  <2>2. ASSUME NEW p \in Principals, NEW w \in Windows
        PROVE  /\ \A c, d \in Pending(p, w)' : c = d
               /\ Charged(p, w)' <= Quota
               /\ w = Now' => Charged(p, w)' <= counters'[p][w].count
               /\ w > Now' => counters'[p][w].count = 0 /\ allowed'[p][w] = 0
               /\ (w + 1) * WindowTicks <= counters'[p][w].expires
    <3>1. Pending(p, w)' = Pending(p, w) /\ Charged(p, w)' = Charged(p, w)
          /\ allowed' = allowed /\ counters' = counters
      BY DEF Tick, Pending, Charged
    <3>2. w \in Nat
      BY <1>1, LimiterTyped
    <3>3. ASSUME w = Now', Now < Now' PROVE Charged(p, w) <= counters[p][w].count
      <4>1. counters[p][w].count = 0 /\ allowed[p][w] = 0
        BY <2>1, <3>3 DEF RedisCounts
      <4>2. Pending(p, w) = {}
        BY <1>1, <1>2, <2>1, <3>3, NonePending
      <4> QED BY <4>1, <4>2 DEF Charged
    <3> QED BY <1>2, <2>1, <3>1, <3>2, <3>3 DEF RedisCounts
  <2>3. ASSUME NEW c \in Checks, check'[c].pc # "idle"
        PROVE  check'[c].at <= check'[c].counted /\ check'[c].counted <= clock'
    <3>1. check' = check
      BY DEF Tick
    <3>2. check[c].at <= check[c].counted /\ check[c].counted <= clock
      BY <2>1, <2>3, <3>1 DEF RedisCounts
    <3>3. check[c].counted \in Nat
      BY <1>1, <2>3, <3>1, CheckTyped
    <3> QED BY <1>2, <3>1, <3>2, <3>3
  <2> QED BY <1>1, <1>4, <2>2, <2>3 DEF LimiterIInv, RedisCounts, Tick
<1> QED BY <1>3, <1>4

LEMMA CheckInMemoryKept ==
    ASSUME LimiterIInv, NEW c \in Checks, NEW p \in Principals, CheckInMemory(c, p)
    PROVE  LimiterIInv'
<1> DEFINE v == WorkerOf[c]
           count == 1 + IF windows[v][p].window = Now THEN windows[v][p].count ELSE 0
<1>1. LimiterTypeOK /\ MemoryCounts /\ early = 0 /\ v \in Workers
  BY WorkerOfAssumption DEF LimiterIInv, CheckInMemory
<1>2. /\ backend = "memory" /\ backend' = "memory" /\ clock' = clock /\ Now' = Now
      /\ counters' = counters /\ check' = check
      /\ windows' = [windows EXCEPT ![v][p] = [window |-> Now, count |-> count]]
      /\ count <= Quota + 1
      /\ IF count > Quota THEN Refuse(Now, (Now + 1) * WindowTicks - clock) ELSE Allow(p, Now)
  BY DEF CheckInMemory, Now
<1>3. count \in 1..(Quota + 1) /\ Now \in Windows
  BY <1>1, <1>2, LimiterTyped
<1>4. \A u \in Workers, r \in Principals :
         windows'[u][r] = IF u = v /\ r = p THEN [window |-> Now, count |-> count]
                          ELSE windows[u][r]
  BY <1>1, <1>2 DEF LimiterTypeOK
<1>5. early' = 0
  <2>1. CASE count > Quota
    <3>1. (Now + 1) * WindowTicks \in Nat /\ clock \in Nat
      BY <1>1, LimiterTyped, WindowStarts DEF Now
    <3>2. clock + ((Now + 1) * WindowTicks - clock) + early >= (Now + 1) * WindowTicks
      BY <1>1, <3>1
    <3> QED BY <1>1, <1>2, <2>1, <3>2 DEF Refuse
  <2>2. CASE ~(count > Quota)
    BY <1>1, <1>2, <2>2 DEF Allow
  <2> QED BY <2>1, <2>2
<1>6. /\ \A r \in Principals, w \in Windows :
            allowed'[r][w] = IF r = p /\ w = Now /\ ~(count > Quota) THEN allowed[r][w] + 1
                             ELSE allowed[r][w]
      /\ allowed' \in [Principals -> [Windows -> Nat]]
  <2>1. CASE count > Quota
    BY <1>1, <1>2, <2>1 DEF Refuse, LimiterTypeOK
  <2>2. CASE ~(count > Quota)
    <3>1. allowed' = [allowed EXCEPT ![p][Now] = @ + 1]
      BY <1>2, <2>2 DEF Allow
    <3> HIDE DEF count
    <3> QED BY <1>1, <1>3, <2>2, <3>1 DEF LimiterTypeOK
  <2> QED BY <2>1, <2>2
<1>7. LimiterTypeOK'
  <2>1. windows' \in [Workers -> [Principals -> [window: Windows, count: 0..(Quota + 1)]]]
    <3> HIDE DEF count, v
    <3>1. [window |-> Now, count |-> count] \in [window: Windows, count: 0..(Quota + 1)]
      BY <1>3, LimiterBounds
    <3> QED BY <1>1, <1>2, <3>1 DEF LimiterTypeOK
  <2> QED BY <1>1, <1>2, <1>5, <1>6, <2>1, LimiterBounds DEF LimiterTypeOK
<1>8. MemoryCounts'
  <2> HIDE DEF v, count
  <2>1. ASSUME NEW r \in Principals PROVE Spent(r) \subseteq Spent(r)'
    <3>1. ASSUME NEW u \in Workers, windows[u][r].window = Now
          PROVE  /\ windows'[u][r].window = Now
                 /\ windows[u][r].count <= windows'[u][r].count
                 /\ windows[u][r].count \in Nat /\ windows'[u][r].count \in Nat
      <4>1. windows[u][r].count \in 0..(Quota + 1)
        BY <1>1, LimiterTyped
      <4>2. CASE u = v /\ r = p
        <5>1. count = 1 + windows[u][r].count
          BY <3>1, <4>2 DEF count
        <5> QED BY <1>4, <4>1, <4>2, <5>1, LimiterBounds
      <4> QED BY <1>4, <3>1, <4>1, <4>2, LimiterBounds
    <3>2. ASSUME NEW s \in Spent(r) PROVE s \in Spent(r)'
      <4>1. s \in Workers \X (1..Quota) /\ windows[s[1]][r].window = Now
            /\ s[2] <= windows[s[1]][r].count
        BY DEF Spent
      <4>2. s[1] \in Workers /\ s[2] \in Nat
        BY <4>1, LimiterBounds
      <4> QED BY <1>2, <3>1, <4>1, <4>2 DEF Spent
    <3> QED BY <3>2
  <2>2. ASSUME NEW r \in Principals
        PROVE  Cardinality(Spent(r)) <= Cardinality(Spent(r)') /\ Cardinality(Spent(r)) \in Nat
               /\ Cardinality(Spent(r)') \in Nat
               /\ Cardinality(Spent(r)') <= Quota * Cardinality(Workers)
    <3>1. Spent(r)' \in SUBSET (Workers \X (1..Quota))
      BY DEF Spent
    <3>2. IsFiniteSet(Spent(r)') /\ Cardinality(Spent(r)') \in Nat
          /\ Cardinality(Spent(r)') <= Quota * Cardinality(Workers)
      BY <3>1, SpentFinite
    <3> QED BY <2>1, <3>2, FS_Subset, FS_CardinalityType
  <2>3. ASSUME ~(count > Quota)
        PROVE  Cardinality(Spent(p)) + 1 <= Cardinality(Spent(p)')
    <3>1. <<v, count>> \in Spent(p)'
      <4>1. windows'[v][p].window = Now /\ windows'[v][p].count = count
        BY <1>1, <1>4
      <4> QED BY <1>1, <1>2, <1>3, <2>3, <4>1, LimiterBounds DEF Spent
    <3>2. <<v, count>> \notin Spent(p)
      <4> SUFFICES ASSUME <<v, count>> \in Spent(p) PROVE FALSE
        OBVIOUS
      <4>1. windows[v][p].window = Now /\ count <= windows[v][p].count
        BY DEF Spent
      <4>2. count = 1 + windows[v][p].count
        BY <4>1 DEF count
      <4>3. windows[v][p].count \in 0..(Quota + 1)
        BY <1>1, LimiterTyped
      <4> QED BY <4>1, <4>2, <4>3, LimiterBounds
    <3>3. IsFiniteSet(Spent(p)) /\ IsFiniteSet(Spent(p)')
      BY SpentFinite DEF Spent
    <3>4. IsFiniteSet(Spent(p) \union {<<v, count>>})
          /\ Cardinality(Spent(p) \union {<<v, count>>}) = Cardinality(Spent(p)) + 1
      BY <3>2, <3>3, FS_AddElement
    <3>5. Spent(p) \union {<<v, count>>} \in SUBSET Spent(p)'
      BY <2>1, <3>1
    <3> QED BY <3>3, <3>4, <3>5, FS_Subset
  <2>4. ASSUME NEW r \in Principals, NEW w \in Windows
        PROVE  /\ allowed'[r][w] <= Quota * Cardinality(Workers)
               /\ w = Now' => allowed'[r][w] <= Cardinality(Spent(r)')
               /\ w > Now' => allowed'[r][w] = 0
    <3>0. w \in Nat /\ Now \in Nat /\ allowed[r][w] \in Nat
          /\ Quota * Cardinality(Workers) \in Nat
      BY <1>1, LimiterTyped, WorkersAssumption, FS_CardinalityType, ProductGrows, LimiterBounds
    <3>1. /\ allowed[r][w] <= Quota * Cardinality(Workers)
          /\ w = Now => allowed[r][w] <= Cardinality(Spent(r))
          /\ w > Now => allowed[r][w] = 0
      BY <1>1 DEF MemoryCounts
    <3>2. CASE r = p /\ w = Now /\ ~(count > Quota)
      <4>1. allowed'[r][w] = allowed[r][w] + 1
        BY <1>6, <3>2
      <4> QED BY <1>2, <2>2, <2>3, <3>0, <3>1, <3>2, <4>1
    <3>3. CASE ~(r = p /\ w = Now /\ ~(count > Quota))
      <4>1. allowed'[r][w] = allowed[r][w]
        BY <1>6, <3>3
      <4> QED BY <1>2, <2>2, <3>0, <3>1, <4>1
    <3> QED BY <3>2, <3>3
  <2>5. \A d \in Checks : check'[d].pc = "idle"
    BY <1>1, <1>2 DEF MemoryCounts
  <2> QED BY <2>4, <2>5 DEF MemoryCounts
<1> QED BY <1>2, <1>5, <1>7, <1>8 DEF LimiterIInv

-----------------------------------------------------------------------------
\* A check that is over, or has not counted, takes nothing away from the others.
LEMMA FewerPending ==
    ASSUME LimiterTypeOK, RedisCounts, allowed' = allowed, counters' = counters, clock' = clock,
           \A p \in Principals, w \in Windows : Pending(p, w)' \subseteq Pending(p, w),
           \A c \in Checks : check'[c].pc # "idle" =>
              check'[c].at <= check'[c].counted /\ check'[c].counted <= clock'
    PROVE  RedisCounts'
<1>1. ASSUME NEW p \in Principals, NEW w \in Windows
      PROVE  /\ \A c, d \in Pending(p, w)' : c = d
             /\ Charged(p, w)' <= Quota
             /\ w = Now => Charged(p, w)' <= counters[p][w].count
  <2>1. allowed[p][w] \in Nat /\ counters[p][w].count \in Nat /\ Quota \in Nat
    BY LimiterTyped
  <2>2. Charged(p, w)' <= Charged(p, w) /\ Charged(p, w) \in Nat /\ Charged(p, w)' \in Nat
    BY <2>1 DEF Charged
  <2>3. /\ \A c, d \in Pending(p, w) : c = d
        /\ Charged(p, w) <= Quota
        /\ w = Now => Charged(p, w) <= counters[p][w].count
    BY DEF RedisCounts
  <2> QED BY <2>1, <2>2, <2>3
<1> QED BY <1>1 DEF RedisCounts, Now

LEMMA ChecksMoveKept ==
    ASSUME LimiterIInv, backend # "memory", NEW c \in Checks,
           \/ \E p \in Principals : StartCheck(c, p)
           \/ ReadTtl(c) \/ CheckDies(c)
    PROVE  LimiterIInv'
<1>1. LimiterTypeOK /\ RedisCounts /\ early = 0
  BY DEF LimiterIInv
<1>2. backend' = backend /\ clock' = clock /\ windows' = windows /\ counters' = counters
      /\ allowed' = allowed
  BY DEF StartCheck, ReadTtl, CheckDies, Refuse
<1>3. early' = 0
  <2>1. CASE ReadTtl(c)
    <3> DEFINE p == check[c].principal
               k == WindowOf(check[c].at)
               counter == Counter(p, k)
               wait == IF counter.expires = Never THEN WindowTicks ELSE counter.expires - clock
    <3>1. p \in Principals /\ k \in Windows /\ check[c].at \in Nat /\ check[c].at <= clock
          /\ clock \in Nat
      <4>1. check[c].pc # "idle"
        BY <2>1 DEF ReadTtl
      <4>2. check[c].at <= check[c].counted /\ check[c].counted <= clock
        BY <1>1, <4>1 DEF RedisCounts
      <4> QED BY <1>1, <4>1, <4>2, CheckTyped, LimiterTyped
    <3>2. /\ k \in Nat /\ k * WindowTicks \in Nat /\ (k + 1) * WindowTicks \in Nat
          /\ k * WindowTicks <= check[c].at /\ (k + 1) * WindowTicks = k * WindowTicks + WindowTicks
      BY <3>1, WindowStarts, LimiterBounds
    <3>3. counters[p][k].expires \in Nat /\ (k + 1) * WindowTicks <= counters[p][k].expires
      BY <1>1, <3>1, LimiterTyped DEF RedisCounts
    <3>4. clock + wait >= (k + 1) * WindowTicks /\ wait \in Int
      <4> HIDE DEF p, k
      <4>1. CASE counter.expires = Never
        BY <3>1, <3>2, <4>1, LimiterBounds
      <4>2. CASE counter.expires # Never
        <5>1. counter = counters[p][k]
          BY <4>2 DEF Counter
        <5> QED BY <3>1, <3>2, <3>3, <4>2, <5>1
      <4> QED BY <4>1, <4>2
    <3>5. Refuse(k, wait)
      BY <2>1 DEF ReadTtl, KeyOf
    <3>6. clock + wait + early >= (k + 1) * WindowTicks
      <4> HIDE DEF wait, k
      <4> QED BY <1>1, <3>1, <3>4
    <3> QED BY <1>1, <3>5, <3>6 DEF Refuse
  <2>2. CASE ~ReadTtl(c)
    BY <1>1, <2>2 DEF StartCheck, CheckDies
  <2> QED BY <2>1, <2>2
<1>4. PICK rec : /\ check' = [check EXCEPT ![c] = rec]
                 /\ rec \in {NotChecking} \union
                      [pc: {"incr", "expire", "ttl"}, principal: Principals, at: 0..MaxTicks,
                       counted: 0..MaxTicks]
                 /\ rec.pc # "expire"
                 /\ rec.pc # "idle" => rec.at <= rec.counted /\ rec.counted <= clock
  <2>1. CASE ReadTtl(c) \/ CheckDies(c)
    <3>1. check' = [check EXCEPT ![c] = NotChecking]
      BY <2>1 DEF ReadTtl, CheckDies, Finish
    <3>2. NotChecking.pc = "idle"
      BY DEF NotChecking
    <3> QED BY <3>1, <3>2
  <2>2. ASSUME NEW p \in Principals, StartCheck(c, p)
        PROVE  \E rec : /\ check' = [check EXCEPT ![c] = rec]
                        /\ rec \in {NotChecking} \union
                             [pc: {"incr", "expire", "ttl"}, principal: Principals,
                              at: 0..MaxTicks, counted: 0..MaxTicks]
                        /\ rec.pc # "expire"
                        /\ rec.pc # "idle" => rec.at <= rec.counted /\ rec.counted <= clock
    <3> DEFINE rec == [pc |-> "incr", principal |-> p, at |-> clock, counted |-> clock]
    <3>1. check' = [check EXCEPT ![c] = rec]
      BY <2>2 DEF StartCheck
    <3>2. rec \in [pc: {"incr", "expire", "ttl"}, principal: Principals, at: 0..MaxTicks,
                   counted: 0..MaxTicks] /\ rec.at <= rec.counted /\ rec.counted <= clock
      BY <1>1, LimiterBounds DEF LimiterTypeOK
    <3> QED BY <3>1, <3>2
  <2> QED BY <2>1, <2>2
<1>5. \A d \in Checks : check'[d] = IF d = c THEN rec ELSE check[d]
  BY <1>1, <1>4 DEF LimiterTypeOK
<1>6. LimiterTypeOK'
  BY <1>1, <1>2, <1>3, <1>4, LimiterBounds DEF LimiterTypeOK
<1>7. \A p \in Principals, w \in Windows : Pending(p, w)' \subseteq Pending(p, w)
  BY <1>4, <1>5 DEF Pending
<1>8. \A d \in Checks : check'[d].pc # "idle" =>
         check'[d].at <= check'[d].counted /\ check'[d].counted <= clock'
  BY <1>1, <1>2, <1>4, <1>5 DEF RedisCounts
<1>9. RedisCounts'
  BY <1>1, <1>2, <1>7, <1>8, FewerPending
<1> QED BY <1>2, <1>3, <1>6, <1>9 DEF LimiterIInv

LEMMA IncrKept ==
    ASSUME LimiterIInv, backend # "memory", NEW c \in Checks, Incr(c)
    PROVE  LimiterIInv'
<1> DEFINE p == check[c].principal
           k == WindowOf(check[c].at)
           n == Counter(p, k).count + 1
           counter == [Counter(p, k) EXCEPT !.count = n]
<1>1. LimiterTypeOK /\ RedisCounts /\ early = 0
  BY DEF LimiterIInv
<1>2. check[c].pc = "incr"
  BY DEF Incr
<1>3. p \in Principals /\ k \in Windows /\ k \in Nat /\ Now \in Nat /\ Now \in Windows
      /\ clock \in Nat /\ clock <= MaxTicks /\ check[c].at \in Nat /\ check[c].at <= clock
      /\ k <= Now
  <2>1. check[c].pc # "idle"
    BY <1>2
  <2>2. p \in Principals /\ k \in Windows /\ check[c].at \in Nat
    BY <1>1, <2>1, CheckTyped
  <2>3. Now \in Windows /\ Windows \subseteq Nat /\ clock \in Nat /\ clock <= MaxTicks
    BY <1>1, LimiterTyped
  <2>4. check[c].at <= check[c].counted /\ check[c].counted <= clock /\ check[c].counted \in Nat
    BY <1>1, <2>1, CheckTyped DEF RedisCounts
  <2>5. check[c].at <= clock
    BY <2>2, <2>3, <2>4
  <2>6. k <= Now
    BY <2>2, <2>3, <2>5, WindowsGrow DEF Now
  <2> QED BY <2>2, <2>3, <2>5, <2>6
<1>4. /\ backend' = backend /\ clock' = clock /\ windows' = windows /\ Now' = Now
      /\ n <= Quota + 1
      /\ counters' = [counters EXCEPT ![p][k] = counter]
      /\ IF n = 1 THEN CheckMoves(c, "expire") /\ UNCHANGED <<allowed, early>>
         ELSE IF n > Quota THEN CheckMoves(c, "ttl") /\ UNCHANGED <<allowed, early>>
         ELSE Finish(c) /\ AllowCounted(c, clock)
  BY DEF Incr, Now, KeyOf
<1>5. /\ Counter(p, k) \in [count: 0..(Quota + 1), expires: 0..Never]
      /\ (k + 1) * WindowTicks <= Counter(p, k).expires
      /\ n \in 1..(Quota + 1)
      /\ counter \in [count: 0..(Quota + 1), expires: 0..Never]
      /\ counter.count = n /\ (k + 1) * WindowTicks <= counter.expires
  <2>1. counters[p][k] \in [count: 0..(Quota + 1), expires: 0..Never]
        /\ (k + 1) * WindowTicks <= counters[p][k].expires
    BY <1>1, <1>3, LimiterTyped DEF RedisCounts
  <2>2. Never \in Nat /\ (k + 1) * WindowTicks <= Never
    BY <1>1, <1>3, LimiterTyped, WindowsFit
  <2> HIDE DEF p, k
  <2>3. Counter(p, k) \in [count: 0..(Quota + 1), expires: 0..Never]
        /\ (k + 1) * WindowTicks <= Counter(p, k).expires
    BY <2>1, <2>2, LimiterBounds DEF Counter
  <2>4. n \in 1..(Quota + 1)
    <3>1. Counter(p, k).count \in 0..(Quota + 1)
      BY <2>3
    <3> QED BY <3>1, <1>4, LimiterBounds
  <2>5. counter \in [count: 0..(Quota + 1), expires: 0..Never]
        /\ counter.count = n /\ counter.expires = Counter(p, k).expires
    <3> HIDE DEF n
    <3>1. n \in 0..(Quota + 1)
      BY <2>4, LimiterBounds
    <3> QED BY <2>3, <3>1
  <2> QED BY <2>3, <2>4, <2>5
<1>6. k = Now => Counter(p, k) = counters[p][k]
  <2>1. ASSUME k = Now PROVE clock < counters[p][k].expires
    <3>1. (k + 1) * WindowTicks <= counters[p][k].expires /\ counters[p][k].expires \in Nat
      BY <1>1, <1>3, LimiterTyped DEF RedisCounts
    <3>2. clock < (k + 1) * WindowTicks /\ (k + 1) * WindowTicks \in Nat
      BY <1>3, <2>1, WindowStarts DEF Now
    <3> QED BY <1>3, <3>1, <3>2
  <2>2. counters[p][k].expires \in Nat
    BY <1>1, <1>3, LimiterTyped
  <2> QED BY <1>3, <2>1, <2>2 DEF Counter
<1> HIDE DEF p, k, n, counter
<1>7. \A r \in Principals, w \in Windows :
         counters'[r][w] = IF r = p /\ w = k THEN counter ELSE counters[r][w]
  BY <1>1, <1>3, <1>4 DEF LimiterTypeOK
<1>8. \A d \in Checks : d # c => check'[d] = check[d]
  BY <1>1, <1>4 DEF CheckMoves, Finish, LimiterTypeOK
<1>9. /\ early' = 0
      /\ allowed' = IF 1 < n /\ n <= Quota /\ k = Now THEN [allowed EXCEPT ![p][k] = @ + 1]
                    ELSE allowed
      /\ check' = IF n = 1 THEN [check EXCEPT ![c].pc = "expire", ![c].counted = clock]
                  ELSE IF n > Quota THEN [check EXCEPT ![c].pc = "ttl", ![c].counted = clock]
                  ELSE [check EXCEPT ![c] = NotChecking]
  <2>1. CASE n = 1
    BY <1>1, <1>4, <2>1 DEF CheckMoves
  <2>2. CASE n # 1 /\ n > Quota
    BY <1>1, <1>4, <1>5, <2>2, LimiterBounds DEF CheckMoves
  <2>3. CASE n # 1 /\ ~(n > Quota)
    <3>1. Finish(c) /\ AllowCounted(c, clock) /\ 1 < n /\ n <= Quota
      BY <1>4, <1>5, <2>3, LimiterBounds
    <3>2. check' = [check EXCEPT ![c] = NotChecking]
      BY <3>1 DEF Finish
    <3>3. IF k = Now THEN Allow(p, k) ELSE UNCHANGED <<allowed, early>>
      BY <3>1 DEF AllowCounted, p, k, Now
    <3> QED BY <1>1, <2>3, <3>1, <3>2, <3>3 DEF Allow
  <2> QED BY <2>1, <2>2, <2>3
<1>10. LimiterTypeOK'
  <2>1. counters' \in [Principals -> [Windows -> [count: 0..(Quota + 1), expires: 0..Never]]]
    BY <1>1, <1>3, <1>4, <1>5 DEF LimiterTypeOK
  <2>2. allowed' \in [Principals -> [Windows -> Nat]]
    BY <1>1, <1>3, <1>9 DEF LimiterTypeOK
  <2>3. check' \in [Checks -> {NotChecking} \union
          [pc: {"incr", "expire", "ttl"}, principal: Principals, at: 0..MaxTicks,
           counted: 0..MaxTicks]]
    <3>1. check[c] \in [pc: {"incr", "expire", "ttl"}, principal: Principals, at: 0..MaxTicks,
                        counted: 0..MaxTicks]
      BY <1>1, <1>2, CheckTyped
    <3>2. clock \in 0..MaxTicks
      BY <1>3, LimiterBounds
    <3> QED BY <1>1, <1>9, <3>1, <3>2 DEF LimiterTypeOK
  <2> QED BY <1>1, <1>4, <1>9, <2>1, <2>2, <2>3, LimiterBounds DEF LimiterTypeOK
<1>11. ASSUME NEW r \in Principals, NEW w \in Windows
       PROVE  Pending(r, w)' = IF n = 1 /\ r = p /\ w = k /\ k = Now THEN Pending(r, w) \union {c}
                               ELSE Pending(r, w)
  <2>1. c \notin Pending(r, w)
    BY <1>2 DEF Pending
  <2>2. \A d \in Checks \ {c} : d \in Pending(r, w)' <=> d \in Pending(r, w)
    BY <1>8 DEF Pending
  <2>3. c \in Pending(r, w)' <=> n = 1 /\ r = p /\ w = k /\ k = Now
    <3>1. check[c] \in [pc: {"incr", "expire", "ttl"}, principal: Principals, at: 0..MaxTicks,
                        counted: 0..MaxTicks]
      BY <1>1, <1>2, CheckTyped
    <3>2. CASE n = 1
      <4>1. check'[c] = [check[c] EXCEPT !.pc = "expire", !.counted = clock]
        BY <1>1, <1>9, <3>2 DEF LimiterTypeOK
      <4>2. check'[c].pc = "expire" /\ check'[c].principal = p
            /\ check'[c].at = check[c].at /\ check'[c].counted = clock
        BY <3>1, <4>1 DEF p
      <4> QED BY <3>2, <4>2 DEF Pending, k, Now
    <3>3. CASE n # 1
      <4>1. check'[c].pc # "expire"
        BY <1>1, <1>9, <3>1, <3>3 DEF LimiterTypeOK, NotChecking
      <4> QED BY <3>3, <4>1 DEF Pending
    <3> QED BY <3>2, <3>3
  <2>4. Pending(r, w) \subseteq Checks /\ Pending(r, w)' \subseteq Checks
    BY DEF Pending
  <2> QED BY <2>1, <2>2, <2>3, <2>4
<1>12. RedisCounts'
  <2>1. ASSUME NEW d \in Checks, check'[d].pc # "idle"
        PROVE  check'[d].at <= check'[d].counted /\ check'[d].counted <= clock'
    <3>1. CASE d # c
      BY <1>1, <1>4, <1>8, <2>1, <3>1 DEF RedisCounts
    <3>2. CASE d = c
      <4>1. check[c] \in [pc: {"incr", "expire", "ttl"}, principal: Principals,
                          at: 0..MaxTicks, counted: 0..MaxTicks]
        BY <1>1, <1>2, CheckTyped
      <4>2. check'[c].at = check[c].at /\ check'[c].counted = clock
        BY <1>1, <1>9, <2>1, <3>2, <4>1 DEF LimiterTypeOK, NotChecking
      <4> QED BY <1>3, <1>4, <3>2, <4>2
    <3> QED BY <3>1, <3>2
  <2>2. ASSUME NEW r \in Principals, NEW w \in Windows
        PROVE  /\ \A d, e \in Pending(r, w)' : d = e
               /\ Charged(r, w)' <= Quota
               /\ w = Now' => Charged(r, w)' <= counters'[r][w].count
               /\ w > Now' => counters'[r][w].count = 0 /\ allowed'[r][w] = 0
               /\ (w + 1) * WindowTicks <= counters'[r][w].expires
    <3>1. /\ \A d, e \in Pending(r, w) : d = e
          /\ Charged(r, w) <= Quota
          /\ w = Now => Charged(r, w) <= counters[r][w].count
          /\ w > Now => counters[r][w].count = 0 /\ allowed[r][w] = 0
          /\ (w + 1) * WindowTicks <= counters[r][w].expires
      BY <1>1 DEF RedisCounts
    <3>2. allowed[r][w] \in Nat /\ counters[r][w].count \in Nat /\ Quota \in Nat /\ w \in Nat
      BY <1>1, LimiterTyped
    <3>3. CASE r = p /\ w = k /\ k = Now
      <4>1. n = counters[r][w].count + 1 /\ counters'[r][w] = counter
        BY <1>6, <1>7, <3>3 DEF n
      <4>2. CASE n = 1
        <5>1. allowed[r][w] = 0 /\ Pending(r, w) = {}
          BY <3>1, <3>2, <3>3, <4>1, <4>2 DEF Charged
        <5>2. Pending(r, w)' = {c} /\ allowed' = allowed
          BY <1>9, <1>11, <3>3, <4>2, <5>1
        <5>3. Charged(r, w)' = 1
          BY <5>1, <5>2 DEF Charged
        <5> QED BY <1>4, <1>5, <3>2, <3>3, <4>1, <4>2, <5>2, <5>3, LimiterBounds
      <4>3. CASE n # 1 /\ n <= Quota
        <5>1. allowed'[r][w] = allowed[r][w] + 1
          BY <1>1, <1>3, <1>5, <1>9, <3>3, <4>3, LimiterBounds DEF LimiterTypeOK
        <5>2. Pending(r, w)' = Pending(r, w)
          BY <1>11, <4>3
        <5>3. Charged(r, w)' = Charged(r, w) + 1 /\ Charged(r, w) \in Nat
          BY <3>2, <5>1, <5>2 DEF Charged
        <5> QED BY <1>4, <1>5, <3>1, <3>2, <3>3, <4>1, <4>3, <5>2, <5>3
      <4>4. CASE n # 1 /\ n > Quota
        <5>1. allowed' = allowed /\ Pending(r, w)' = Pending(r, w)
          BY <1>5, <1>9, <1>11, <3>2, <4>4
        <5>2. Charged(r, w)' = Charged(r, w) /\ Charged(r, w) \in Nat
          BY <3>2, <5>1 DEF Charged
        <5> QED BY <1>4, <1>5, <3>1, <3>2, <3>3, <4>1, <4>4, <5>1, <5>2
      <4> QED BY <1>5, <3>2, <4>2, <4>3, <4>4
    <3>4. CASE ~(r = p /\ w = k /\ k = Now)
      <4>1. allowed'[r][w] = allowed[r][w]
        BY <1>1, <1>3, <1>9, <3>4 DEF LimiterTypeOK
      <4>2. Pending(r, w)' = Pending(r, w)
        BY <1>11, <3>4
      <4>3. Charged(r, w)' = Charged(r, w)
        BY <4>1, <4>2 DEF Charged
      <4>4. CASE r = p /\ w = k
        BY <1>3, <1>4, <1>5, <1>7, <3>1, <3>4, <4>1, <4>2, <4>3, <4>4
      <4>5. CASE ~(r = p /\ w = k)
        BY <1>4, <1>7, <3>1, <4>1, <4>2, <4>3, <4>5
      <4> QED BY <4>4, <4>5
    <3> QED BY <3>3, <3>4
  <2> QED BY <2>1, <2>2 DEF RedisCounts
<1> QED BY <1>4, <1>9, <1>10, <1>12 DEF LimiterIInv

LEMMA SetExpiryKept ==
    ASSUME LimiterIInv, backend # "memory", NEW c \in Checks, SetExpiry(c)
    PROVE  LimiterIInv'
<1> DEFINE p == check[c].principal
           k == WindowOf(check[c].at)
           counter == IF Counter(p, k).count = 0 THEN Counter(p, k)
                      ELSE [counters[p][k] EXCEPT !.expires = clock + WindowTicks]
           counts == WindowOf(check[c].at) = WindowOf(check[c].counted)
<1>1. LimiterTypeOK /\ RedisCounts /\ early = 0
  BY DEF LimiterIInv
<1>2. check[c].pc = "expire" /\ check[c].pc # "idle"
  BY DEF SetExpiry
<1>3. p \in Principals /\ k \in Windows /\ k \in Nat /\ Now \in Nat
      /\ clock \in Nat /\ clock <= MaxTicks /\ check[c].at \in Nat /\ check[c].at <= clock
  <2>1. p \in Principals /\ k \in Windows /\ check[c].at \in Nat
    BY <1>1, <1>2, CheckTyped
  <2>2. Now \in Windows /\ Windows \subseteq Nat /\ clock \in Nat /\ clock <= MaxTicks
    BY <1>1, LimiterTyped
  <2>3. check[c].at <= check[c].counted /\ check[c].counted <= clock /\ check[c].counted \in Nat
    BY <1>1, <1>2, CheckTyped DEF RedisCounts
  <2>4. check[c].at <= clock
    BY <2>1, <2>2, <2>3
  <2> HIDE DEF p, k
  <2> QED BY <2>1, <2>2, <2>4
<1>4. /\ backend' = backend /\ clock' = clock /\ windows' = windows /\ Now' = Now
      /\ counters' = [counters EXCEPT ![p][k] = counter]
      /\ check' = [check EXCEPT ![c] = NotChecking]
      /\ IF counts THEN Allow(p, k) ELSE UNCHANGED <<allowed, early>>
  BY DEF SetExpiry, Now, KeyOf, Finish, AllowCounted
<1>5. /\ counter \in [count: 0..(Quota + 1), expires: 0..Never]
      /\ (k + 1) * WindowTicks <= counter.expires
      /\ k = Now => counter.count = counters[p][k].count
      /\ k > Now => counter.count = 0
  <2>1. counters[p][k] \in [count: 0..(Quota + 1), expires: 0..Never]
        /\ (k + 1) * WindowTicks <= counters[p][k].expires
        /\ counters[p][k].expires \in Nat
    BY <1>1, <1>3, LimiterTyped DEF RedisCounts
  <2>2. Never \in Nat /\ (k + 1) * WindowTicks <= Never /\ clock + WindowTicks \in 0..Never
        /\ clock + WindowTicks \in Nat
    BY <1>1, <1>3, LimiterTyped, WindowsFit, LimiterBounds DEF Never
  <2>3. (k + 1) * WindowTicks <= clock + WindowTicks
    <3>1. (k + 1) * WindowTicks = k * WindowTicks + WindowTicks /\ k * WindowTicks \in Nat
          /\ k * WindowTicks <= check[c].at
      BY <1>3, WindowStarts, LimiterBounds
    <3> QED BY <1>3, <3>1, LimiterBounds
  <2>4. ASSUME k >= Now PROVE Counter(p, k) = counters[p][k]
    <3>1. clock < (Now + 1) * WindowTicks /\ (Now + 1) * WindowTicks \in Nat
      BY <1>3, WindowStarts DEF Now
    <3>2. (Now + 1) * WindowTicks <= (k + 1) * WindowTicks /\ (k + 1) * WindowTicks \in Nat
      <4>1. Now + 1 \in Nat /\ k + 1 \in Nat /\ Now + 1 <= k + 1
        BY <1>3, <2>4
      <4> QED BY <4>1, ProductGrows, LimiterBounds
    <3>3. clock < counters[p][k].expires
      BY <1>3, <2>1, <3>1, <3>2
    <3> QED BY <1>3, <2>1, <3>3 DEF Counter
  <2>5. k > Now => counters[p][k].count = 0
    BY <1>1, <1>3 DEF RedisCounts
  <2> HIDE DEF p, k
  <2>6. Counter(p, k) \in [count: 0..(Quota + 1), expires: 0..Never]
        /\ (k + 1) * WindowTicks <= Counter(p, k).expires
    BY <2>1, <2>2, LimiterBounds DEF Counter
  <2>7. CASE Counter(p, k).count = 0
    <3>1. counter = Counter(p, k)
      BY <2>7
    <3> HIDE DEF counter
    <3> QED BY <1>3, <2>4, <2>6, <2>7, <3>1
  <2>8. CASE Counter(p, k).count # 0
    <3>1. counter = [counters[p][k] EXCEPT !.expires = clock + WindowTicks]
      BY <2>8
    <3> HIDE DEF counter
    <3>2. counter \in [count: 0..(Quota + 1), expires: 0..Never]
          /\ counter.count = counters[p][k].count /\ counter.expires = clock + WindowTicks
      BY <2>1, <2>2, <3>1
    <3> QED BY <1>3, <2>3, <2>5, <3>2
  <2> QED BY <2>7, <2>8
<1> HIDE DEF p, k, counter, counts
<1>6. \A r \in Principals, w \in Windows :
         counters'[r][w] = IF r = p /\ w = k THEN counter ELSE counters[r][w]
  BY <1>1, <1>3, <1>4 DEF LimiterTypeOK
<1>7. /\ early' = 0
      /\ allowed' = IF counts THEN [allowed EXCEPT ![p][k] = @ + 1] ELSE allowed
  BY <1>1, <1>4 DEF Allow
<1>8. \A d \in Checks : check'[d] = IF d = c THEN NotChecking ELSE check[d]
  BY <1>1, <1>4 DEF LimiterTypeOK
<1>9. LimiterTypeOK'
  <2>1. counters' \in [Principals -> [Windows -> [count: 0..(Quota + 1), expires: 0..Never]]]
    BY <1>1, <1>3, <1>4, <1>5 DEF LimiterTypeOK
  <2>2. allowed' \in [Principals -> [Windows -> Nat]]
    BY <1>1, <1>3, <1>7 DEF LimiterTypeOK
  <2>3. check' \in [Checks -> {NotChecking} \union
          [pc: {"incr", "expire", "ttl"}, principal: Principals, at: 0..MaxTicks,
           counted: 0..MaxTicks]]
    BY <1>1, <1>4 DEF LimiterTypeOK
  <2> QED BY <1>1, <1>4, <1>7, <2>1, <2>2, <2>3, LimiterBounds DEF LimiterTypeOK
<1>10. ASSUME NEW r \in Principals, NEW w \in Windows
       PROVE  Charged(r, w)' = Charged(r, w) /\ Pending(r, w)' = Pending(r, w) \ {c}
              /\ (w > Now => allowed'[r][w] = allowed[r][w])
  <2>1. Pending(r, w)' = Pending(r, w) \ {c}
    BY <1>8 DEF Pending, NotChecking
  <2>2. \A d, e \in Pending(r, w) : d = e
    BY <1>1 DEF RedisCounts
  <2>3. c \in Pending(r, w) <=> counts /\ r = p /\ w = k
    BY <1>2 DEF Pending, counts, p, k
  <2>4. allowed[r][w] \in Nat
    BY <1>1, LimiterTyped
  <2>5. CASE counts /\ r = p /\ w = k
    <3>1. allowed'[r][w] = allowed[r][w] + 1
      BY <1>1, <1>3, <1>7, <2>5 DEF LimiterTypeOK
    <3>2. Pending(r, w) = {c} /\ Pending(r, w)' = {}
      BY <2>1, <2>2, <2>3, <2>5
    <3>3. ~(w > Now)
      BY <1>1, <3>2, NonePending
    <3> QED BY <2>1, <2>4, <3>1, <3>2, <3>3 DEF Charged
  <2>6. CASE ~(counts /\ r = p /\ w = k)
    <3>1. allowed'[r][w] = allowed[r][w]
      BY <1>1, <1>3, <1>7, <2>6 DEF LimiterTypeOK
    <3>2. Pending(r, w)' = Pending(r, w)
      BY <2>1, <2>3, <2>6
    <3> QED BY <2>1, <3>1, <3>2 DEF Charged
  <2> QED BY <2>5, <2>6
<1>11. RedisCounts'
  <2>1. ASSUME NEW d \in Checks, check'[d].pc # "idle"
        PROVE  check'[d].at <= check'[d].counted /\ check'[d].counted <= clock'
    BY <1>1, <1>4, <1>8, <2>1 DEF RedisCounts, NotChecking
  <2>2. ASSUME NEW r \in Principals, NEW w \in Windows
        PROVE  /\ \A d, e \in Pending(r, w)' : d = e
               /\ Charged(r, w)' <= Quota
               /\ w = Now' => Charged(r, w)' <= counters'[r][w].count
               /\ w > Now' => counters'[r][w].count = 0 /\ allowed'[r][w] = 0
               /\ (w + 1) * WindowTicks <= counters'[r][w].expires
    <3>1. /\ \A d, e \in Pending(r, w) : d = e
          /\ Charged(r, w) <= Quota
          /\ w = Now => Charged(r, w) <= counters[r][w].count
          /\ w > Now => counters[r][w].count = 0 /\ allowed[r][w] = 0
          /\ (w + 1) * WindowTicks <= counters[r][w].expires
      BY <1>1 DEF RedisCounts
    <3>2. CASE r = p /\ w = k
      BY <1>4, <1>5, <1>6, <1>10, <3>1, <3>2
    <3>3. CASE ~(r = p /\ w = k)
      BY <1>4, <1>6, <1>10, <3>1, <3>3
    <3> QED BY <3>2, <3>3
  <2> QED BY <2>1, <2>2 DEF RedisCounts
<1> QED BY <1>4, <1>7, <1>9, <1>11 DEF LimiterIInv

\* The invariant: the types, nobody told to come back too early, and, by backend, what
\* was allowed is bounded by what was counted.
THEOREM LimiterInvariance == LimiterSpec => []LimiterIInv
<1>1. LimiterIInv /\ [LimiterNext]_limiterVars => LimiterIInv'
  <2> SUFFICES ASSUME LimiterIInv, [LimiterNext]_limiterVars PROVE LimiterIInv'
    OBVIOUS
  <2>1. CASE Tick
    BY <2>1, TickKept
  <2>2. ASSUME NEW c \in Checks, NEW p \in Principals, CheckInMemory(c, p) PROVE LimiterIInv'
    BY <2>2, CheckInMemoryKept
  <2>3. ASSUME NEW c \in Checks, NEW p \in Principals, StartCheck(c, p) PROVE LimiterIInv'
    <3>1. backend # "memory"
      BY <2>3 DEF StartCheck
    <3> QED BY <2>3, <3>1, ChecksMoveKept
  <2>4. ASSUME NEW c \in Checks, Incr(c) \/ SetExpiry(c) \/ ReadTtl(c) \/ CheckDies(c)
        PROVE  LimiterIInv'
    <3>1. check[c].pc # "idle"
      BY <2>4 DEF Incr, SetExpiry, ReadTtl, CheckDies
    <3>2. backend # "memory"
      BY <3>1 DEF LimiterIInv, MemoryCounts
    <3> QED BY <2>4, <3>2, IncrKept, SetExpiryKept, ChecksMoveKept
  <2>5. CASE UNCHANGED limiterVars
    <3>1. UNCHANGED <<backend, clock, windows, counters, check, allowed, early>>
      BY <2>5 DEF limiterVars
    <3>2. LimiterTypeOK'
      BY <3>1 DEF LimiterIInv, LimiterTypeOK
    <3>3. MemoryCounts => MemoryCounts'
      BY <3>1 DEF MemoryCounts, Spent, Now
    <3>4. RedisCounts => RedisCounts'
      BY <3>1 DEF RedisCounts, Pending, Charged, Now
    <3> QED BY <3>1, <3>2, <3>3, <3>4 DEF LimiterIInv
  <2> QED BY <2>1, <2>2, <2>3, <2>4, <2>5 DEF LimiterNext
<1> QED BY <1>1, LimiterStarts, PTL DEF LimiterSpec

THEOREM QuotaIsKept == LimiterSpec => []QuotaKept
<1>1. LimiterIInv => QuotaKept
  <2> SUFFICES ASSUME LimiterIInv, NEW p \in Principals, NEW w \in Windows
               PROVE  allowed[p][w] <= Quota * (IF backend = "memory" THEN Cardinality(Workers)
                                                ELSE 1)
    BY DEF LimiterIInv, QuotaKept
  <2>1. CASE backend = "memory"
    BY <2>1 DEF LimiterIInv, MemoryCounts
  <2>2. CASE backend # "memory"
    <3>1. Charged(p, w) <= Quota /\ allowed[p][w] \in Nat /\ Quota \in Nat
      BY <2>2, LimiterTyped DEF LimiterIInv, RedisCounts
    <3> QED BY <2>2, <3>1 DEF Charged
  <2> QED BY <2>1, <2>2
<1> QED BY <1>1, LimiterInvariance, PTL

-----------------------------------------------------------------------------
(* PolicyEngine                                                            *)

\* Requests with the same key are decided alike: the key leaves nothing out.
LEMMA KeyDecides ==
    ASSUME NEW i, NEW j, CacheKey(i) = CacheKey(j)
    PROVE  Evaluate(i) = Evaluate(j)
<1>1. /\ i.principal = j.principal /\ i.groups = j.groups /\ i.capability = j.capability
      /\ i.acl = j.acl /\ i.classification = j.classification
  BY DEF CacheKey
<1>2. InAcl(i) = InAcl(j)
  BY <1>1 DEF InAcl
<1>3. Cleared(i) = Cleared(j)
  BY <1>1 DEF Cleared
<1> QED BY <1>1, <1>2, <1>3 DEF Evaluate

\* For a tool, the policy asks for the capability in one of the caller's roles.
LEMMA AccessByRole ==
    ASSUME NEW who \in Callers, who # Nobody, NEW tool \in Enabled
    PROVE  Evaluate(Access(who, tool)) <=> MayUse([pc |-> "check", who |-> who, tool |-> tool])
<1> DEFINE i == Access(who, tool)
<1>1. /\ i.principal = who.principal /\ i.groups = who.groups /\ i.acl = {who.principal}
      /\ i.classification = "none" /\ i.capability = ToolCapabilities[tool]
  BY DEF Access
<1>2. InAcl(i) /\ Cleared(i)
  BY <1>1 DEF InAcl, Cleared
<1>3. Evaluate(i) <=> ToolCapabilities[tool] \in CapsOf(who.groups)
  BY <1>1, <1>2 DEF Evaluate
<1>4. ToolCapabilities[tool] \in CapsOf(who.groups) <=>
        \E g \in who.groups \intersect DOMAIN RoleCapabilities :
           ToolCapabilities[tool] \in RoleCapabilities[g]
  BY DEF CapsOf
<1> QED BY <1>3, <1>4 DEF MayUse

-----------------------------------------------------------------------------
AskedTyped == asked \in [Deciders -> {NotAsking} \union [busy: {TRUE}, input: DecisionInputs]]
CallTyped ==
    call \in [Deciders -> {NoCall} \union
                 [pc: {"check", "run", "refused"}, who: Callers \union {Nobody}, tool: ToolNames]]

\* Every entry is the decision of every request that has its key.
Keys == {CacheKey(i) : i \in DecisionInputs}
EntriesSound ==
    /\ decisions \subseteq [key: Keys, allow: BOOLEAN, expired: BOOLEAN]
    /\ \A e \in decisions, i \in DecisionInputs : e.key = CacheKey(i) => e.allow = Evaluate(i)

\* A decision that is served is one of a request.
ServedSound ==
    served # <<>> => \E i \in DecisionInputs : served = <<i, Evaluate(i)>>

\* A thread that checks a call's access asks for just this.
ChecksItsCall ==
    \A t \in Deciders : call[t].pc = "check" =>
        /\ call[t].who \in Callers /\ call[t].who # Nobody
        /\ call[t].tool \in Enabled /\ call[t].tool \in ToolNames
        /\ asked[t].busy => asked[t].input = Access(call[t].who, call[t].tool)

PolicyIInv ==
    AskedTyped /\ CallTyped /\ EntriesSound /\ ServedSound /\ ChecksItsCall /\ ToolsRunByRole

LEMMA AskedInput ==
    ASSUME AskedTyped, NEW t \in Deciders, asked[t].busy
    PROVE  asked[t].input \in DecisionInputs
<1>1. asked[t] \in {NotAsking} \union [busy: {TRUE}, input: DecisionInputs]
  BY DEF AskedTyped
<1>2. asked[t] # NotAsking
  BY DEF NotAsking
<1> QED BY <1>1, <1>2

\* The actions on decisions: hit, miss, put.
LEMMA HitServes ==
    ASSUME PolicyIInv, NEW t \in Deciders, NEW i \in DecisionInputs, DecideFromCache(t, i)
    PROVE  /\ AskedTyped' /\ EntriesSound' /\ ServedSound'
           /\ served' = <<i, Evaluate(i)>> /\ asked' = asked
<1>1. PICK e \in Hits(i) : served' = <<i, e.allow>>
  BY DEF DecideFromCache
<1>2. e.allow = Evaluate(i)
  BY DEF PolicyIInv, EntriesSound, Hits
<1> QED BY <1>1, <1>2 DEF PolicyIInv, DecideFromCache, AskedTyped, EntriesSound, ServedSound

LEMMA MissAsks ==
    ASSUME PolicyIInv, NEW t \in Deciders, NEW i \in DecisionInputs, DecideMiss(t, i)
    PROVE  /\ AskedTyped' /\ EntriesSound' /\ ServedSound'
           /\ asked' = [asked EXCEPT ![t] = [busy |-> TRUE, input |-> i]]
           /\ ~asked[t].busy
<1>1. decisions' \subseteq decisions /\ served' = served
  BY DEF DecideMiss, Keep
<1>2. EntriesSound'
  BY <1>1 DEF PolicyIInv, EntriesSound
<1>3. AskedTyped'
  BY DEF PolicyIInv, AskedTyped, DecideMiss
<1> QED BY <1>1, <1>2, <1>3 DEF PolicyIInv, DecideMiss, ServedSound

LEMMA PutServes ==
    ASSUME PolicyIInv, NEW t \in Deciders, DecidePut(t)
    PROVE  /\ AskedTyped' /\ EntriesSound' /\ ServedSound'
           /\ asked[t].input \in DecisionInputs
           /\ served' = <<asked[t].input, Evaluate(asked[t].input)>>
           /\ asked' = [asked EXCEPT ![t] = NotAsking]
           /\ asked[t].busy
<1> DEFINE i == asked[t].input
           entry == [key |-> CacheKey(i), allow |-> Evaluate(i), expired |-> FALSE]
<1>1. asked[t].busy /\ i \in DecisionInputs
  BY AskedInput DEF PolicyIInv, DecidePut
<1>2. decisions' \subseteq decisions \union {entry}
  <2>1. MadeRoom \subseteq decisions
    BY DEF MadeRoom, Alive
  <2> QED BY <2>1 DEF DecidePut
<1>3. served' = <<i, Evaluate(i)>> /\ asked' = [asked EXCEPT ![t] = NotAsking]
  BY DEF DecidePut
<1>4. ASSUME NEW e \in decisions', NEW j \in DecisionInputs, e.key = CacheKey(j)
      PROVE  e.allow = Evaluate(j)
  <2>1. CASE e \in decisions
    BY <1>4, <2>1 DEF PolicyIInv, EntriesSound
  <2>2. CASE e = entry
    <3>1. e.key = CacheKey(i) /\ e.allow = Evaluate(i)
      BY <2>2
    <3> QED BY <1>4, <3>1, KeyDecides
  <2> QED BY <1>2, <2>1, <2>2
<1>5. EntriesSound'
  <2>1. Evaluate(i) \in BOOLEAN
    BY DEF Evaluate, InAcl, Cleared
  <2>2. entry \in [key: Keys, allow: BOOLEAN, expired: BOOLEAN]
    BY <1>1, <2>1 DEF Keys
  <2> HIDE DEF entry
  <2> QED BY <1>2, <1>4, <2>2 DEF PolicyIInv, EntriesSound
<1>6. AskedTyped'
  BY <1>3 DEF PolicyIInv, AskedTyped
<1>7. ServedSound'
  BY <1>1, <1>3 DEF ServedSound
<1> QED BY <1>1, <1>3, <1>5, <1>6, <1>7

LEMMA CacheStepKept ==
    ASSUME PolicyIInv, CacheStep
    PROVE  PolicyIInv'
<1>1. asked' = asked /\ served' = served /\ flags' = flags /\ call' = call
  BY DEF CacheStep, DecisionExpires, InvalidatePrincipal
<1>2. ASSUME NEW e \in decisions'
      PROVE  /\ e \in [key: Keys, allow: BOOLEAN, expired: BOOLEAN]
             /\ \E d \in decisions : d.key = e.key /\ d.allow = e.allow
  <2>0. decisions \subseteq [key: Keys, allow: BOOLEAN, expired: BOOLEAN]
    BY DEF PolicyIInv, EntriesSound
  <2>1. CASE DecisionExpires
    <3>1. PICK d \in Alive : decisions' = (decisions \ {d}) \union {[d EXCEPT !.expired = TRUE]}
      BY <2>1 DEF DecisionExpires
    <3>2. CASE e = [d EXCEPT !.expired = TRUE]
      <4>1. d \in decisions /\ d \in [key: Keys, allow: BOOLEAN, expired: BOOLEAN]
        BY <2>0 DEF Alive
      <4>2. e \in [key: Keys, allow: BOOLEAN, expired: BOOLEAN] /\ d.key = e.key
            /\ d.allow = e.allow
        BY <3>2, <4>1
      <4> QED BY <4>1, <4>2
    <3> QED BY <1>2, <2>0, <3>1, <3>2
  <2>2. CASE \E p \in {i.principal : i \in Inputs} : InvalidatePrincipal(p)
    BY <1>2, <2>0, <2>2 DEF InvalidatePrincipal, Keep
  <2> QED BY <2>1, <2>2 DEF CacheStep
<1>3. EntriesSound'
  BY <1>2 DEF PolicyIInv, EntriesSound
<1> QED BY <1>1, <1>3 DEF PolicyIInv, AskedTyped, CallTyped, ServedSound, ChecksItsCall,
                          ToolsRunByRole, MayUse, Enabled

LEMMA CallTyping ==
    ASSUME CallTyped, NEW t \in Deciders, call[t] # NoCall
    PROVE  /\ call[t] \in [pc: {"check", "run", "refused"}, who: Callers \union {Nobody},
                           tool: ToolNames]
           /\ call[t].who \in Callers \union {Nobody} /\ call[t].tool \in ToolNames
BY DEF CallTyped

\* A check asks what the caller may, and its answer says whether the tool runs.
LEMMA CheckAccessKept ==
    ASSUME PolicyIInv, NEW t \in Deciders, CheckAccess(t)
    PROVE  PolicyIInv'
<1> DEFINE who == call[t].who
           tool == call[t].tool
           wanted == Access(who, tool)
<1>1. /\ call[t].pc = "check" /\ call[t] # NoCall /\ flags' = flags
      /\ who \in Callers /\ who # Nobody /\ tool \in Enabled /\ tool \in ToolNames
  BY DEF CheckAccess, PolicyIInv, ChecksItsCall, NoCall
<1>2. wanted \in DecisionInputs
  BY <1>1 DEF DecisionInputs, Enabled
<1>3. call[t] \in [pc: {"check", "run", "refused"}, who: Callers \union {Nobody},
                   tool: ToolNames]
  BY <1>1, CallTyping DEF PolicyIInv
<1>4. Enabled' = Enabled
  BY <1>1 DEF Enabled
<1>5. CASE DecideMiss(t, wanted) /\ UNCHANGED call
  <2>1. AskedTyped' /\ EntriesSound' /\ ServedSound'
        /\ asked' = [asked EXCEPT ![t] = [busy |-> TRUE, input |-> wanted]]
    BY <1>2, <1>5, MissAsks
  <2>2. \A s \in Deciders : asked'[s] = IF s = t THEN [busy |-> TRUE, input |-> wanted]
                                        ELSE asked[s]
    BY <2>1 DEF PolicyIInv, AskedTyped
  <2>3. ChecksItsCall'
    BY <1>4, <1>5, <2>2 DEF PolicyIInv, ChecksItsCall
  <2>4. ToolsRunByRole'
    BY <1>4, <1>5 DEF PolicyIInv, ToolsRunByRole, MayUse
  <2> QED BY <1>5, <2>1, <2>3, <2>4 DEF PolicyIInv, CallTyped
<1>6. CASE /\ DecideFromCache(t, wanted) \/ DecidePut(t)
           /\ call' = [call EXCEPT ![t].pc = IF served'[2] THEN "run" ELSE "refused"]
  <2>1. /\ AskedTyped' /\ EntriesSound' /\ ServedSound'
        /\ served' = <<wanted, Evaluate(wanted)>>
        /\ asked' = asked \/ asked' = [asked EXCEPT ![t] = NotAsking]
    <3>1. CASE DecideFromCache(t, wanted)
      BY <1>2, <3>1, HitServes
    <3>2. CASE DecidePut(t)
      <4>1. asked[t].busy /\ served' = <<asked[t].input, Evaluate(asked[t].input)>>
            /\ asked' = [asked EXCEPT ![t] = NotAsking]
            /\ AskedTyped' /\ EntriesSound' /\ ServedSound'
        BY <3>2, PutServes
      <4>2. asked[t].input = wanted
        BY <1>1, <4>1 DEF PolicyIInv, ChecksItsCall
      <4> QED BY <4>1, <4>2
    <3> QED BY <1>6, <3>1, <3>2
  <2>2. served'[2] = Evaluate(wanted)
    BY <2>1
  <2>3. Evaluate(wanted) <=> MayUse([pc |-> "check", who |-> who, tool |-> tool])
    BY <1>1, AccessByRole
  <2>4. /\ \A s \in Deciders : s # t => call'[s] = call[s]
        /\ call'[t] = [call[t] EXCEPT !.pc = IF served'[2] THEN "run" ELSE "refused"]
        /\ CallTyped'
    <3>1. [call[t] EXCEPT !.pc = IF served'[2] THEN "run" ELSE "refused"]
             \in [pc: {"check", "run", "refused"}, who: Callers \union {Nobody}, tool: ToolNames]
      BY <1>3
    <3> QED BY <1>6, <3>1 DEF PolicyIInv, CallTyped
  <2>5. call'[t].pc = (IF Evaluate(wanted) THEN "run" ELSE "refused")
        /\ call'[t].who = who /\ call'[t].tool = tool
    BY <1>3, <2>2, <2>4
  <2>6. MayUse(call'[t]) <=> Evaluate(wanted)
    BY <1>4, <2>3, <2>5 DEF MayUse
  <2>7. ToolsRunByRole'
    <3>1. ASSUME NEW s \in Deciders, s # t
          PROVE  /\ call'[s].pc = "run" => MayUse(call'[s])
                 /\ call'[s].pc = "refused" => ~MayUse(call'[s])
      BY <1>4, <2>4, <3>1 DEF PolicyIInv, ToolsRunByRole, MayUse
    <3>2. /\ call'[t].pc = "run" => MayUse(call'[t])
          /\ call'[t].pc = "refused" => ~MayUse(call'[t])
      BY <2>5, <2>6
    <3> QED BY <1>4, <3>1, <3>2 DEF ToolsRunByRole, MayUse
  <2>8. ChecksItsCall'
    <3>1. ASSUME NEW s \in Deciders, call'[s].pc = "check"
          PROVE  s # t /\ call'[s] = call[s] /\ asked'[s] = asked[s]
      BY <2>1, <2>4, <2>5, <3>1 DEF PolicyIInv, AskedTyped
    <3> QED BY <1>4, <3>1 DEF PolicyIInv, ChecksItsCall
  <2> QED BY <2>1, <2>4, <2>7, <2>8 DEF PolicyIInv
<1> QED BY <1>5, <1>6 DEF CheckAccess

LEMMA CallToolKept ==
    ASSUME PolicyIInv, NEW t \in Deciders, NEW who \in Callers \union {Nobody},
           NEW tool \in ToolNames, CallTool(t, who, tool)
    PROVE  PolicyIInv'
<1> DEFINE rec == [pc |-> IF tool \in Enabled /\ who # Nobody THEN "check" ELSE "refused",
                   who |-> who, tool |-> tool]
<1>1. /\ decisions' = decisions /\ asked' = asked /\ served' = served /\ flags' = flags
      /\ ~asked[t].busy /\ call' = [call EXCEPT ![t] = rec]
  BY DEF CallTool
<1>2. rec \in [pc: {"check", "run", "refused"}, who: Callers \union {Nobody}, tool: ToolNames]
  OBVIOUS
<1>3. CallTyped' /\ \A s \in Deciders : call'[s] = IF s = t THEN rec ELSE call[s]
  BY <1>1, <1>2 DEF PolicyIInv, CallTyped
<1>4. Enabled' = Enabled
  BY <1>1 DEF Enabled
<1>5. ChecksItsCall'
  BY <1>1, <1>3, <1>4 DEF PolicyIInv, ChecksItsCall
<1>6. ToolsRunByRole'
  BY <1>1, <1>3, <1>4 DEF PolicyIInv, ToolsRunByRole, MayUse
<1> QED BY <1>1, <1>3, <1>5, <1>6 DEF PolicyIInv, AskedTyped, EntriesSound, ServedSound

LEMMA CallEndsKept ==
    ASSUME PolicyIInv, NEW t \in Deciders, CallEnds(t)
    PROVE  PolicyIInv'
<1>1. /\ decisions' = decisions /\ asked' = asked /\ served' = served /\ flags' = flags
      /\ call' = [call EXCEPT ![t] = NoCall]
  BY DEF CallEnds
<1>2. CallTyped' /\ \A s \in Deciders : call'[s] = IF s = t THEN NoCall ELSE call[s]
  BY <1>1 DEF PolicyIInv, CallTyped
<1>3. Enabled' = Enabled /\ NoCall.pc = "idle"
  BY <1>1 DEF Enabled, NoCall
<1>4. AskedTyped' /\ EntriesSound' /\ ServedSound'
  BY <1>1 DEF PolicyIInv, AskedTyped, EntriesSound, ServedSound
<1>5. ChecksItsCall'
  BY <1>1, <1>2, <1>3 DEF PolicyIInv, ChecksItsCall
<1>6. ToolsRunByRole'
  BY <1>2, <1>3 DEF PolicyIInv, ToolsRunByRole, MayUse
<1> QED BY <1>2, <1>4, <1>5, <1>6 DEF PolicyIInv

\* A thread that decides for a record has no call.
LEMMA DecideKept ==
    ASSUME PolicyIInv, NEW t \in Deciders, Decide(t)
    PROVE  PolicyIInv'
<1>1. call[t].pc # "check" /\ call' = call /\ flags' = flags
  BY DEF Decide, NoCall
<1>2. Enabled' = Enabled
  BY <1>1 DEF Enabled
<1>3. /\ AskedTyped' /\ EntriesSound' /\ ServedSound'
      /\ \A s \in Deciders : s # t => asked'[s] = asked[s]
  <2>1. ASSUME NEW i \in Inputs, DecideFromCache(t, i) \/ DecideMiss(t, i)
        PROVE  /\ AskedTyped' /\ EntriesSound' /\ ServedSound'
               /\ \A s \in Deciders : s # t => asked'[s] = asked[s]
    <3>1. i \in DecisionInputs
      BY DEF DecisionInputs
    <3> QED BY <2>1, <3>1, HitServes, MissAsks DEF PolicyIInv, AskedTyped
  <2>2. CASE DecidePut(t)
    BY <2>2, PutServes DEF PolicyIInv, AskedTyped
  <2> QED BY <2>1, <2>2 DEF Decide
<1>4. ChecksItsCall'
  BY <1>1, <1>2, <1>3 DEF PolicyIInv, ChecksItsCall
<1> QED BY <1>1, <1>2, <1>3, <1>4 DEF PolicyIInv, CallTyped, ToolsRunByRole, MayUse

THEOREM PolicyInvariance == PolicySpec => []PolicyIInv
<1>1. PolicyInit => PolicyIInv
  <2> SUFFICES ASSUME PolicyInit PROVE PolicyIInv
    OBVIOUS
  <2>1. \A t \in Deciders : call[t].pc = "idle"
    BY DEF PolicyInit, NoCall
  <2> QED BY <2>1 DEF PolicyInit, PolicyIInv, AskedTyped, CallTyped, EntriesSound, ServedSound,
                      ChecksItsCall, ToolsRunByRole
<1>2. PolicyIInv /\ [PolicyNext]_policyVars => PolicyIInv'
  <2> SUFFICES ASSUME PolicyIInv, [PolicyNext]_policyVars PROVE PolicyIInv'
    OBVIOUS
  <2>1. CASE UNCHANGED policyVars
    BY <2>1 DEF policyVars, PolicyIInv, AskedTyped, CallTyped, EntriesSound, ServedSound,
                ChecksItsCall, ToolsRunByRole, MayUse, Enabled
  <2> QED BY <2>1, CacheStepKept, DecideKept, CallToolKept, CheckAccessKept, CallEndsKept
          DEF PolicyNext, RecordNext, ToolNext
<1> QED BY <1>1, <1>2, PTL DEF PolicySpec

THEOREM PolicyIsObeyed == PolicySpec => []PolicyObeyed
<1>1. PolicyIInv => PolicyObeyed
  BY DEF PolicyIInv, ServedSound, PolicyObeyed, ServedAsEvaluated
<1> QED BY <1>1, PolicyInvariance, PTL

-----------------------------------------------------------------------------
(* McpSessions                                                             *)

\* The snapshots that were taken: those a publish holds, and those in files.
Snap(p) == [session |-> job[p].session, at |-> job[p].at, files |-> job[p].files]
Taken == {Snap(p) : p \in {q \in Publishers : job[q].at > 0}} \union saved

\* A snapshot of the session may still be taken: by a DELETE or by the lifespan hook.
MayBeSaved(s) ==
    \/ server \in {"up", "stopping"} /\ s \in open
    \/ server = "sweeping" /\ s \in sweep /\ ~(job[Lifespan].pc # "idle" /\ job[Lifespan].session = s)

Phases ==
    /\ server # "sweeping" => job[Lifespan].pc = "idle"
    /\ job[Lifespan].pc \in {"idle", "writing", "mirroring"}
    /\ server \in {"sweeping", "down"} => \A q \in Requests : ~Busy(q)
    /\ sweep # {} => server \in {"sweeping", "down"}
    /\ \A p \in Publishers :
          /\ job[p].pc \in {"writing", "mirroring"} => job[p].at > 0
          /\ job[p].at > 0 => /\ job[p].pc \in {"writing", "mirroring", "orphan"}
                              /\ job[p].session \in Sessions
    /\ sweep \subseteq open

Known ==
    /\ \A p \in Publishers : job[p].session \in issued \union {None}
    /\ \A c \in saved : c.session \in issued
    /\ \A s \in Sessions \ issued : answered[s] = {}

Ordered ==
    \A c, d \in Taken : (c.session = d.session /\ c.at < d.at) => c.files \subseteq d.files
Stamped == \A c \in Taken : c.at <= stamp

\* What was snapshot, answered or recorded is tracked as long as it may have to be saved.
Tracked ==
    \A s \in Sessions : MayBeSaved(s) =>
        /\ \A c \in Taken : c.session = s => c.files \subseteq activity[s]
        /\ answered[s] \subseteq activity[s]
        /\ \A q \in Requests :
              (job[q].pc = "answering" /\ job[q].session = s) => job[q].files \subseteq activity[s]

SessIInv == TypeOK /\ Phases /\ Known /\ Ordered /\ Stamped /\ Tracked /\ AnsweredIsSaved

-----------------------------------------------------------------------------
LEMMA JobTyped ==
    ASSUME TypeOK, NEW p \in Publishers
    PROVE  /\ job[p] \in Job /\ job[p].at \in Nat /\ job[p].files \in SUBSET Files
           /\ job[p].session \in Sessions \union {None}
           /\ NoJob \in Job /\ NoJob.at = 0 /\ NoJob.pc = "idle" /\ NoJob.session = None
           /\ NoJob.files = {}
<1>1. job[p] \in Job
  BY DEF TypeOK
<1>2. NoJob \in Job
  BY DEF NoJob, Job
<1> QED BY <1>1, <1>2 DEF Job, NoJob

\* A job keeps its types when one of them is replaced by another.
LEMMA BecomeTyped ==
    ASSUME TypeOK, NEW p \in Publishers, NEW next \in Job, Become(p, next)
    PROVE  /\ job' \in [Publishers -> Job]
           /\ job'[p] = next
           /\ \A q \in Publishers : q # p => job'[q] = job[q]
BY DEF TypeOK, Become

\* What holds of every step that takes no snapshot and begins no session.
LEMMA NoSnapshotKept ==
    ASSUME SessIInv, SessionsNext, TypeOK', Phases', stamp' = stamp, issued' = issued,
           saved' \subseteq Taken,
           \A p \in Publishers : job'[p].at > 0 => job[p].at > 0 /\ Snap(p)' = Snap(p),
           \A p \in Publishers : job'[p].session \in issued \union {None},
           \A s \in Sessions : MayBeSaved(s)' => MayBeSaved(s) /\ activity[s] \subseteq activity'[s],
           \A q \in Requests, s \in Sessions :
              (MayBeSaved(s)' /\ job'[q].pc = "answering" /\ job'[q].session = s) =>
                 job'[q] = job[q] \/ job'[q].files \subseteq activity'[s]
    PROVE  SessIInv'
<1>1. Taken' \subseteq Taken
  BY DEF Taken
<1>2. Ordered' /\ Stamped'
  BY <1>1 DEF SessIInv, Ordered, Stamped
<1>3. \A s \in Sessions :
         answered'[s] = answered[s] \union UNION {job[q].files : q \in Answers(s)}
  BY DEF SessionsNext
<1>4. Known'
  <2>1. \A c \in Taken : c.session \in issued
    <3>1. \A p \in Publishers : job[p].at > 0 => job[p].session \in issued
      BY NoneAssumption DEF SessIInv, Known, Phases
    <3> QED BY <3>1 DEF SessIInv, Known, Taken, Snap
  <2>2. \A c \in saved' : c.session \in issued'
    BY <2>1
  <2>3. ASSUME NEW s \in Sessions \ issued' PROVE answered'[s] = {}
    <3>1. \A q \in Requests : job[q].session # s
      BY NoneAssumption DEF SessIInv, Known, Publishers
    <3>2. Answers(s) = {}
      BY <3>1 DEF Answers
    <3> QED BY <1>3, <3>2 DEF SessIInv, Known
  <2> QED BY <2>2, <2>3 DEF Known
<1>5. Tracked'
  <2> SUFFICES ASSUME NEW s \in Sessions, MayBeSaved(s)'
               PROVE  /\ \A c \in Taken' : c.session = s => c.files \subseteq activity'[s]
                      /\ answered'[s] \subseteq activity'[s]
                      /\ \A q \in Requests : (job'[q].pc = "answering" /\ job'[q].session = s) =>
                            job'[q].files \subseteq activity'[s]
    BY DEF Tracked
  <2>1. /\ activity[s] \subseteq activity'[s]
        /\ \A c \in Taken : c.session = s => c.files \subseteq activity[s]
        /\ answered[s] \subseteq activity[s]
        /\ \A q \in Requests : (job[q].pc = "answering" /\ job[q].session = s) =>
              job[q].files \subseteq activity[s]
    BY DEF SessIInv, Tracked
  <2>2. answered'[s] \subseteq activity[s]
    <3>1. \A q \in Answers(s) : job[q].files \subseteq activity[s]
      BY <2>1 DEF Answers, At
    <3> QED BY <1>3, <2>1, <3>1
  <2> QED BY <1>1, <2>1, <2>2
<1>6. AnsweredIsSaved'
  <2> SUFFICES ASSUME NEW p \in Publishers, job'[p].at > 0
               PROVE  promised'[p] \subseteq job'[p].files
    BY DEF AnsweredIsSaved
  <2>1. job[p].at > 0 /\ Snap(p)' = Snap(p) /\ job[p].files = job'[p].files
    BY DEF Snap
  <2>2. ~At(p, "idle")
    BY <2>1 DEF SessIInv, Phases, At
  <2>3. job'[p] # NoJob
    BY JobTyped DEF SessIInv
  <2>4. promised'[p] = promised[p]
    BY <2>2, <2>3 DEF SessionsNext
  <2> QED BY <2>1, <2>4 DEF SessIInv, AnsweredIsSaved
<1> QED BY <1>2, <1>4, <1>5, <1>6 DEF SessIInv

\* A snapshot has all that was tracked, and so all of every older one.
LEMMA SnapshotKept ==
    ASSUME SessIInv, SessionsNext, TypeOK', Phases', NEW p \in Publishers, NEW s \in Sessions,
           job[p].pc = "idle", job[p].at = 0, MayBeSaved(s), Snapshot(p, s),
           issued' = issued, saved' = saved, activity' = activity, open' = open,
           server' = server, sweep' = sweep
    PROVE  SessIInv'
<1> DEFINE next == [pc |-> "writing", session |-> s, files |-> activity[s], at |-> stamp + 1]
           new == [session |-> s, at |-> stamp + 1, files |-> activity[s]]
<1>1. stamp' = stamp + 1 /\ stamp \in Nat /\ Become(p, next)
  BY DEF Snapshot, SessIInv, TypeOK
<1>2. next \in Job
  BY <1>1 DEF SessIInv, TypeOK, Job
<1>3. job'[p] = next /\ \A q \in Publishers : q # p => job'[q] = job[q]
  BY <1>1, <1>2, BecomeTyped DEF SessIInv
<1>4. s \in issued
  BY DEF MayBeSaved, SessIInv, TypeOK, Phases
<1>5. Taken' = Taken \union {new}
  <2>1. Snap(p)' = new /\ job'[p].at > 0
    BY <1>1, <1>3 DEF Snap
  <2>2. \A q \in Publishers : q # p => Snap(q)' = Snap(q)
    BY <1>3 DEF Snap
  <2>3. {Snap(q)' : q \in {r \in Publishers : job'[r].at > 0}}
           = {Snap(q) : q \in {r \in Publishers : job[r].at > 0}} \union {new}
    BY <1>3, <2>1, <2>2
  <2>4. Taken' = {Snap(q)' : q \in {r \in Publishers : job'[r].at > 0}} \union saved
    BY DEF Taken
  <2> QED BY <2>3, <2>4 DEF Taken
<1>6. \A c \in Taken : c.at \in Nat /\ c.at <= stamp
  <2>1. \A c \in saved : c.at \in Nat
    BY DEF SessIInv, TypeOK, Checkpoint
  <2>2. \A q \in Publishers : job[q].at \in Nat
    BY JobTyped DEF SessIInv
  <2> QED BY <2>1, <2>2 DEF SessIInv, Stamped, Taken, Snap
<1>7. Stamped'
  BY <1>1, <1>5, <1>6 DEF Stamped
<1>8. Ordered'
  <2>1. \A c \in Taken : c.session = s => c.files \subseteq activity[s]
    BY DEF SessIInv, Tracked
  <2> SUFFICES ASSUME NEW c \in Taken', NEW d \in Taken', c.session = d.session, c.at < d.at
               PROVE  c.files \subseteq d.files
    BY DEF Ordered
  <2>2. CASE c \in Taken /\ d \in Taken
    BY <2>2 DEF SessIInv, Ordered
  <2>3. CASE d = new /\ c \in Taken
    BY <2>1, <2>3
  <2>4. CASE c = new
    <3>1. d \in Taken \/ d = new
      BY <1>5
    <3> QED BY <1>1, <1>6, <2>4, <3>1
  <2> QED BY <1>5, <2>2, <2>3, <2>4
<1>9. \A t \in Sessions : Answers(t) = {}
  <2>1. ASSUME NEW t \in Sessions, NEW q \in Answers(t) PROVE FALSE
    <3>1. q \in Publishers /\ job[q].pc = "answering" /\ job'[q] = NoJob
      BY DEF Answers, At, Publishers
    <3>2. q # p
      BY <3>1
    <3>3. NoJob.pc = "idle"
      BY DEF NoJob
    <3> QED BY <1>3, <3>1, <3>2, <3>3
  <2> QED BY <2>1
<1>10. \A t \in Sessions : answered'[t] = answered[t]
  BY <1>9 DEF SessionsNext
<1>11. Known'
  BY <1>3, <1>4, <1>10 DEF SessIInv, Known
<1>12. Tracked'
  <2> SUFFICES ASSUME NEW t \in Sessions, MayBeSaved(t)'
               PROVE  /\ \A c \in Taken' : c.session = t => c.files \subseteq activity'[t]
                      /\ answered'[t] \subseteq activity'[t]
                      /\ \A q \in Requests : (job'[q].pc = "answering" /\ job'[q].session = t) =>
                            job'[q].files \subseteq activity'[t]
    BY DEF Tracked
  <2>1. MayBeSaved(t)
    <3>1. CASE p = Lifespan
      BY <1>3, <3>1 DEF MayBeSaved
    <3>2. CASE p # Lifespan
      <4>1. job'[Lifespan] = job[Lifespan]
        BY <1>3, <3>2 DEF Publishers
      <4> QED BY <4>1 DEF MayBeSaved
    <3> QED BY <3>1, <3>2
  <2>2. /\ \A c \in Taken : c.session = t => c.files \subseteq activity[t]
        /\ answered[t] \subseteq activity[t]
        /\ \A q \in Requests : (job[q].pc = "answering" /\ job[q].session = t) =>
              job[q].files \subseteq activity[t]
    BY <2>1 DEF SessIInv, Tracked
  <2>3. \A q \in Requests : job'[q].pc = "answering" => job'[q] = job[q]
    BY <1>3 DEF Publishers
  <2> QED BY <1>5, <1>10, <2>2, <2>3
<1>13. AnsweredIsSaved'
  <2> SUFFICES ASSUME NEW q \in Publishers, job'[q].at > 0
               PROVE  promised'[q] \subseteq job'[q].files
    BY DEF AnsweredIsSaved
  <2>1. CASE q = p
    <3>1. promised'[p] = answered[s]
      BY <1>3 DEF SessionsNext, At
    <3> QED BY <1>3, <2>1, <3>1 DEF SessIInv, Tracked
  <2>2. CASE q # p
    <3>1. job'[q] = job[q]
      BY <1>3, <2>2
    <3>2. ~At(q, "idle") /\ job'[q] # NoJob
      BY <3>1, JobTyped DEF SessIInv, Phases, At
    <3>3. promised'[q] = promised[q]
      BY <3>2 DEF SessionsNext
    <3> QED BY <3>1, <3>3 DEF SessIInv, AnsweredIsSaved
  <2> QED BY <2>1, <2>2
<1> QED BY <1>7, <1>8, <1>11, <1>12, <1>13 DEF SessIInv

-----------------------------------------------------------------------------
(* Step by step.                                                           *)

LEMMA InitializeKept ==
    ASSUME SessIInv, SessionsNext, NEW s \in Sessions, Initialize(s)
    PROVE  SessIInv'
<1>1. /\ server = "up" /\ server' = "up" /\ s \notin issued
      /\ issued' = issued \union {s} /\ open' = open \union {s}
      /\ UNCHANGED <<activity, job, sweep, saved, stamp, runs, failures>>
  BY DEF Initialize
<1>2. TypeOK' /\ Phases'
  BY <1>1 DEF SessIInv, TypeOK, Phases, Busy, At
<1>3. Taken' = Taken
  BY <1>1 DEF Taken, Snap
<1>4. \A t \in Sessions : Answers(t) = {}
  BY <1>1, JobTyped DEF Answers, At, NoJob
<1>5. \A t \in Sessions : answered'[t] = answered[t]
  BY <1>4 DEF SessionsNext
<1>6. Known'
  BY <1>1, <1>5 DEF SessIInv, Known
<1>7. Ordered' /\ Stamped'
  BY <1>1, <1>3 DEF SessIInv, Ordered, Stamped
<1>8. Tracked'
  <2> SUFFICES ASSUME NEW t \in Sessions, MayBeSaved(t)'
               PROVE  /\ \A c \in Taken : c.session = t => c.files \subseteq activity[t]
                      /\ answered[t] \subseteq activity[t]
                      /\ \A q \in Requests : (job[q].pc = "answering" /\ job[q].session = t) =>
                            job[q].files \subseteq activity[t]
    BY <1>1, <1>3, <1>5 DEF Tracked
  <2>1. CASE t = s
    <3>1. \A c \in Taken : c.session # s
      BY <1>1, NoneAssumption DEF SessIInv, Known, Phases, Taken, Snap
    <3>2. \A q \in Requests : job[q].session # s
      BY <1>1, NoneAssumption DEF SessIInv, Known, Publishers
    <3>3. answered[s] = {}
      BY <1>1 DEF SessIInv, Known
    <3> QED BY <2>1, <3>1, <3>2, <3>3
  <2>2. CASE t # s
    <3>1. MayBeSaved(t)
      BY <1>1, <2>2 DEF MayBeSaved
    <3> QED BY <3>1 DEF SessIInv, Tracked
  <2> QED BY <2>1, <2>2
<1>9. AnsweredIsSaved'
  <2> SUFFICES ASSUME NEW p \in Publishers, job[p].at > 0
               PROVE  promised'[p] \subseteq job[p].files
    BY <1>1 DEF AnsweredIsSaved
  <2>1. ~At(p, "idle") /\ job'[p] # NoJob
    BY <1>1, JobTyped DEF SessIInv, Phases, At
  <2>2. promised'[p] = promised[p]
    BY <2>1 DEF SessionsNext
  <2> QED BY <2>2 DEF SessIInv, AnsweredIsSaved
<1> QED BY <1>2, <1>6, <1>7, <1>8, <1>9 DEF SessIInv

LEMMA CallAdmittedKept ==
    ASSUME SessIInv, SessionsNext, NEW q \in Requests, NEW s \in Sessions \union {None},
           NEW f \in Files, CallAdmitted(q, s, {f})
    PROVE  SessIInv'
<1> DEFINE next == [NoJob EXCEPT !.pc = "running", !.session = s, !.files = {f}]
<1>1. /\ server = "up" /\ s \in open \union {None}
      /\ Become(q, next)
      /\ UNCHANGED <<server, open, issued, activity, sweep, saved, stamp, runs, failures>>
  BY DEF CallAdmitted
<1>a. q \in Publishers /\ q # Lifespan /\ NoJob \in Job /\ NoJob.at = 0
  BY LifespanAssumption, JobTyped DEF Publishers, SessIInv
<1>3. next \in Job /\ next.pc = "running" /\ next.session = s /\ next.at = 0
  BY <1>a DEF Job
<1>2. /\ q \in Publishers /\ q # Lifespan
      /\ next.pc = "running" /\ next.session = s /\ next.at = 0
  BY <1>a, <1>3
<1>4. /\ job' \in [Publishers -> Job] /\ job'[q] = next
      /\ \A p \in Publishers : p # q => job'[p] = job[p]
  BY <1>1, <1>2, <1>3, BecomeTyped DEF SessIInv
<1> HIDE DEF next
<1>5. TypeOK'
  BY <1>1, <1>4 DEF SessIInv, TypeOK
<1>6. Phases'
  BY <1>1, <1>2, <1>4 DEF SessIInv, Phases, Publishers
<1>7. \A p \in Publishers : job'[p].at > 0 => job[p].at > 0 /\ Snap(p)' = Snap(p)
  BY <1>2, <1>4 DEF Snap
<1>8. \A p \in Publishers : job'[p].session \in issued \union {None}
  BY <1>1, <1>2, <1>4 DEF SessIInv, Known, TypeOK
<1>9. \A t \in Sessions : MayBeSaved(t)' => MayBeSaved(t) /\ activity[t] \subseteq activity'[t]
  BY <1>1 DEF MayBeSaved
<1>10. \A r \in Requests : job'[r].pc = "answering" => job'[r] = job[r]
  BY <1>2, <1>4 DEF Publishers
<1>11. saved' \subseteq Taken
  BY <1>1 DEF Taken
<1> QED BY <1>1, <1>5, <1>6, <1>7, <1>8, <1>9, <1>10, <1>11, NoSnapshotKept

LEMMA CallRecordedKept ==
    ASSUME SessIInv, SessionsNext, NEW q \in Requests, CallRecorded(q)
    PROVE  SessIInv'
<1> DEFINE next == [job[q] EXCEPT !.pc = "answering"]
<1>1. /\ job[q].pc = "running" /\ activity' = Recorded(job[q].session, job[q].files)
      /\ Become(q, next)
      /\ UNCHANGED <<server, open, issued, sweep, saved, stamp, runs, failures>>
  BY DEF CallRecorded, At
<1>2. q \in Publishers /\ q # Lifespan /\ job[q] \in Job
  BY LifespanAssumption, JobTyped DEF Publishers, SessIInv
<1>3. /\ next \in Job /\ next.pc = "answering" /\ next.session = job[q].session
      /\ next.files = job[q].files /\ next.at = job[q].at
  BY <1>2 DEF Job
<1>4. /\ job' \in [Publishers -> Job] /\ job'[q] = next
      /\ \A p \in Publishers : p # q => job'[p] = job[p]
  BY <1>1, <1>2, <1>3, BecomeTyped DEF SessIInv
<1> HIDE DEF next
<1>5. /\ activity' \in [Sessions -> SUBSET Files]
      /\ \A t \in Sessions : activity[t] \subseteq activity'[t]
      /\ job[q].session \in Sessions => job[q].files \subseteq activity'[job[q].session]
  <2>1. activity \in [Sessions -> SUBSET Files] /\ job[q].files \in SUBSET Files
        /\ job[q].session \in Sessions \union {None}
    BY <1>2, JobTyped DEF SessIInv, TypeOK
  <2> QED BY <1>1, <2>1, NoneAssumption DEF Recorded
<1>6. TypeOK'
  BY <1>1, <1>4, <1>5 DEF SessIInv, TypeOK
<1>7. job[q].at = 0
  BY <1>1, <1>2, JobTyped DEF SessIInv, Phases
<1>8. Phases'
  <2>1. server \notin {"sweeping", "down"}
    BY <1>1 DEF SessIInv, Phases, Busy, At
  <2> QED BY <1>1, <1>2, <1>3, <1>4, <1>7, <2>1 DEF SessIInv, Phases, Publishers
<1>9. \A p \in Publishers : job'[p].at > 0 => job[p].at > 0 /\ Snap(p)' = Snap(p)
  BY <1>3, <1>4, <1>7 DEF Snap
<1>10. \A p \in Publishers : job'[p].session \in issued \union {None}
  BY <1>2, <1>3, <1>4 DEF SessIInv, Known
<1>11. \A t \in Sessions : MayBeSaved(t)' => MayBeSaved(t) /\ activity[t] \subseteq activity'[t]
  <2>1. job'[Lifespan] = job[Lifespan]
    BY <1>2, <1>4 DEF Publishers
  <2> QED BY <1>1, <1>5, <2>1 DEF MayBeSaved
<1>12. \A r \in Requests, t \in Sessions :
          (job'[r].pc = "answering" /\ job'[r].session = t) =>
             job'[r] = job[r] \/ job'[r].files \subseteq activity'[t]
  BY <1>3, <1>4, <1>5 DEF Publishers
<1>13. saved' \subseteq Taken
  BY <1>1 DEF Taken
<1> QED BY <1>1, <1>6, <1>8, <1>9, <1>10, <1>11, <1>12, <1>13, NoSnapshotKept

\* A job that ends, or goes on with what it had, and nothing else but what it wrote.
LEMMA JobGoesOn ==
    ASSUME SessIInv, SessionsNext, NEW p \in Publishers, NEW next \in Job, Become(p, next),
           next.at = job[p].at \/ next.at = 0, next.at > 0 => next.files = job[p].files,
           next.session \in {job[p].session, None},
           next.at > 0 => next.session = job[p].session,
           next.pc # "answering",
           next.pc \in {"writing", "mirroring"} => next.at > 0,
           next.at > 0 => next.pc \in {"writing", "mirroring", "orphan"},
           p = Lifespan => next.pc \in {"idle", "mirroring"} /\ server = "sweeping",
           p # Lifespan => next.pc \in {"idle", "orphan"} \/ job[p].pc = "writing",
           issued' = issued, stamp' = stamp, server' = server, runs' = runs, failures' \in Nat,
           open' \subseteq open, sweep' \subseteq open', sweep' \subseteq sweep, saved' \subseteq Taken, saved' \subseteq Checkpoint,
           activity' \in [Sessions -> SUBSET Files],
           \A s \in Sessions : MayBeSaved(s)' => MayBeSaved(s) /\ activity[s] \subseteq activity'[s]
    PROVE  SessIInv'
<1>1. /\ job' \in [Publishers -> Job] /\ job'[p] = next
      /\ \A q \in Publishers : q # p => job'[q] = job[q]
  BY BecomeTyped DEF SessIInv
<1>2. TypeOK'
  <2>1. sweep' \subseteq Sessions /\ open' \subseteq issued'
    BY DEF SessIInv, TypeOK
  <2> QED BY <1>1, <2>1 DEF SessIInv, TypeOK
<1>3. Phases'
  <2>1. server' # "sweeping" => job'[Lifespan].pc = "idle"
    BY <1>1 DEF SessIInv, Phases, Publishers
  <2>2. job'[Lifespan].pc \in {"idle", "writing", "mirroring"}
    BY <1>1 DEF SessIInv, Phases, Publishers
  <2>3. ASSUME server' \in {"sweeping", "down"}, NEW q \in Requests
        PROVE  ~Busy(q)'
    <3>1. ~Busy(q)
      BY <2>3 DEF SessIInv, Phases
    <3>2. CASE q = p
      <4>1. next.pc \in {"idle", "orphan"}
        BY <3>1, <3>2, LifespanAssumption DEF Busy, At
      <4> QED BY <1>1, <3>2, <4>1 DEF Busy, At
    <3>3. CASE q # p
      <4>1. job'[q] = job[q]
        BY <1>1, <3>3 DEF Publishers
      <4> QED BY <3>1, <4>1 DEF Busy, At
    <3> QED BY <3>2, <3>3
  <2>4. ASSUME NEW q \in Publishers
        PROVE  /\ job'[q].pc \in {"writing", "mirroring"} => job'[q].at > 0
               /\ job'[q].at > 0 => /\ job'[q].pc \in {"writing", "mirroring", "orphan"}
                                    /\ job'[q].session \in Sessions
    <3>1. CASE q = p
      <4>1. next.at > 0 => job[p].at > 0
        OBVIOUS
      <4>2. job[p].at > 0 => job[p].session \in Sessions
        BY DEF SessIInv, Phases
      <4> QED BY <1>1, <3>1, <4>1, <4>2
    <3>2. CASE q # p
      BY <1>1, <3>2 DEF SessIInv, Phases
    <3> QED BY <3>1, <3>2
  <2>5. sweep' # {} => server' \in {"sweeping", "down"}
    BY DEF SessIInv, Phases
  <2> QED BY <2>1, <2>2, <2>3, <2>4, <2>5 DEF Phases
<1>4. \A q \in Publishers : job'[q].at > 0 => job[q].at > 0 /\ Snap(q)' = Snap(q)
  BY <1>1 DEF Snap
<1>5. \A q \in Publishers : job'[q].session \in issued \union {None}
  BY <1>1 DEF SessIInv, Known
<1>6. \A q \in Requests : job'[q].pc = "answering" => job'[q] = job[q]
  BY <1>1 DEF Publishers
<1> QED BY <1>2, <1>3, <1>4, <1>5, <1>6, NoSnapshotKept

LEMMA CallAnsweredKept ==
    ASSUME SessIInv, SessionsNext, NEW q \in Requests, CallAnswered(q)
    PROVE  SessIInv'
<1>1. /\ job[q].pc = "answering" /\ Become(q, NoJob)
      /\ UNCHANGED <<server, open, issued, activity, sweep, saved, stamp, runs, failures>>
  BY DEF CallAnswered, At
<1>2. q \in Publishers /\ q # Lifespan
  BY LifespanAssumption DEF Publishers
<1>3. NoJob \in Job /\ NoJob.at = 0 /\ NoJob.pc = "idle" /\ NoJob.session = None
  BY <1>2, JobTyped DEF SessIInv
<1>4. sweep' \subseteq open' /\ saved' \subseteq Taken /\ saved' \subseteq Checkpoint
      /\ failures' \in Nat /\ activity' \in [Sessions -> SUBSET Files]
  BY <1>1 DEF SessIInv, TypeOK, Phases, Taken
<1>5. \A s \in Sessions : MayBeSaved(s)' => MayBeSaved(s) /\ activity[s] \subseteq activity'[s]
  <2>1. job'[Lifespan] = job[Lifespan]
    BY <1>1, <1>2, <1>3, BecomeTyped DEF SessIInv, Publishers
  <2> QED BY <1>1, <2>1 DEF MayBeSaved
<1> QED BY <1>1, <1>2, <1>3, <1>4, <1>5, JobGoesOn

LEMMA CheckpointWrittenKept ==
    ASSUME SessIInv, SessionsNext, NEW p \in Publishers, CheckpointWritten(p)
    PROVE  SessIInv'
<1> DEFINE next == [job[p] EXCEPT !.pc = "mirroring"]
<1>1. /\ job[p].pc = "writing" /\ Become(p, next) /\ saved' = Saved(p)
      /\ UNCHANGED <<server, open, issued, activity, sweep, stamp, runs, failures>>
  BY DEF CheckpointWritten, At
<1>2. job[p] \in Job /\ job[p].at > 0 /\ job[p].session \in Sessions
  BY <1>1, JobTyped DEF SessIInv, Phases
<1>3. /\ next \in Job /\ next.pc = "mirroring" /\ next.session = job[p].session
      /\ next.files = job[p].files /\ next.at = job[p].at
  BY <1>2 DEF Job
<1>4. saved' \subseteq Taken /\ saved' \subseteq Checkpoint
  <2>1. saved' = saved \union {Snap(p)}
    BY <1>1 DEF Saved, Snap
  <2>2. Snap(p) \in Checkpoint
    BY <1>2 DEF Snap, Checkpoint, Job
  <2> QED BY <1>2, <2>1, <2>2 DEF SessIInv, TypeOK, Taken
<1>5. sweep' \subseteq open' /\ failures' \in Nat /\ activity' \in [Sessions -> SUBSET Files]
  BY <1>1 DEF SessIInv, TypeOK, Phases
<1>6. \A s \in Sessions : MayBeSaved(s)' => MayBeSaved(s) /\ activity[s] \subseteq activity'[s]
  <2>1. job'[Lifespan].session = job[Lifespan].session
        /\ (job[Lifespan].pc = "idle" <=> job'[Lifespan].pc = "idle")
    <3>1. Lifespan \in Publishers
      BY DEF Publishers
    <3> QED BY <1>1, <1>3, <3>1, BecomeTyped DEF SessIInv
  <2> QED BY <1>1, <2>1 DEF MayBeSaved
<1>7. p = Lifespan => server = "sweeping"
  BY <1>1 DEF SessIInv, Phases
<1> HIDE DEF next
<1> QED BY <1>1, <1>2, <1>3, <1>4, <1>5, <1>6, <1>7, JobGoesOn

\* The end of a publish, done or failed: the session is closed, or swept.
LEMMA PublishOverKept ==
    ASSUME SessIInv, SessionsNext, NEW p \in Publishers, PublishDone(p) \/ PublishFails(p)
    PROVE  SessIInv'
<1> DEFINE s == job[p].session
<1>1. /\ job[p].pc \in {"writing", "mirroring"} /\ Become(p, NoJob)
      /\ open' = StillOpen(p) /\ sweep' = Swept(p)
      /\ UNCHANGED <<server, issued, saved, stamp, runs>>
      /\ failures' \in Nat
      /\ activity' \in [Sessions -> SUBSET Files]
      /\ \A t \in Sessions : t # s => activity'[t] = activity[t]
  BY DEF PublishDone, PublishFails, At, SessIInv, TypeOK
<1>2. job[p].at > 0 /\ s \in Sessions
  BY <1>1 DEF SessIInv, Phases
<1>3. NoJob \in Job /\ NoJob.at = 0 /\ NoJob.pc = "idle" /\ NoJob.session = None
  BY JobTyped DEF SessIInv
<1>4. saved' \subseteq Taken /\ saved' \subseteq Checkpoint
  BY <1>1 DEF SessIInv, TypeOK, Taken
<1>5. p = Lifespan => server = "sweeping"
  BY <1>1 DEF SessIInv, Phases
<1>a. p # Lifespan => server \in {"up", "stopping"} /\ sweep = {}
  BY <1>1 DEF SessIInv, TypeOK, Phases, Busy, At, Publishers
<1>b. /\ job'[p] = NoJob
      /\ \A q \in Publishers : q # p => job'[q] = job[q]
  BY <1>1, <1>3, BecomeTyped DEF SessIInv
<1>6. CASE p = Lifespan
  <2>1. open' = open /\ sweep' = sweep \ {s}
    BY <1>1, <1>6 DEF StillOpen, Swept
  <2>2. sweep' \subseteq open'
    BY <2>1 DEF SessIInv, Phases
  <2>3. \A t \in Sessions : MayBeSaved(t)' => t # s /\ MayBeSaved(t)
    <3>1. server = "sweeping" /\ server' = "sweeping"
      BY <1>1, <1>5, <1>6
    <3> QED BY <1>6, <2>1, <3>1 DEF MayBeSaved
  <2> QED BY <1>1, <1>3, <1>4, <1>5, <1>6, <2>1, <2>2, <2>3, JobGoesOn
<1>7. CASE p # Lifespan
  <2>1. open' = open \ {s} /\ sweep' = sweep
    BY <1>1, <1>7 DEF StillOpen, Swept
  <2>2. sweep' \subseteq open'
    BY <1>a, <1>7, <2>1
  <2>3. \A t \in Sessions : MayBeSaved(t)' => t # s /\ MayBeSaved(t)
    BY <1>1, <1>a, <1>7, <2>1 DEF MayBeSaved
  <2> QED BY <1>1, <1>3, <1>4, <1>7, <2>1, <2>2, <2>3, JobGoesOn
<1> QED BY <1>6, <1>7

LEMMA CancelKept ==
    ASSUME SessIInv, SessionsNext, NEW q \in Requests, Cancel(q)
    PROVE  SessIInv'
<1>1. /\ server = "stopping" /\ Busy(q) /\ failures' = failures + 1
      /\ UNCHANGED <<server, open, issued, activity, sweep, saved, stamp, runs>>
  BY DEF Cancel
<1>2. q \in Publishers /\ q # Lifespan /\ job[q] \in Job
  BY LifespanAssumption, JobTyped DEF Publishers, SessIInv
<1>3. PICK next \in Job :
         /\ Become(q, next) /\ next.pc \in {"idle", "orphan"}
         /\ next.at = job[q].at \/ next.at = 0
         /\ next.at > 0 => next.files = job[q].files /\ next.session = job[q].session
                           /\ next.pc = "orphan"
         /\ next.session \in {job[q].session, None}
  <2>1. CASE Become(q, NoJob)
    BY <1>2, <2>1, JobTyped DEF SessIInv
  <2>2. CASE Become(q, [job[q] EXCEPT !.pc = "orphan"])
    <3>1. [job[q] EXCEPT !.pc = "orphan"] \in Job
      BY <1>2 DEF Job
    <3> QED BY <1>2, <2>2, <3>1 DEF Job
  <2> QED BY <2>1, <2>2 DEF Cancel
<1>4. /\ saved' \subseteq Taken /\ saved' \subseteq Checkpoint /\ failures' \in Nat
      /\ sweep' \subseteq open' /\ activity' \in [Sessions -> SUBSET Files]
  BY <1>1 DEF SessIInv, TypeOK, Taken, Phases
<1>5. \A s \in Sessions : MayBeSaved(s)' => MayBeSaved(s) /\ activity[s] \subseteq activity'[s]
  BY <1>1 DEF MayBeSaved
<1> QED BY <1>1, <1>2, <1>3, <1>4, <1>5, JobGoesOn

LEMMA OrphanEndsKept ==
    ASSUME SessIInv, SessionsNext, NEW q \in Requests, OrphanEnds(q)
    PROVE  SessIInv'
<1>1. /\ job[q].pc = "orphan" /\ Become(q, NoJob)
      /\ UNCHANGED <<server, open, issued, sweep, stamp, runs, failures>>
      /\ IF job[q].at = 0
         THEN activity' = Recorded(job[q].session, job[q].files) /\ UNCHANGED saved
         ELSE saved' = Saved(q) /\ UNCHANGED activity
  BY DEF OrphanEnds, At
<1>2. q \in Publishers /\ q # Lifespan
  BY LifespanAssumption DEF Publishers
<1>3. NoJob \in Job /\ NoJob.at = 0 /\ NoJob.pc = "idle" /\ NoJob.session = None
      /\ job[q].at \in Nat /\ job[q].files \in SUBSET Files
      /\ job[q].session \in Sessions \union {None}
  BY <1>2, JobTyped DEF SessIInv
<1>4. saved' \subseteq Taken /\ saved' \subseteq Checkpoint
  <2>1. CASE job[q].at = 0
    BY <1>1, <2>1 DEF SessIInv, TypeOK, Taken
  <2>2. CASE job[q].at # 0
    <3>1. saved' = saved \union {Snap(q)} /\ job[q].at > 0
      BY <1>1, <1>3, <2>2 DEF Saved, Snap
    <3>2. job[q].session \in Sessions
      BY <1>2, <3>1 DEF SessIInv, Phases
    <3>3. Snap(q) \in Checkpoint
      BY <1>3, <3>2 DEF Snap, Checkpoint
    <3> QED BY <1>2, <3>1, <3>3 DEF SessIInv, TypeOK, Taken
  <2> QED BY <2>1, <2>2
<1>5. /\ activity' \in [Sessions -> SUBSET Files]
      /\ \A s \in Sessions : activity[s] \subseteq activity'[s]
  BY <1>1, <1>3 DEF SessIInv, TypeOK, Recorded
<1>6. sweep' \subseteq open' /\ failures' \in Nat
  BY <1>1 DEF SessIInv, TypeOK, Phases
<1>7. \A s \in Sessions : MayBeSaved(s)' => MayBeSaved(s) /\ activity[s] \subseteq activity'[s]
  <2>1. job'[Lifespan] = job[Lifespan]
    BY <1>1, <1>2, <1>3, BecomeTyped DEF SessIInv, Publishers
  <2> QED BY <1>1, <1>5, <2>1 DEF MayBeSaved
<1> QED BY <1>1, <1>2, <1>3, <1>4, <1>5, <1>6, <1>7, JobGoesOn

\* Steps that leave the jobs alone, or end them all.
LEMMA ServerStepKept ==
    ASSUME SessIInv, SessionsNext,
           \/ \E q \in Requests, s \in Sessions : DeleteWithoutProject(q, s)
           \/ Stop \/ SweepStart \/ SweepDone \/ Crash \/ Start
    PROVE  SessIInv'
<1>1. NoJob \in Job /\ NoJob.at = 0 /\ NoJob.pc = "idle" /\ NoJob.session = None
      /\ \A p \in Publishers : job[p] \in Job
  <2>1. Lifespan \in Publishers
    BY DEF Publishers
  <2> QED BY <2>1, JobTyped DEF SessIInv
<1>2. /\ issued' = issued /\ saved' = saved /\ stamp' = stamp /\ runs' \in Nat /\ failures' \in Nat
      /\ job' = job \/ job' = [p \in Publishers |-> NoJob]
      /\ server' \in {"up", "stopping", "sweeping", "down"}
      /\ open' \subseteq open /\ sweep' \subseteq open'
      /\ activity' \in [Sessions -> SUBSET Files]
  <2>1. ASSUME NEW q \in Requests, NEW s \in Sessions, DeleteWithoutProject(q, s)
        PROVE  /\ issued' = issued /\ saved' = saved /\ stamp' = stamp /\ runs' \in Nat
               /\ failures' \in Nat /\ job' = job /\ server' = server
               /\ open' \subseteq open /\ sweep' \subseteq open' /\ activity' = activity
    BY <2>1 DEF DeleteWithoutProject, SessIInv, TypeOK, Phases
  <2> QED BY <2>1 DEF Stop, SweepStart, SweepDone, Crash, Start, SessIInv, TypeOK, Phases
<1>3. \A p \in Publishers : job'[p] = job[p] \/ job'[p] = NoJob
  BY <1>2
<1>4. TypeOK'
  BY <1>1, <1>2 DEF SessIInv, TypeOK
<1>5. Lifespan \in Publishers /\ Requests \subseteq Publishers
  BY DEF Publishers
<1>6. Phases'
  <2>1. /\ server' # "sweeping" => job'[Lifespan].pc = "idle"
        /\ server' \in {"sweeping", "down"} => \A q \in Requests : ~Busy(q)'
        /\ sweep' # {} => server' \in {"sweeping", "down"}
    <3>1. CASE Crash
      <4>1. job' = [p \in Publishers |-> NoJob] /\ server' = "down"
        BY <3>1 DEF Crash
      <4> QED BY <1>1, <1>5, <4>1 DEF Busy, At
    <3>2. CASE Stop \/ \E q \in Requests, s \in Sessions : DeleteWithoutProject(q, s)
      BY <3>2 DEF Stop, DeleteWithoutProject, SessIInv, Phases
    <3>3. CASE SweepStart
      BY <3>3 DEF SweepStart, SessIInv, Phases, Busy, At
    <3>4. CASE SweepDone
      BY <3>4 DEF SweepDone, Sweeping, SessIInv, Phases, Busy, At
    <3>5. CASE Start
      BY <3>5 DEF Start, SessIInv, Phases, Busy, At
    <3> QED BY <3>1, <3>2, <3>3, <3>4, <3>5
  <2>2. job'[Lifespan].pc \in {"idle", "writing", "mirroring"}
    BY <1>1, <1>3, <1>5 DEF SessIInv, Phases
  <2>3. ASSUME NEW p \in Publishers
        PROVE  /\ job'[p].pc \in {"writing", "mirroring"} => job'[p].at > 0
               /\ job'[p].at > 0 => /\ job'[p].pc \in {"writing", "mirroring", "orphan"}
                                    /\ job'[p].session \in Sessions
    BY <1>1, <1>3 DEF SessIInv, Phases
  <2> QED BY <1>2, <2>1, <2>2, <2>3 DEF Phases
<1>7. \A p \in Publishers : job'[p].at > 0 => job[p].at > 0 /\ Snap(p)' = Snap(p)
  BY <1>1, <1>3 DEF Snap
<1>8. \A p \in Publishers : job'[p].session \in issued \union {None}
  BY <1>1, <1>3 DEF SessIInv, Known
<1>9. \A s \in Sessions : MayBeSaved(s)' => MayBeSaved(s) /\ activity[s] \subseteq activity'[s]
  <2>1. CASE Stop \/ \E q \in Requests, s \in Sessions : DeleteWithoutProject(q, s)
    BY <2>1 DEF Stop, DeleteWithoutProject, MayBeSaved
  <2>2. CASE SweepStart
    BY <2>2 DEF SweepStart, MayBeSaved
  <2>3. CASE SweepDone \/ Crash
    BY <2>3 DEF SweepDone, Crash, MayBeSaved
  <2>4. CASE Start
    BY <2>4 DEF Start, MayBeSaved
  <2> QED BY <2>1, <2>2, <2>3, <2>4
<1>10. \A q \in Requests : job'[q].pc = "answering" => job'[q] = job[q]
  BY <1>1, <1>3, <1>5
<1>11. saved' \subseteq Taken
  BY <1>2 DEF Taken
<1> QED BY <1>2, <1>4, <1>6, <1>7, <1>8, <1>9, <1>10, <1>11, NoSnapshotKept

LEMMA SnapshotStepKept ==
    ASSUME SessIInv, SessionsNext, NEW s \in Sessions,
           (\E q \in Requests : DeleteAdmitted(q, s)) \/ SweepNext(s)
    PROVE  SessIInv'
<1>1. PICK p \in Publishers :
         /\ job[p].pc = "idle" /\ Snapshot(p, s) /\ MayBeSaved(s)
         /\ p = Lifespan => server = "sweeping"
         /\ p # Lifespan => p \in Requests /\ server = "up"
         /\ UNCHANGED <<server, open, issued, activity, sweep, saved, runs, failures>>
  <2>1. ASSUME NEW q \in Requests, DeleteAdmitted(q, s)
        PROVE  /\ q \in Publishers /\ q # Lifespan /\ job[q].pc = "idle" /\ Snapshot(q, s)
               /\ MayBeSaved(s) /\ server = "up"
               /\ UNCHANGED <<server, open, issued, activity, sweep, saved, runs, failures>>
    BY <2>1, LifespanAssumption DEF DeleteAdmitted, At, MayBeSaved, Publishers
  <2>2. SweepNext(s) =>
          /\ Lifespan \in Publishers /\ job[Lifespan].pc = "idle" /\ Snapshot(Lifespan, s)
          /\ MayBeSaved(s) /\ server = "sweeping"
          /\ UNCHANGED <<server, open, issued, activity, sweep, saved, runs, failures>>
    BY DEF SweepNext, Sweeping, At, MayBeSaved, Publishers
  <2> QED BY <2>1, <2>2
<1> DEFINE next == [pc |-> "writing", session |-> s, files |-> activity[s], at |-> stamp + 1]
<1>2. job[p].at = 0
  BY <1>1, JobTyped DEF SessIInv, Phases
<1>3. next \in Job /\ Become(p, next) /\ stamp' = stamp + 1 /\ stamp + 1 \in Nat /\ stamp + 1 > 0
  BY <1>1 DEF Snapshot, SessIInv, TypeOK, Job
<1>4. /\ job' \in [Publishers -> Job] /\ job'[p] = next
      /\ \A q \in Publishers : q # p => job'[q] = job[q]
  BY <1>3, BecomeTyped DEF SessIInv
<1>5. TypeOK'
  BY <1>1, <1>3, <1>4 DEF SessIInv, TypeOK
<1>6. Phases'
  <2>1. /\ server' # "sweeping" => job'[Lifespan].pc = "idle"
        /\ job'[Lifespan].pc \in {"idle", "writing", "mirroring"}
    BY <1>1, <1>4 DEF SessIInv, Phases, Publishers
  <2>2. server' \in {"sweeping", "down"} => \A q \in Requests : ~Busy(q)'
    <3>1. ASSUME server' \in {"sweeping", "down"}, NEW q \in Requests PROVE ~Busy(q)'
      <4>1. q # p /\ q \in Publishers
        BY <1>1, <3>1, LifespanAssumption DEF Publishers
      <4> QED BY <1>1, <1>4, <3>1, <4>1 DEF SessIInv, Phases, Busy, At
    <3> QED BY <3>1
  <2>3. ASSUME NEW q \in Publishers
        PROVE  /\ job'[q].pc \in {"writing", "mirroring"} => job'[q].at > 0
               /\ job'[q].at > 0 => /\ job'[q].pc \in {"writing", "mirroring", "orphan"}
                                    /\ job'[q].session \in Sessions
    BY <1>3, <1>4 DEF SessIInv, Phases
  <2> QED BY <1>1, <2>1, <2>2, <2>3 DEF SessIInv, Phases
<1> QED BY <1>1, <1>2, <1>5, <1>6, SnapshotKept

-----------------------------------------------------------------------------
THEOREM SessionsInvariance == SessionsSpec => []SessIInv
<1>1. SessionsInit => SessIInv
  <2> SUFFICES ASSUME SessionsInit PROVE SessIInv
    OBVIOUS
  <2>0. NoJob \in Job /\ NoJob.at = 0 /\ NoJob.pc = "idle" /\ NoJob.session = None
    BY DEF NoJob, Job
  <2>1. TypeOK
    BY <2>0 DEF SessionsInit, Init, TypeOK
  <2>2. \A p \in Publishers : job[p] = NoJob
    BY DEF SessionsInit, Init
  <2>3. Taken = {} /\ saved = {}
    BY <2>0, <2>2 DEF SessionsInit, Init, Taken
  <2>4. Phases
    BY <2>0, <2>2 DEF SessionsInit, Init, Phases, Publishers
  <2>5. Known
    BY <2>0, <2>2, <2>3 DEF SessionsInit, Init, Known
  <2>6. Ordered /\ Stamped
    BY <2>3 DEF Ordered, Stamped
  <2>7. Tracked
    BY DEF SessionsInit, Init, Tracked, MayBeSaved
  <2>8. AnsweredIsSaved
    BY <2>0, <2>2 DEF AnsweredIsSaved
  <2> QED BY <2>1, <2>4, <2>5, <2>6, <2>7, <2>8 DEF SessIInv
<1>2. SessIInv /\ [SessionsNext]_sessionVars => SessIInv'
  <2> SUFFICES ASSUME SessIInv, [SessionsNext]_sessionVars PROVE SessIInv'
    OBVIOUS
  <2>1. CASE SessionsNext
    <3>1. Next
      BY <2>1 DEF SessionsNext
    <3>2. ASSUME NEW q \in Requests, CallStep(q) \/ Cancel(q) \/ OrphanEnds(q) PROVE SessIInv'
      BY <2>1, <3>2, CallRecordedKept, CallAnsweredKept, CancelKept, OrphanEndsKept DEF CallStep
    <3>3. ASSUME NEW p \in Publishers, PublishStep(p) PROVE SessIInv'
      BY <2>1, <3>3, CheckpointWrittenKept, PublishOverKept DEF PublishStep
    <3>4. ASSUME NEW q \in Requests, NEW s \in Sessions,
                 DeleteAdmitted(q, s) \/ DeleteWithoutProject(q, s)
          PROVE  SessIInv'
      BY <2>1, <3>4, SnapshotStepKept, ServerStepKept
    <3>5. CASE Stop \/ ShutdownStep \/ Crash \/ Start
      BY <2>1, <3>5, SnapshotStepKept, ServerStepKept DEF ShutdownStep
    <3>6. ASSUME NEW s \in Sessions, Initialize(s) PROVE SessIInv'
      BY <2>1, <3>6, InitializeKept
    <3>7. ASSUME NEW q \in Requests, NEW s \in Sessions \union {None}, NEW f \in Files,
                 CallAdmitted(q, s, {f})
          PROVE  SessIInv'
      BY <2>1, <3>7, CallAdmittedKept
    <3> QED BY <3>1, <3>2, <3>3, <3>4, <3>5, <3>6, <3>7 DEF Next
  <2>2. CASE UNCHANGED sessionVars
    <3>1. UNCHANGED <<server, open, issued, activity, job, sweep, saved, stamp, runs, failures,
                      answered, promised>>
      BY <2>2 DEF sessionVars, vars
    <3>2. TypeOK' /\ Phases' /\ Known' /\ AnsweredIsSaved'
      BY <3>1 DEF SessIInv, TypeOK, Phases, Known, AnsweredIsSaved, Busy, At
    <3>3. Taken' = Taken
      BY <3>1 DEF Taken, Snap
    <3>4. Ordered' /\ Stamped' /\ Tracked'
      BY <3>1, <3>3 DEF SessIInv, Ordered, Stamped, Tracked, MayBeSaved
    <3> QED BY <3>2, <3>4 DEF SessIInv
  <2> QED BY <2>1, <2>2
<1> QED BY <1>1, <1>2, PTL DEF SessionsSpec

THEOREM NewestCovers == SessionsSpec => []CheckpointsCover
<1>1. SessIInv => CheckpointsCover
  BY DEF SessIInv, Ordered, Taken, CheckpointsCover, LatestCovers
<1> QED BY <1>1, SessionsInvariance, PTL

-----------------------------------------------------------------------------
(* EventFabric                                                             *)

\* A graph that has all that another one has; a memory may belong to another project.
Grows(g, h) ==
    /\ g.events \subseteq h.events /\ g.edges \subseteq h.edges
    /\ \A c \in Contents : g.memories[c] # Absent => h.memories[c] # Absent

\* What a process that publishes has written so far, it finds in its view of the graph.
StageWritten(p) ==
    LET e == publishing[p].event IN
    /\ publishing[p].pc = "memory" => e.content # NoRef
    /\ publishing[p].pc \in {"event", "edge", "notify"} /\ e.content # NoRef =>
          View(p).memories[e.content] # Absent
    /\ publishing[p].pc \in {"edge", "notify"} => e \in View(p).events
    /\ publishing[p].pc = "notify" => \A c \in e.refs : <<e.n, c>> \in View(p).edges

\* The number of an event is that of a call there has been.
Numbered ==
    \A p \in Producers :
       /\ \A e \in returned[p] : e.n <= calls
       /\ publishing[p].pc # "idle" => publishing[p].event.n <= calls

GraphIInv ==
    /\ store = "sqlite" => graph \in Graph
    /\ Numbered
    /\ \A p \in Producers : StageWritten(p)
    /\ PublishedStays
    /\ NotifiedIsIndexed

\* The ids of a stream increase from 1 on.
Increasing(s) ==
    /\ \A k \in DOMAIN s : s[k].id > 0
    /\ \A j, k \in DOMAIN s : j < k => s[j].id < s[k].id

\* The position after the first m entries of a stream.
IdAt(s, m) == IF m = 0 THEN 0 ELSE s[m].id

\* Of a watcher of one project: what it received and what is still to be handed on are
\* entries of the stream from the d-th on, and its position is that of what it received.
HasRead(c, got, s, r, d) ==
    LET n == Len(got) IN
    /\ d + n + Len(c.batch[1]) <= Len(s)
    /\ \A k \in 1..n : got[k] = s[d + k]
    /\ \A k \in 1..Len(c.batch[1]) : c.batch[1][k] = s[d + n + k]
    /\ c.since = 0 => d = 0
    /\ c.last = IF n = 0 THEN c.since ELSE s[d + n].id
    /\ c.open => c.cursor[r] = c.last
    /\ c.waits => /\ c.open /\ c.batch[1] = <<>>
                  /\ \E m \in 0..Len(s) : /\ c.from[r] = IdAt(s, m)
                                          /\ c.last # Newest => m = d + n
WatcherAt(w) ==
    \E d \in Nat : HasRead(watch[w], received[w], streams[Follows[w][1]], Follows[w][1], d)

WatchIInv ==
    /\ \A r \in Projects : Increasing(streams[r])
    /\ \A w \in Watchers : Len(watch[w].batch) = Len(Follows[w])
    /\ \A w \in Watchers : Len(Follows[w]) = 1 => WatcherAt(w)

FabricIInv == FabricTypeOK /\ GraphIInv /\ WatchIInv

LEMMA FollowsTyped ==
    ASSUME NEW w \in Watchers
    PROVE  /\ Follows[w] \in Seq(Projects)
           /\ Len(Follows[w]) \in Nat /\ DOMAIN Follows[w] = 1..Len(Follows[w])
           /\ \A k \in 1..Len(Follows[w]) : Follows[w][k] \in Projects
<1>1. Follows \in [Watchers -> Seq(Projects)] BY FollowsAssumption
<1>2. Follows[w] \in Seq(Projects) BY <1>1
<1>3. QED BY <1>2

LEMMA NoBatchTyped ==
    ASSUME NEW w \in Watchers
    PROVE  /\ NoBatch(w) \in Seq(Seq(Entry)) /\ Len(NoBatch(w)) = Len(Follows[w])
           /\ \A k \in 1..Len(Follows[w]) : NoBatch(w)[k] = <<>>
<1>1. NoBatch(w) = [k \in 1..Len(Follows[w]) |-> <<>>] BY FollowsTyped DEF NoBatch
<1>2. <<>> \in Seq(Entry) OBVIOUS
<1>3. NoBatch(w) \in [1..Len(Follows[w]) -> Seq(Entry)] BY <1>1, <1>2
<1>4. Len(Follows[w]) \in Nat BY FollowsTyped
<1>5. QED BY <1>1, <1>3, <1>4

LEMMA EmptyGraphTyped == EmptyGraph \in Graph
BY DEF EmptyGraph, Graph

LEMMA UnconnectedTyped ==
    ASSUME NEW w \in Watchers, NEW since \in {0, Newest}
    PROVE  /\ Unconnected(w, since) \in Connection
           /\ Unconnected(w, since).since = since /\ Unconnected(w, since).last = since
           /\ ~Unconnected(w, since).open /\ ~Unconnected(w, since).waits
           /\ Unconnected(w, since).batch = NoBatch(w)
<1>1. NoBatch(w) \in Seq(Seq(Entry)) BY NoBatchTyped
<1>2. QED BY <1>1 DEF Unconnected, Connection, Position

LEMMA FabricStarts == FabricInit => FabricIInv
<1> SUFFICES ASSUME FabricInit PROVE FabricIInv OBVIOUS
<1> USE FabricBounds
<1>1. PICK since \in [Watchers -> Sinces] :
         watch = [w \in Watchers |-> Unconnected(w, since[w])]
  BY DEF FabricInit
<1>2. ASSUME NEW w \in Watchers
      PROVE  /\ watch[w] \in Connection /\ watch[w].since = since[w]
             /\ watch[w].last = since[w] /\ ~watch[w].open /\ ~watch[w].waits
             /\ watch[w].batch = NoBatch(w)
  <2>1. since[w] \in {0, Newest} BY SincesAssumption
  <2>2. watch[w] = Unconnected(w, since[w]) BY <1>1
  <2>3. QED BY <2>1, <2>2, UnconnectedTyped
<1>3. FabricTypeOK
  <2>1. publishing \in [Producers -> Publishing] BY DEF FabricInit, Idle, Publishing
  <2>2. watch \in [Watchers -> Connection]
    <3>1. DOMAIN watch = Watchers /\ watch = [w \in Watchers |-> watch[w]] BY <1>1
    <3>2. QED BY <1>2, <3>1
  <2>3. streams \in [Projects -> Seq(Entry)] /\ received \in [Watchers -> Seq(Entry)]
    BY DEF FabricInit
  <2>4. QED BY <2>1, <2>2, <2>3, EmptyGraphTyped DEF FabricInit, FabricTypeOK
<1>4. GraphIInv
  <2>1. \A p \in Producers : publishing[p].pc = "idle" /\ returned[p] = {}
    BY DEF FabricInit, Idle
  <2>2. \A p \in Producers : StageWritten(p) BY <2>1 DEF StageWritten
  <2>3. PublishedStays /\ Numbered BY <2>1 DEF PublishedStays, Lasting, Numbered
  <2>4. NotifiedIsIndexed BY DEF FabricInit, NotifiedIsIndexed, EmptyGraph
  <2>5. QED BY <2>2, <2>3, <2>4, EmptyGraphTyped DEF FabricInit, GraphIInv
<1>5. WatchIInv
  <2>1. \A r \in Projects : streams[r] = <<>> BY DEF FabricInit
  <2>2. \A w \in Watchers : received[w] = <<>> BY DEF FabricInit
  <2>3. ASSUME NEW w \in Watchers, Len(Follows[w]) = 1
        PROVE  WatcherAt(w)
    <3>1. Follows[w][1] \in Projects BY <2>3, FollowsTyped
    <3>2. watch[w].batch[1] = <<>> BY <1>2, <2>3, NoBatchTyped
    <3>3. HasRead(watch[w], received[w], streams[Follows[w][1]], Follows[w][1], 0)
      BY <1>2, <2>1, <2>2, <3>1, <3>2 DEF HasRead
    <3>4. QED BY <3>3 DEF WatcherAt
  <2>4. \A w \in Watchers : Len(watch[w].batch) = Len(Follows[w]) BY <1>2, NoBatchTyped
  <2>5. QED BY <2>1, <2>3, <2>4 DEF WatchIInv, Increasing
<1>6. QED BY <1>3, <1>4, <1>5 DEF FabricIInv

-----------------------------------------------------------------------------
(* The graph                                                               *)

LEMMA ViewTyped ==
    ASSUME FabricTypeOK, GraphIInv, NEW p \in Producers
    PROVE  View(p) \in Graph
BY StoresAssumption DEF FabricTypeOK, GraphIInv, View, Rows

LEMMA GrowsIndexed ==
    ASSUME NEW g \in Graph, NEW h \in Graph, Grows(g, h), NEW e \in Event, Indexed(g, e)
    PROVE  Indexed(h, e)
BY DEF Grows, Indexed, Event

LEMMA GrowsSame == ASSUME NEW g PROVE Grows(g, g)
BY DEF Grows

\* A write to the graph takes nothing from what any process sees.
LEMMA SaveGrows ==
    ASSUME FabricTypeOK, GraphIInv, NEW p \in Producers, NEW h \in Graph,
           Grows(View(p), h), Save(p, h), store' = store
    PROVE  /\ graph' \in Graph \union {Garbled} /\ graphCopy' \in [Producers -> Graph]
           /\ store = "sqlite" => graph' = h /\ \A q \in Producers : View(q) = graph /\ View(q)' = h
           /\ View(p)' = h
           /\ \A q \in Producers : Grows(View(q), View(q)')
<1>1. CASE store = "json"
  <2>1. graph' \in {h, Garbled} /\ graphCopy' = [graphCopy EXCEPT ![p] = h]
    BY <1>1 DEF Save, SaveWhole
  <2>2. graphCopy \in [Producers -> Graph] BY DEF FabricTypeOK
  <2>3. \A q \in Producers : View(q) = graphCopy[q] /\ View(q)' = graphCopy'[q]
    BY <1>1 DEF View
  <2>4. \A q \in Producers : Grows(View(q), View(q)') BY <2>1, <2>2, <2>3, GrowsSame
  <2>5. QED BY <1>1, <2>1, <2>2, <2>3, <2>4
<1>2. CASE store # "json"
  <2>1. graph' = h /\ graphCopy' = graphCopy
    BY <1>2 DEF Save, SaveRow
  <2>2. graphCopy \in [Producers -> Graph] BY DEF FabricTypeOK
  <2>3. \A q \in Producers : View(q) = graph /\ View(q)' = h
    BY <1>2, <2>1 DEF View, Rows
  <2>4. QED BY <2>1, <2>2, <2>3
<1>3. QED BY <1>1, <1>2

\* When the views only grow, what was written stays written.
LEMMA ViewsGrow ==
    ASSUME FabricTypeOK, GraphIInv, UNCHANGED <<store, returned, started>>,
           \A q \in Producers : View(q)' \in Graph /\ Grows(View(q), View(q)')
    PROVE  /\ PublishedStays'
           /\ \A q \in Producers : publishing'[q] = publishing[q] => StageWritten(q)'
<1>1. \A q \in Producers : View(q) \in Graph BY ViewTyped
<1>2. ASSUME NEW q \in Producers, NEW e \in Lasting(q)' PROVE Indexed(View(q)', e)
  <2>1a. e \in Lasting(q) /\ e \in returned[q] BY <1>2 DEF Lasting
  <2>1. e \in Event /\ Indexed(View(q), e) BY <2>1a DEF FabricTypeOK, GraphIInv, PublishedStays
  <2>2. QED BY <1>1, <2>1, GrowsIndexed
<1>3. ASSUME NEW q \in Producers, publishing'[q] = publishing[q] PROVE StageWritten(q)'
  <2>1. StageWritten(q) BY DEF GraphIInv
  <2>2. publishing[q] \in Publishing BY DEF FabricTypeOK
  <2>3. CASE publishing[q].pc = "idle"
    BY <1>3, <2>3 DEF StageWritten
  <2>4. CASE publishing[q].pc # "idle"
    <3>1. publishing[q].event \in Event BY <2>2, <2>4 DEF Publishing
    <3>2. publishing[q].event.content # NoRef => publishing[q].event.content \in Contents
      BY <3>1 DEF Event
    <3>3. QED BY <1>3, <2>1, <3>2 DEF StageWritten, Grows
  <2>5. QED BY <2>3, <2>4
<1>4. QED BY <1>2, <1>3 DEF PublishedStays

LEMMA StartKept ==
    ASSUME FabricIInv, NEW p \in Producers, NEW r \in Projects, NEW refs \in SUBSET Contents,
           NEW c \in Contents \union {NoRef}, NEW pc \in {"memory", "event"},
           pc = "memory" <=> c # NoRef,
           StartWith(p, pc, r, refs, c)
    PROVE  FabricIInv'
<1> DEFINE e == [n |-> calls + 1, by |-> p, project |-> r, refs |-> refs, content |-> c]
<1>1. calls \in 0..MaxPublishes /\ calls < MaxPublishes /\ calls' = calls + 1
  BY DEF FabricIInv, FabricTypeOK, StartWith
<1>2. e \in Event BY <1>1, FabricBounds DEF Event
<1>3. publishing' = [publishing EXCEPT ![p] = [pc |-> pc, event |-> e]]
  BY DEF StartWith
<1>4. UNCHANGED <<store, graph, graphCopy, streams, returned, started, watch, received, drops,
                  crashes>>
  BY DEF StartWith
<1>4a. e.content = c /\ e.n = calls + 1 OBVIOUS
<1> HIDE DEF e
<1>5. [pc |-> pc, event |-> e] \in Publishing BY <1>2 DEF Publishing
<1>6. publishing' \in [Producers -> Publishing]
  BY <1>3, <1>5 DEF FabricIInv, FabricTypeOK
<1>7. FabricTypeOK' BY <1>1, <1>4, <1>6, FabricBounds DEF FabricIInv, FabricTypeOK
<1>8. \A q \in Producers : View(q)' = View(q) BY <1>4 DEF View, Rows
<1>8a. \A q \in Producers : q # p => publishing'[q] = publishing[q]
  BY <1>3 DEF FabricIInv, FabricTypeOK
<1>8b. publishing'[p].pc = pc /\ publishing'[p].event = e
  BY <1>3 DEF FabricIInv, FabricTypeOK
<1>9. ASSUME NEW q \in Producers PROVE StageWritten(q)'
  <2>1. CASE q # p
    <3>1. StageWritten(q) BY DEF FabricIInv, GraphIInv
    <3>2. QED BY <1>8, <1>8a, <2>1, <3>1 DEF StageWritten
  <2>2. CASE q = p
    BY <1>4a, <1>8, <1>8b, <2>2 DEF StageWritten
  <2>3. QED BY <2>1, <2>2
<1>9a. Numbered'
  <2> SUFFICES ASSUME NEW q \in Producers
               PROVE  /\ \A f \in returned[q] : f.n <= calls'
                      /\ publishing'[q].pc # "idle" => publishing'[q].event.n <= calls'
    BY <1>4 DEF Numbered
  <2>1. /\ \A f \in returned[q] : f \in Event /\ f.n <= calls
        /\ publishing[q].pc # "idle" => publishing[q].event.n <= calls
        /\ publishing[q].pc # "idle" => publishing[q].event \in Event
    BY DEF FabricIInv, FabricTypeOK, GraphIInv, Numbered, Publishing
  <2>2. \A f \in Event : f.n \in Int BY DEF Event
  <2>3. \A f \in returned[q] : f.n <= calls' BY <1>1, <2>1, <2>2
  <2>4. CASE q = p BY <1>1, <1>4a, <1>8b, <2>3, <2>4
  <2>5. CASE q # p
    <3>1. publishing'[q] = publishing[q] BY <1>8a, <2>5
    <3>2. publishing[q].pc # "idle" => publishing[q].event.n <= calls' BY <1>1, <2>1, <2>2
    <3>3. QED BY <2>3, <3>1, <3>2
  <2>6. QED BY <2>4, <2>5
<1>10. GraphIInv'
  <2>1. \A q \in Producers : Lasting(q)' = Lasting(q) BY <1>4 DEF Lasting
  <2>2. PublishedStays' BY <1>8, <2>1 DEF FabricIInv, GraphIInv, PublishedStays
  <2>3. NotifiedIsIndexed' BY <1>4 DEF FabricIInv, GraphIInv, NotifiedIsIndexed
  <2>4. QED BY <1>4, <1>9, <1>9a, <2>2, <2>3 DEF FabricIInv, GraphIInv
<1>11. WatchIInv' BY <1>4 DEF FabricIInv, WatchIInv, WatcherAt
<1>12. QED BY <1>7, <1>10, <1>11 DEF FabricIInv

LEMMA GraphWritten ==
    ASSUME FabricTypeOK, GraphIInv, NEW p \in Producers,
           NEW mems \in [Contents -> Projects \union {Absent}], NEW evs \in SUBSET Event,
           NEW eds \in SUBSET ((1..MaxPublishes) \X Contents)
    PROVE  /\ View(p).memories \in [Contents -> Projects \union {Absent}]
           /\ View(p).events \in SUBSET Event
           /\ View(p).edges \in SUBSET ((1..MaxPublishes) \X Contents)
           /\ [View(p) EXCEPT !.memories = mems] \in Graph
           /\ [View(p) EXCEPT !.events = evs] \in Graph
           /\ [View(p) EXCEPT !.edges = eds] \in Graph
<1>1. View(p) \in Graph BY ViewTyped
<1>2. QED BY <1>1 DEF Graph

\* A publisher that has made a write and goes on to the next stage.
LEMMA StageKept ==
    ASSUME FabricIInv, NEW p \in Producers, NEW h \in Graph, Grows(View(p), h),
           NEW pc \in {"event", "edge", "notify"}, ~Publishes(p, "idle"),
           Save(p, h), Advance(p, pc),
           UNCHANGED <<store, streams, returned, started, watch, received, calls, drops,
                       crashes>>,
           Published(p).content # NoRef => h.memories[Published(p).content] # Absent,
           pc \in {"edge", "notify"} => Published(p) \in h.events,
           pc = "notify" =>
              \A c \in Published(p).refs : <<Published(p).n, c>> \in h.edges,
           \A d \in h.edges :
              \/ d \in View(p).edges
              \/ \E e \in h.events : /\ e.n = d[1] /\ d[2] \in e.refs
                                     /\ e.content = d[2] => h.memories[d[2]] # Absent
    PROVE  FabricIInv'
<1> USE DEF FabricIInv
<1>1. publishing[p] \in Publishing /\ publishing[p].pc # "idle"
  BY DEF FabricTypeOK, Publishes
<1>2. publishing[p].event \in Event BY <1>1 DEF Publishing
<1>3. publishing' = [publishing EXCEPT ![p].pc = pc] BY DEF Advance
<1>4. publishing'[p] = [pc |-> pc, event |-> publishing[p].event]
  <2>1. publishing[p] \in [pc: {"memory", "event", "edge", "notify"}, event: Event]
    BY <1>1 DEF Publishing
  <2>2. publishing'[p] = [publishing[p] EXCEPT !.pc = pc] BY <1>3 DEF FabricTypeOK
  <2>3. QED BY <2>1, <2>2
<1>5. publishing' \in [Producers -> Publishing]
  <2>1. publishing'[p] \in Publishing BY <1>2, <1>4 DEF Publishing
  <2>2. DOMAIN publishing' = Producers /\ \A q \in Producers : publishing'[q] \in Publishing
    BY <1>3, <2>1 DEF FabricTypeOK
  <2>3. publishing' = [q \in Producers |-> publishing'[q]] BY <1>3 DEF FabricTypeOK
  <2>4. QED BY <2>2, <2>3
<1>6. /\ graph' \in Graph \union {Garbled} /\ graphCopy' \in [Producers -> Graph]
      /\ store = "sqlite" => graph' = h /\ \A q \in Producers : View(q) = graph /\ View(q)' = h
      /\ View(p)' = h
      /\ \A q \in Producers : Grows(View(q), View(q)')
  BY SaveGrows
<1>7. FabricTypeOK' BY <1>5, <1>6 DEF FabricTypeOK
<1>8. \A q \in Producers : View(q)' \in Graph
  <2>1. store = "json" \/ store = "sqlite" BY StoresAssumption DEF FabricTypeOK
  <2>2. CASE store = "sqlite" BY <1>6, <2>2
  <2>3. CASE store = "json" BY <1>6, <2>3 DEF View
  <2>4. QED BY <2>1, <2>2, <2>3
<1>9. /\ PublishedStays'
      /\ \A q \in Producers : publishing'[q] = publishing[q] => StageWritten(q)'
  BY <1>6, <1>8, ViewsGrow
<1>10. ASSUME NEW q \in Producers PROVE StageWritten(q)'
  <2>1. CASE q # p
    <3>1. publishing'[q] = publishing[q] BY <1>3, <2>1 DEF FabricTypeOK
    <3>2. QED BY <1>9, <3>1
  <2>2. CASE q = p
    <3>1. publishing'[p].pc = pc /\ publishing'[p].event = Published(p)
      BY <1>4 DEF Published
    <3>2. QED BY <1>6, <2>2, <3>1 DEF StageWritten
  <2>3. QED BY <2>1, <2>2
<1>11. NotifiedIsIndexed'
  <2> SUFFICES ASSUME store = "sqlite"
               PROVE  /\ \A r \in Projects : \A k \in DOMAIN streams[r] :
                            Indexed(h, streams[r][k].event)
                      /\ \A d \in h.edges : \E e \in h.events :
                            /\ e.n = d[1] /\ d[2] \in e.refs
                            /\ e.content = d[2] => h.memories[d[2]] # Absent
    BY <1>6 DEF NotifiedIsIndexed
  <2>1. graph' = h /\ View(p) = graph /\ graph \in Graph /\ Grows(graph, h)
    BY <1>6 DEF GraphIInv
  <2>2. ASSUME NEW r \in Projects, NEW k \in DOMAIN streams[r]
        PROVE  Indexed(h, streams[r][k].event)
    <3>1. streams[r] \in Seq(Entry) BY DEF FabricTypeOK
    <3>2. streams[r][k] \in Entry BY <3>1
    <3>3. streams[r][k].event \in Event BY <3>2 DEF Entry
    <3>4. Indexed(graph, streams[r][k].event) BY DEF GraphIInv, NotifiedIsIndexed
    <3>5. QED BY <2>1, <3>3, <3>4, GrowsIndexed
  <2>3. ASSUME NEW d \in h.edges
        PROVE  \E e \in h.events : /\ e.n = d[1] /\ d[2] \in e.refs
                                   /\ e.content = d[2] => h.memories[d[2]] # Absent
    <3>1. CASE d \in graph.edges
      <4>1. PICK e \in graph.events :
               /\ e.n = d[1] /\ d[2] \in e.refs
               /\ e.content = d[2] => graph.memories[d[2]] # Absent
        BY <3>1 DEF GraphIInv, NotifiedIsIndexed
      <4>2. d[2] \in Contents BY <2>1, <3>1 DEF Graph
      <4>3. QED BY <2>1, <4>1, <4>2 DEF Grows
    <3>2. CASE d \notin graph.edges
      BY <2>1, <3>2
    <3>3. QED BY <3>1, <3>2
  <2>4. QED BY <2>2, <2>3
<1>12. GraphIInv'
  <2>1. store = "sqlite" => graph' \in Graph BY <1>6
  <2>2. Numbered'
    <3>1. \A q \in Producers : q # p => publishing'[q] = publishing[q]
      BY <1>3 DEF FabricTypeOK
    <3>2. publishing'[p].event = publishing[p].event BY <1>4
    <3>3. QED BY <1>1, <3>1, <3>2 DEF GraphIInv, Numbered
  <2>3. QED BY <1>9, <1>10, <1>11, <2>1, <2>2 DEF GraphIInv
<1>13. WatchIInv' BY DEF WatchIInv, WatcherAt
<1>14. QED BY <1>7, <1>12, <1>13

LEMMA WriteMemoryKept ==
    ASSUME FabricIInv, NEW p \in Producers, WriteMemory(p)
    PROVE  FabricIInv'
<1> DEFINE e == Published(p)
           h == [View(p) EXCEPT !.memories[e.content] = e.project]
<1>1. publishing[p] \in Publishing /\ publishing[p].pc = "memory" /\ StageWritten(p)
  BY DEF FabricIInv, FabricTypeOK, GraphIInv, WriteMemory, Publishes
<1>2. e \in Event BY <1>1 DEF Publishing, Published
<1>3. e.content \in Contents /\ e.project \in Projects
  BY <1>1, <1>2 DEF Event, StageWritten, Published
<1>4. View(p) \in Graph BY ViewTyped DEF FabricIInv
<1>5. h \in Graph /\ h.events = View(p).events /\ h.edges = View(p).edges
      /\ h.memories = [View(p).memories EXCEPT ![e.content] = e.project]
  BY <1>3, <1>4 DEF Graph
<1>6. e.project # Absent BY <1>3, RefAssumption
<1>6a. DOMAIN View(p).memories = Contents BY <1>4 DEF Graph
<1>7. Grows(View(p), h) /\ h.memories[e.content] # Absent
  BY <1>3, <1>5, <1>6, <1>6a DEF Grows
<1>8. /\ Save(p, h) /\ Advance(p, "event") /\ ~Publishes(p, "idle")
      /\ UNCHANGED <<store, streams, returned, started, watch, received, calls, drops,
                     crashes>>
  BY DEF WriteMemory, Publishes
<1> HIDE DEF h
<1>9. QED BY <1>5, <1>7, <1>8, StageKept

LEMMA WriteEventKept ==
    ASSUME FabricIInv, NEW p \in Producers, WriteEvent(p)
    PROVE  FabricIInv'
<1> DEFINE e == Published(p)
           h == [View(p) EXCEPT !.events = @ \union {e}]
           pc == IF e.refs = {} THEN "notify" ELSE "edge"
<1>1. publishing[p] \in Publishing /\ publishing[p].pc = "event" /\ StageWritten(p)
  BY DEF FabricIInv, FabricTypeOK, GraphIInv, WriteEvent, Publishes
<1>2. e \in Event BY <1>1 DEF Publishing, Published
<1>4. View(p) \in Graph BY ViewTyped DEF FabricIInv
<1>5. h \in Graph /\ h.memories = View(p).memories /\ h.edges = View(p).edges
      /\ h.events = View(p).events \union {e}
  BY <1>2, <1>4 DEF Graph
<1>6. e.content # NoRef => View(p).memories[e.content] # Absent
  BY <1>1 DEF StageWritten, Published
<1>7. Grows(View(p), h) /\ e \in h.events
  BY <1>5 DEF Grows
<1>8. /\ Save(p, h) /\ Advance(p, pc) /\ ~Publishes(p, "idle")
      /\ UNCHANGED <<store, streams, returned, started, watch, received, calls, drops,
                     crashes>>
  BY DEF WriteEvent, Publishes
<1>9. pc \in {"event", "edge", "notify"} /\ (pc = "notify" => e.refs = {})
  OBVIOUS
<1> HIDE DEF h, pc
<1>10. QED BY <1>5, <1>6, <1>7, <1>8, <1>9, StageKept

LEMMA WriteEdgeKept ==
    ASSUME FabricIInv, NEW p \in Producers, WriteEdge(p)
    PROVE  FabricIInv'
<1> DEFINE e == Published(p)
<1>0. PICK c \in Unlinked(p) :
         /\ Save(p, [View(p) EXCEPT !.edges = @ \union {<<e.n, c>>}])
         /\ Advance(p, IF Unlinked(p) = {c} THEN "notify" ELSE "edge")
  BY DEF WriteEdge
<1> DEFINE h == [View(p) EXCEPT !.edges = @ \union {<<e.n, c>>}]
           pc == IF Unlinked(p) = {c} THEN "notify" ELSE "edge"
<1>1. publishing[p] \in Publishing /\ publishing[p].pc = "edge" /\ StageWritten(p)
  BY DEF FabricIInv, FabricTypeOK, GraphIInv, WriteEdge, Publishes
<1>2. e \in Event BY <1>1 DEF Publishing, Published
<1>3. e.refs \in SUBSET Contents /\ e.n \in 1..MaxPublishes /\ c \in e.refs
  BY <1>2 DEF Event, Unlinked
<1>4. View(p) \in Graph BY ViewTyped DEF FabricIInv
<1>5. h \in Graph /\ h.memories = View(p).memories /\ h.events = View(p).events
      /\ h.edges = View(p).edges \union {<<e.n, c>>}
  BY <1>3, <1>4 DEF Graph
<1>6. /\ e.content # NoRef => View(p).memories[e.content] # Absent
      /\ e \in View(p).events
  BY <1>1 DEF StageWritten, Published
<1>6a. e.content = c => View(p).memories[c] # Absent
  <2>1. c # NoRef BY <1>3, RefAssumption
  <2>2. QED BY <1>6, <2>1
<1>7. Grows(View(p), h) BY <1>5 DEF Grows
<1>8. /\ Save(p, h) /\ Advance(p, pc) /\ ~Publishes(p, "idle")
      /\ UNCHANGED <<store, streams, returned, started, watch, received, calls, drops,
                     crashes>>
  BY <1>0 DEF WriteEdge, Publishes
<1>9. ASSUME NEW d \in h.edges, d \notin View(p).edges
      PROVE  \E f \in h.events : /\ f.n = d[1] /\ d[2] \in f.refs
                                 /\ f.content = d[2] => h.memories[d[2]] # Absent
  <2>1. d = <<e.n, c>> BY <1>5, <1>9
  <2>2. d[1] = e.n /\ d[2] = c BY <2>1
  <2>3. QED BY <1>3, <1>5, <1>6, <1>6a, <2>2
<1>10. ASSUME pc = "notify", NEW b \in e.refs PROVE <<e.n, b>> \in h.edges
  <2>1. Unlinked(p) = {c} BY <1>10
  <2>2. b = c \/ <<e.n, b>> \in View(p).edges BY <2>1 DEF Unlinked
  <2>3. QED BY <1>5, <2>2
<1>11. pc \in {"event", "edge", "notify"} OBVIOUS
<1> HIDE DEF h, pc
<1>12. QED BY <1>5, <1>6, <1>7, <1>8, <1>9, <1>10, <1>11, StageKept

-----------------------------------------------------------------------------
(* The end of a call, and the death of a process                           *)

LEMMA LastIdTyped ==
    ASSUME FabricTypeOK, NEW q \in Projects
    PROVE  LastId(streams[q]) \in Nat
<1>1. streams[q] \in Seq(Entry) BY DEF FabricTypeOK
<1>2. CASE streams[q] = <<>> BY <1>2 DEF LastId
<1>3. CASE streams[q] # <<>>
  <2>1. streams[q][Len(streams[q])] \in Entry BY <1>1, <1>3
  <2>2. QED BY <1>3, <2>1 DEF LastId, Entry
<1>4. QED BY <1>2, <1>3

LEMMA NewIdTyped ==
    ASSUME FabricTypeOK, NEW r \in Projects, NEW n \in NewIds(r)
    PROVE  n \in Nat /\ n > LastId(streams[r])
<1>1. PICK q \in Projects, d \in 0..1 : n = LastId(streams[q]) + d BY DEF NewIds
<1>2. QED BY <1>1, LastIdTyped DEF NewIds

LEMMA ReturnKept ==
    ASSUME FabricIInv, NEW p \in Producers, Publishes(p, "notify"), Return(p)
    PROVE  /\ store' = store /\ graph' = graph /\ graphCopy' = graphCopy
           /\ publishing' \in [Producers -> Publishing]
           /\ returned' \in [Producers -> SUBSET Event]
           /\ UNCHANGED <<started, watch, received, calls, drops, crashes>>
           /\ Published(p) \in Event
           /\ Indexed(View(p), Published(p))
           /\ PublishedStays' /\ Numbered'
           /\ \A q \in Producers : StageWritten(q)'
<1> USE DEF FabricIInv
<1>1. publishing[p] \in Publishing /\ publishing[p].pc = "notify" /\ StageWritten(p)
  BY DEF FabricTypeOK, GraphIInv, Publishes
<1>2. Published(p) \in Event BY <1>1 DEF Publishing, Published
<1>3. Indexed(View(p), Published(p)) BY <1>1 DEF StageWritten, Indexed, Published
<1>4. /\ returned' = [returned EXCEPT ![p] = @ \union {Published(p)}]
      /\ publishing' = [publishing EXCEPT ![p] = Idle]
      /\ UNCHANGED <<store, graph, graphCopy, started, watch, received, calls, drops, crashes>>
  BY DEF Return
<1>5. \A q \in Producers : View(q)' = View(q) BY <1>4 DEF View, Rows
<1>6. publishing' \in [Producers -> Publishing]
  BY <1>4 DEF FabricTypeOK, Idle, Publishing
<1>7. returned' \in [Producers -> SUBSET Event]
  BY <1>2, <1>4 DEF FabricTypeOK
<1>8. PublishedStays'
  <2> SUFFICES ASSUME NEW q \in Producers, NEW e \in Lasting(q)' PROVE Indexed(View(q)', e)
    BY DEF PublishedStays
  <2>1. e \in Lasting(q) \/ (q = p /\ e = Published(p)) BY <1>4 DEF FabricTypeOK, Lasting
  <2>2. QED BY <1>3, <1>5, <2>1 DEF GraphIInv, PublishedStays
<1>9. ASSUME NEW q \in Producers PROVE StageWritten(q)'
  <2>1. CASE q # p
    <3>1. publishing'[q] = publishing[q] BY <1>4, <2>1 DEF FabricTypeOK
    <3>2. QED BY <1>5, <3>1 DEF GraphIInv, StageWritten
  <2>2. CASE q = p
    <3>1. publishing'[q].pc = "idle" BY <1>4, <2>2 DEF FabricTypeOK, Idle
    <3>2. QED BY <3>1 DEF StageWritten
  <2>3. QED BY <2>1, <2>2
<1>9a. Numbered'
  <2>1. ASSUME NEW q \in Producers, NEW e \in returned'[q] PROVE e.n <= calls'
    <3>1. e \in returned[q] \/ e = Published(p) BY <1>4, <2>1 DEF FabricTypeOK
    <3>2. QED BY <1>1, <1>4, <3>1 DEF GraphIInv, Numbered, Published
  <2>2. ASSUME NEW q \in Producers, publishing'[q].pc # "idle"
        PROVE  publishing'[q].event.n <= calls'
    <3>1. q # p BY <1>4, <2>2 DEF FabricTypeOK, Idle
    <3>2. publishing'[q] = publishing[q] BY <1>4, <3>1 DEF FabricTypeOK
    <3>3. QED BY <1>4, <2>2, <3>2 DEF GraphIInv, Numbered
  <2>3. QED BY <2>1, <2>2 DEF Numbered
<1>10. QED BY <1>9a, <1>2, <1>3, <1>4, <1>6, <1>7, <1>8, <1>9

LEMMA AppendIncreases ==
    ASSUME NEW s \in Seq(Entry), Increasing(s), NEW x \in Entry, x.id > LastId(s)
    PROVE  Append(s, x) \in Seq(Entry) /\ Increasing(Append(s, x))
<1> DEFINE t == Append(s, x)
<1>1. t \in Seq(Entry) /\ Len(t) = Len(s) + 1 /\ t[Len(s) + 1] = x
      /\ \A k \in 1..Len(s) : t[k] = s[k]
  OBVIOUS
<1>2. DOMAIN s = 1..Len(s) /\ DOMAIN t = 1..(Len(s) + 1) /\ Len(s) \in Nat BY <1>1
<1>3. \A k \in 1..Len(s) : s[k] \in Entry OBVIOUS
<1>4. \A k \in 1..Len(s) : s[k].id \in Nat BY <1>3 DEF Entry
<1>5. x.id \in Nat BY DEF Entry
<1>2a. Len(s) \in Nat OBVIOUS
<1>6. ASSUME NEW k \in 1..Len(s) PROVE s[k].id < x.id
  <2>1. s # <<>> /\ Len(s) \in 1..Len(s) OBVIOUS
  <2>2. LastId(s) = s[Len(s)].id BY <2>1 DEF LastId
  <2>3. k = Len(s) \/ k < Len(s) BY <1>2a
  <2>4a. k < Len(s) => s[k].id < s[Len(s)].id BY <1>2, <2>1 DEF Increasing
  <2>4b. s[k].id \in Nat /\ s[Len(s)].id \in Nat BY <1>4, <2>1
  <2>4. s[k].id <= s[Len(s)].id BY <2>3, <2>4a, <2>4b
  <2>5. QED BY <1>4, <1>5, <2>1, <2>2, <2>4
<1>7. x.id > 0
  <2>1. CASE s = <<>> BY <2>1 DEF LastId
  <2>2. CASE s # <<>>
    <3>1. 1 \in 1..Len(s) BY <2>2
    <3>2. QED BY <1>4, <1>5, <1>6, <3>1
  <2>3. QED BY <2>1, <2>2
<1> HIDE DEF t
<1>8. \A k \in DOMAIN t : t[k].id > 0 BY <1>1, <1>2, <1>7 DEF Increasing
<1>9. ASSUME NEW j \in DOMAIN t, NEW k \in DOMAIN t, j < k PROVE t[j].id < t[k].id
  <2>1. j \in 1..Len(s) BY <1>2, <1>9
  <2>2. k \in 1..Len(s) \/ k = Len(s) + 1 BY <1>2
  <2>3. QED BY <1>1, <1>2, <1>6, <1>9, <2>1, <2>2 DEF Increasing
<1>10. QED BY <1>1, <1>8, <1>9 DEF Increasing, t

\* What is added to a stream comes after all that a watcher has of it.
LEMMA AppendWatched ==
    ASSUME NEW s \in Seq(Entry), NEW x \in Entry, NEW c, NEW got \in Seq(Entry), NEW r,
           NEW d \in Nat, c.batch[1] \in Seq(Entry), HasRead(c, got, s, r, d)
    PROVE  HasRead(c, got, Append(s, x), r, d)
<1> DEFINE t == Append(s, x)
           n == Len(got)
           m == Len(c.batch[1])
<1>1. Len(t) = Len(s) + 1 /\ (\A k \in 1..Len(s) : t[k] = s[k]) OBVIOUS
<1>2. n \in Nat /\ m \in Nat /\ Len(s) \in Nat OBVIOUS
<1>3. /\ d + n + m <= Len(s)
      /\ \A k \in 1..n : got[k] = s[d + k]
      /\ \A k \in 1..m : c.batch[1][k] = s[d + n + k]
      /\ c.since = 0 => d = 0
      /\ c.last = IF n = 0 THEN c.since ELSE s[d + n].id
      /\ c.open => c.cursor[r] = c.last
  BY DEF HasRead
<1>3a. c.waits => /\ c.open /\ c.batch[1] = <<>>
                  /\ \E l \in 0..Len(s) : /\ c.from[r] = IdAt(s, l)
                                          /\ c.last # Newest => l = d + n
  BY DEF HasRead
<1> HIDE DEF t, n, m
<1>4. \A k \in 1..n : d + k \in 1..Len(s) BY <1>2, <1>3
<1>5. \A k \in 1..m : d + n + k \in 1..Len(s) BY <1>2, <1>3
<1>6. n # 0 => d + n \in 1..Len(s) BY <1>2, <1>3
<1>7. d + n + m <= Len(t) BY <1>1, <1>2, <1>3
<1>8. \A k \in 1..n : got[k] = t[d + k] BY <1>1, <1>3, <1>4
<1>9. \A k \in 1..m : c.batch[1][k] = t[d + n + k] BY <1>1, <1>3, <1>5
<1>10. c.last = IF n = 0 THEN c.since ELSE t[d + n].id BY <1>1, <1>3, <1>6
<1>10a. ASSUME c.waits
        PROVE  \E l \in 0..Len(t) : /\ c.from[r] = IdAt(t, l)
                                    /\ c.last # Newest => l = d + n
  <2>1. PICK l \in 0..Len(s) : c.from[r] = IdAt(s, l) /\ (c.last # Newest => l = d + n)
    BY <1>3a, <1>10a
  <2>2. l \in 0..Len(t) /\ (l # 0 => l \in 1..Len(s)) BY <1>1, <1>2
  <2>3. IdAt(t, l) = IdAt(s, l) BY <1>1, <2>2 DEF IdAt
  <2>4. QED BY <2>1, <2>2, <2>3
<1>11. HasRead(c, got, t, r, d)
  BY <1>3, <1>3a, <1>7, <1>8, <1>9, <1>10, <1>10a DEF HasRead, n, m
<1>12. QED BY <1>11 DEF t

\* A watcher has received no more than there is.
LEMMA WatcherBehind ==
    ASSUME NEW s \in Seq(Entry), NEW c, NEW got \in Seq(Entry), NEW r, NEW d \in Nat,
           c.batch[1] \in Seq(Entry), HasRead(c, got, s, r, d)
    PROVE  Len(got) \in Nat /\ d + Len(got) \in 0..Len(s)
<1> DEFINE n == Len(got)
           m == Len(c.batch[1])
<1>1. d + n + m <= Len(s) BY DEF HasRead
<1>2. n \in Nat /\ m \in Nat /\ Len(s) \in Nat OBVIOUS
<1> HIDE DEF n, m
<1>3. d + n \in 0..Len(s) BY <1>1, <1>2
<1>4. QED BY <1>2, <1>3 DEF n

LEMMA WatcherTyped ==
    ASSUME FabricTypeOK, WatchIInv, NEW w \in Watchers
    PROVE  /\ watch[w] \in Connection
           /\ received[w] \in Seq(Entry)
           /\ DOMAIN watch[w].batch = 1..Len(Follows[w])
           /\ \A k \in 1..Len(Follows[w]) : watch[w].batch[k] \in Seq(Entry)
<1>1. watch[w] \in Connection /\ received[w] \in Seq(Entry) BY DEF FabricTypeOK
<1>2. watch[w].batch \in Seq(Seq(Entry)) BY <1>1 DEF Connection
<1>3. Len(watch[w].batch) = Len(Follows[w]) BY DEF WatchIInv
<1>4. QED BY <1>1, <1>2, <1>3

LEMMA NotifyKept ==
    ASSUME FabricIInv, NEW p \in Producers, Notify(p)
    PROVE  FabricIInv'
<1> USE DEF FabricIInv
<1> DEFINE r == Published(p).project
<1>1. Publishes(p, "notify") /\ Return(p) BY DEF Notify
<1>2. /\ store' = store /\ graph' = graph /\ graphCopy' = graphCopy
      /\ publishing' \in [Producers -> Publishing]
      /\ returned' \in [Producers -> SUBSET Event]
      /\ UNCHANGED <<started, watch, received, calls, drops, crashes>>
      /\ Published(p) \in Event
      /\ Indexed(View(p), Published(p))
      /\ PublishedStays' /\ Numbered'
      /\ \A q \in Producers : StageWritten(q)'
  BY <1>1, ReturnKept
<1>3. r \in Projects BY <1>2 DEF Event
<1>4. PICK n \in NewIds(r) :
         streams' = [streams EXCEPT ![r] = Append(@, [id |-> n, event |-> Published(p)])]
  BY DEF Notify
<1> DEFINE x == [id |-> n, event |-> Published(p)]
<1> HIDE DEF r
<1>5. n \in Nat /\ n > LastId(streams[r]) BY <1>3, NewIdTyped
<1>6. x \in Entry /\ x.id > LastId(streams[r]) /\ x.event = Published(p)
  BY <1>2, <1>5 DEF Entry
<1> HIDE DEF x
<1>7. streams[r] \in Seq(Entry) /\ Increasing(streams[r])
  BY <1>3 DEF FabricTypeOK, WatchIInv
<1>8. streams' = [streams EXCEPT ![r] = Append(@, x)] BY <1>4 DEF x
<1>9. streams'[r] = Append(streams[r], x) /\ \A q \in Projects : q # r => streams'[q] = streams[q]
  BY <1>3, <1>8 DEF FabricTypeOK
<1>10. Append(streams[r], x) \in Seq(Entry) /\ Increasing(Append(streams[r], x))
  BY <1>6, <1>7, AppendIncreases
<1>11. streams' \in [Projects -> Seq(Entry)]
  BY <1>8, <1>10 DEF FabricTypeOK
<1>12. FabricTypeOK' BY <1>2, <1>11 DEF FabricTypeOK
<1>13. NotifiedIsIndexed'
  <2> SUFFICES ASSUME store = "sqlite", NEW q \in Projects, NEW k \in DOMAIN streams'[q]
               PROVE  Indexed(graph, streams'[q][k].event)
    BY <1>2 DEF NotifiedIsIndexed, GraphIInv
  <2>1. CASE q = r /\ k = Len(streams[r]) + 1
    <3>1. streams'[q][k] = x BY <1>6, <1>7, <1>9, <2>1
    <3>2. View(p) = graph BY DEF View, Rows
    <3>3. QED BY <1>2, <1>6, <3>1, <3>2
  <2>2. CASE ~(q = r /\ k = Len(streams[r]) + 1)
    <3>1. k \in DOMAIN streams[q] /\ streams'[q][k] = streams[q][k]
      BY <1>6, <1>7, <1>9, <2>2
    <3>2. QED BY <3>1 DEF NotifiedIsIndexed, GraphIInv
  <2>3. QED BY <2>1, <2>2
<1>14. GraphIInv' BY <1>2, <1>13 DEF GraphIInv
<1>15. ASSUME NEW w \in Watchers, Len(Follows[w]) = 1
       PROVE  WatcherAt(w)'
  <2>1. Follows[w][1] \in Projects BY <1>15, FollowsTyped
  <2> DEFINE q == Follows[w][1]
  <2>2. PICK d \in Nat : HasRead(watch[w], received[w], streams[q], q, d)
    BY <1>15 DEF WatchIInv, WatcherAt
  <2>3. received[w] \in Seq(Entry) /\ watch[w].batch[1] \in Seq(Entry)
    BY <1>15, WatcherTyped
  <2> HIDE DEF q
  <2>4. HasRead(watch[w], received[w], streams'[q], q, d)
    <3>1. CASE q # r BY <1>9, <2>1, <2>2, <3>1 DEF q
    <3>2. CASE q = r
      <4>1. HasRead(watch[w], received[w], Append(streams[q], x), q, d)
        BY <1>6, <1>7, <2>2, <2>3, <3>2, AppendWatched
      <4>2. QED BY <1>9, <3>2, <4>1
    <3>3. QED BY <3>1, <3>2
  <2>5. QED BY <1>2, <2>4 DEF WatcherAt, q
<1>16. WatchIInv' BY <1>2, <1>9, <1>10, <1>15 DEF WatchIInv
<1>17. QED BY <1>12, <1>14, <1>16

LEMMA NotifyFailsKept ==
    ASSUME FabricIInv, NEW p \in Producers, NotifyFails(p)
    PROVE  FabricIInv'
<1> USE DEF FabricIInv
<1>1. Publishes(p, "notify") /\ Return(p) /\ streams' = streams BY DEF NotifyFails
<1>2. /\ store' = store /\ graph' = graph /\ graphCopy' = graphCopy
      /\ publishing' \in [Producers -> Publishing]
      /\ returned' \in [Producers -> SUBSET Event]
      /\ UNCHANGED <<started, watch, received, calls, drops, crashes>>
      /\ PublishedStays' /\ Numbered'
      /\ \A q \in Producers : StageWritten(q)'
  BY <1>1, ReturnKept
<1>3. FabricTypeOK' BY <1>1, <1>2 DEF FabricTypeOK
<1>4. GraphIInv' BY <1>1, <1>2 DEF GraphIInv, NotifiedIsIndexed
<1>5. WatchIInv' BY <1>1, <1>2 DEF WatchIInv, WatcherAt
<1>6. QED BY <1>3, <1>4, <1>5

LEMMA DieKept ==
    ASSUME FabricIInv, NEW p \in Producers, NEW g \in Graph \union {Garbled},
           NEW found \in Graph \union {Garbled}, DieWith(p, g, found),
           g = graph \/ store = "json"
    PROVE  FabricIInv'
<1> USE DEF FabricIInv
<1>1. /\ crashes \in 0..MaxCrashes /\ crashes < MaxCrashes /\ crashes' = crashes + 1
      /\ graph' = g
      /\ graphCopy' = [graphCopy EXCEPT ![p] = IF store = "json" THEN Load(found) ELSE @]
      /\ publishing' = [publishing EXCEPT ![p] = Idle]
      /\ started' = [started EXCEPT ![p] = calls]
      /\ UNCHANGED <<store, streams, returned, watch, received, calls, drops>>
  BY DEF DieWith, FabricTypeOK
<1>2. Load(found) \in Graph BY EmptyGraphTyped DEF Load
<1>3. graphCopy' \in [Producers -> Graph] BY <1>1, <1>2 DEF FabricTypeOK
<1>4. publishing' \in [Producers -> Publishing] BY <1>1 DEF FabricTypeOK, Idle, Publishing
<1>5. started' \in [Producers -> 0..MaxPublishes] BY <1>1 DEF FabricTypeOK
<1>6. crashes' \in 0..MaxCrashes BY <1>1, FabricBounds
<1>7. FabricTypeOK' BY <1>1, <1>3, <1>4, <1>5, <1>6 DEF FabricTypeOK
<1>8. ASSUME NEW q \in Producers, q # p \/ store # "json"
      PROVE  View(q)' = View(q) /\ Lasting(q)' = Lasting(q)
  <2>1. CASE store = "json"
    <3>1. q # p /\ graphCopy'[q] = graphCopy[q] /\ started'[q] = started[q]
      BY <1>1, <1>8, <2>1 DEF FabricTypeOK
    <3>2. QED BY <1>1, <2>1, <3>1 DEF View, Lasting
  <2>2. CASE store # "json"
    <3>1. store = "sqlite" /\ graph' = graph BY <1>1, <2>2, StoresAssumption DEF FabricTypeOK
    <3>2. QED BY <1>1, <2>2, <3>1 DEF View, Rows, Lasting
  <2>3. QED BY <2>1, <2>2
<1>9. PublishedStays'
  <2> SUFFICES ASSUME NEW q \in Producers, NEW e \in Lasting(q)' PROVE Indexed(View(q)', e)
    BY DEF PublishedStays
  <2>1. CASE q # p \/ store # "json"
    BY <1>8, <2>1 DEF GraphIInv, PublishedStays
  <2>2. CASE q = p /\ store = "json"
    <3>1. started'[p] = calls /\ e \in returned[p] /\ e.n > started'[p]
      BY <1>1, <2>2 DEF FabricTypeOK, Lasting
    <3>2. e \in Event /\ e.n <= calls BY <3>1 DEF FabricTypeOK, GraphIInv, Numbered
    <3>3. e.n \in Int /\ calls \in Int BY <3>2 DEF FabricTypeOK, Event
    <3>4. QED BY <3>1, <3>2, <3>3
  <2>3. QED BY <2>1, <2>2
<1>10. ASSUME NEW q \in Producers PROVE StageWritten(q)'
  <2>1. CASE q # p
    <3>1. publishing'[q] = publishing[q] BY <1>1, <2>1 DEF FabricTypeOK
    <3>2. QED BY <1>8, <2>1, <3>1 DEF GraphIInv, StageWritten
  <2>2. CASE q = p
    <3>1. publishing'[q].pc = "idle" BY <1>1, <2>2 DEF FabricTypeOK, Idle
    <3>2. QED BY <3>1 DEF StageWritten
  <2>3. QED BY <2>1, <2>2
<1>11. NotifiedIsIndexed' BY <1>1 DEF NotifiedIsIndexed, GraphIInv
<1>11a. Numbered'
  <2> SUFFICES ASSUME NEW q \in Producers
               PROVE  /\ \A e \in returned[q] : e.n <= calls
                      /\ publishing'[q].pc # "idle" => publishing'[q].event.n <= calls
    BY <1>1 DEF Numbered
  <2>1. publishing'[q] = publishing[q] \/ publishing'[q].pc = "idle"
    BY <1>1 DEF FabricTypeOK, Idle
  <2>2. QED BY <2>1 DEF GraphIInv, Numbered
<1>12. GraphIInv' BY <1>1, <1>9, <1>10, <1>11, <1>11a DEF GraphIInv
<1>13. WatchIInv' BY <1>1 DEF WatchIInv, WatcherAt
<1>14. QED BY <1>7, <1>12, <1>13

-----------------------------------------------------------------------------
(* The watchers                                                            *)

LEMMA PassedTyped ==
    ASSUME FabricTypeOK, NEW w \in Watchers, NEW r \in Projects
    PROVE  Passed(w, r) \in 0..Len(streams[r])
<1>1. streams[r] \in Seq(Entry) BY DEF FabricTypeOK
<1>2. Len(streams[r]) \in Nat /\ DOMAIN streams[r] = 1..Len(streams[r]) BY <1>1
<1> DEFINE S == {k \in DOMAIN streams[r] : streams[r][k].id <= watch[w].from[r]}
<1>3. S \in SUBSET (1..Len(streams[r])) BY <1>2
<1> HIDE DEF S
<1>4. /\ IsFiniteSet(1..Len(streams[r]))
      /\ Cardinality(1..Len(streams[r])) = Len(streams[r])
  <2>1. IsFiniteSet(1..Len(streams[r]))
        /\ Cardinality(1..Len(streams[r])) =
              IF 1 > Len(streams[r]) THEN 0 ELSE Len(streams[r]) - 1 + 1
    BY <1>2, FS_Interval
  <2>2. QED BY <1>2, <2>1
<1>5. Cardinality(S) <= Len(streams[r]) /\ IsFiniteSet(S) BY <1>3, <1>4, FS_Subset
<1>6. Cardinality(S) \in Nat BY <1>5, FS_CardinalityType
<1>7. QED BY <1>2, <1>5, <1>6 DEF Passed, S

\* XREAD returns a piece of the stream, from the position on.
LEMMA EntriesRead ==
    ASSUME FabricTypeOK, NEW w \in Watchers, NEW r \in Projects
    PROVE  /\ NewEntries(w, r) \in Seq(Entry)
           /\ Passed(w, r) + Len(NewEntries(w, r)) <= Len(streams[r])
           /\ \A k \in 1..Len(NewEntries(w, r)) :
                 NewEntries(w, r)[k] = streams[r][Passed(w, r) + k]
<1> DEFINE s == streams[r]
           n == Passed(w, r)
           end == IF n + BatchSize < Len(s) THEN n + BatchSize ELSE Len(s)
<1>1. s \in Seq(Entry) /\ Len(s) \in Nat BY DEF FabricTypeOK
<1>2. n \in 0..Len(s) BY PassedTyped
<1>3. NewEntries(w, r) = SubSeq(s, n + 1, end) BY DEF NewEntries
<1>4. n \in Nat /\ end \in n..Len(s) /\ end \in Nat BY <1>1, <1>2, FabricBounds
<1> HIDE DEF s, n, end
<1>4a. n + 1 \in 1..Len(s) + 1 /\ end \in n + 1 - 1..Len(s) BY <1>1, <1>2, <1>4
<1>5. /\ SubSeq(s, n + 1, end) \in Seq(Entry)
      /\ Len(SubSeq(s, n + 1, end)) = end - n
      /\ \A k \in 1..(end - n) : SubSeq(s, n + 1, end)[k] = s[n + k]
  <2>1. SubSeq(s, n + 1, end) = [k \in 1..(end - n) |-> s[n + k]]
    BY <1>1, <1>4, <1>4a DEF SubSeq
  <2>2. \A k \in 1..(end - n) : n + k \in 1..Len(s) BY <1>1, <1>4
  <2>3. [k \in 1..(end - n) |-> s[n + k]] \in [1..(end - n) -> Entry] BY <1>1, <2>2
  <2>4. end - n \in Nat BY <1>4
  <2>5. [k \in 1..(end - n) |-> s[n + k]] \in Seq(Entry) BY <2>3, <2>4
  <2>6. Len([k \in 1..(end - n) |-> s[n + k]]) = end - n BY <2>3, <2>4, <2>5
  <2>7. QED BY <2>1, <2>5, <2>6
<1>6. QED BY <1>1, <1>3, <1>4, <1>5 DEF s, n

\* When the position is that of the n-th entry, n entries have been passed.
LEMMA PassedIs ==
    ASSUME FabricTypeOK, NEW w \in Watchers, NEW r \in Projects, Increasing(streams[r]),
           NEW n \in 0..Len(streams[r]),
           watch[w].from[r] = IdAt(streams[r], n)
    PROVE  Passed(w, r) = n
<1> DEFINE s == streams[r]
           c == watch[w].from[r]
<1>1. s \in Seq(Entry) BY DEF FabricTypeOK
<1>2. Len(s) \in Nat /\ DOMAIN s = 1..Len(s) /\ n \in Nat BY <1>1
<1>3. \A k \in 1..Len(s) : s[k] \in Entry BY <1>1
<1>4. \A k \in 1..Len(s) : s[k].id \in Nat BY <1>3 DEF Entry
<1>5. Increasing(s) /\ c = IF n = 0 THEN 0 ELSE s[n].id BY DEF IdAt
<1>6. Passed(w, r) = Cardinality({k \in DOMAIN s : s[k].id <= c}) BY DEF Passed
<1> HIDE DEF s, c
<1>6a. n <= Len(s) BY DEF s
<1>7. ASSUME NEW k \in 1..Len(s) PROVE s[k].id <= c <=> k <= n
  <2>1. CASE n = 0
    BY <1>2, <1>4, <1>5, <2>1 DEF Increasing
  <2>2. CASE n # 0
    <3>1. n \in 1..Len(s) BY <1>2, <1>6a, <2>2
    <3>2. c = s[n].id /\ s[n].id \in Nat /\ s[k].id \in Nat BY <1>4, <1>5, <2>2, <3>1
    <3>3. k < n => s[k].id < s[n].id BY <1>2, <1>5, <3>1 DEF Increasing
    <3>4. n < k => s[n].id < s[k].id BY <1>2, <1>5, <3>1 DEF Increasing
    <3>5. k < n \/ k = n \/ n < k BY <1>2
    <3>6. QED BY <1>2, <3>2, <3>3, <3>4, <3>5
  <2>3. QED BY <2>1, <2>2
<1>8. {k \in DOMAIN s : s[k].id <= c} = 1..n BY <1>2, <1>6a, <1>7
<1>9. n \in Int /\ 1 \in Int BY <1>2
<1>9a. Cardinality(1..n) = IF 1 > n THEN 0 ELSE n - 1 + 1 BY ONLY <1>9, FS_Interval
<1>10. Cardinality(1..n) = n BY <1>2, <1>9a
<1>11. QED BY <1>6, <1>8, <1>10

\* A watcher that moves disturbs nothing but its own connection.
LEMMA WatcherMoves ==
    ASSUME FabricIInv, NEW w \in Watchers, NEW c \in Connection, NEW got \in Seq(Entry),
           Moves(w, c), NEW d \in 0..MaxDrops, drops' = d,
           received' = [received EXCEPT ![w] = got],
           Len(c.batch) = Len(Follows[w]),
           Len(Follows[w]) = 1 =>
              \E n \in Nat : HasRead(c, got, streams[Follows[w][1]], Follows[w][1], n)
    PROVE  FabricIInv'
<1> USE DEF FabricIInv
<1>0. /\ watch' = [watch EXCEPT ![w] = c]
      /\ UNCHANGED <<store, graph, graphCopy, streams, publishing, returned, started, calls,
                     crashes>>
  BY DEF Moves
<1>1. watch' \in [Watchers -> Connection] /\ received' \in [Watchers -> Seq(Entry)]
  BY <1>0 DEF FabricTypeOK
<1>2. FabricTypeOK' BY <1>0, <1>1 DEF FabricTypeOK
<1>3. GraphIInv'
  <2>1. \A q \in Producers : View(q)' = View(q) /\ Lasting(q)' = Lasting(q)
    BY <1>0 DEF View, Rows, Lasting
  <2>2. QED
    BY <1>0, <2>1 DEF GraphIInv, Numbered, StageWritten, PublishedStays, NotifiedIsIndexed
<1>4. /\ watch'[w] = c /\ received'[w] = got
      /\ \A v \in Watchers : v # w => watch'[v] = watch[v] /\ received'[v] = received[v]
  BY <1>0 DEF FabricTypeOK
<1>5. \A v \in Watchers : Len(watch'[v].batch) = Len(Follows[v]) BY <1>4 DEF WatchIInv
<1>6. ASSUME NEW v \in Watchers, Len(Follows[v]) = 1
      PROVE  WatcherAt(v)'
  <2>1. CASE v = w
    <3>1. PICK n \in Nat : HasRead(c, got, streams[Follows[w][1]], Follows[w][1], n)
      BY <1>6, <2>1
    <3>2. QED BY <1>0, <1>4, <2>1, <3>1 DEF WatcherAt
  <2>2. CASE v # w
    <3>1. WatcherAt(v) BY <1>6 DEF WatchIInv
    <3>2. watch'[v] = watch[v] /\ received'[v] = received[v] /\ streams' = streams
      BY <1>0, <1>4, <2>2
    <3>3. QED BY <3>1, <3>2 DEF WatcherAt
  <2>3. QED BY <2>1, <2>2
<1>7. WatchIInv' BY <1>0, <1>5, <1>6 DEF WatchIInv
<1>8. QED BY <1>2, <1>3, <1>7

\* How far a watcher of one project is, and the facts about it in one place.
LEMMA WatcherIsAt ==
    ASSUME FabricIInv, NEW w \in Watchers, Len(Follows[w]) = 1
    PROVE  LET r == Follows[w][1]
               s == streams[r]
               n == Len(received[w])
           IN  /\ r \in Projects /\ s \in Seq(Entry) /\ Increasing(s) /\ Len(s) \in Nat
               /\ n \in Nat /\ watch[w].batch[1] \in Seq(Entry)
               /\ \E d \in Nat : HasRead(watch[w], received[w], s, r, d) /\ d + n \in 0..Len(s)
<1> DEFINE r == Follows[w][1]
           s == streams[r]
<1>1. r \in Projects BY FollowsTyped
<1>2. s \in Seq(Entry) /\ Increasing(s) BY <1>1 DEF FabricIInv, FabricTypeOK, WatchIInv
<1>3. received[w] \in Seq(Entry) /\ watch[w].batch[1] \in Seq(Entry)
  BY WatcherTyped DEF FabricIInv
<1>4. PICK d \in Nat : HasRead(watch[w], received[w], s, r, d)
  BY DEF FabricIInv, WatchIInv, WatcherAt
<1> HIDE DEF r, s
<1>5. Len(received[w]) \in Nat /\ d + Len(received[w]) \in 0..Len(s)
  BY <1>2, <1>3, <1>4, WatcherBehind
<1>6. Len(s) \in Nat BY <1>2
<1>7. QED BY <1>1, <1>2, <1>3, <1>4, <1>5, <1>6 DEF r, s

LEMMA ConnectKept ==
    ASSUME FabricIInv, NEW w \in Watchers, Connect(w)
    PROVE  FabricIInv'
<1> USE DEF FabricIInv
<1> DEFINE c == [watch[w] EXCEPT !.open = TRUE, !.cursor = [r \in Projects |-> watch[w].last]]
<1>1. watch[w] \in Connection /\ received[w] \in Seq(Entry) /\ ~watch[w].open
  BY WatcherTyped DEF Connect
<1>2. /\ c \in Connection /\ c.open /\ c.batch = watch[w].batch /\ c.last = watch[w].last
      /\ c.cursor = [r \in Projects |-> watch[w].last]
      /\ c.since = watch[w].since /\ c.waits = watch[w].waits
  BY <1>1 DEF Connection
<1>3. Moves(w, c) /\ drops' = drops BY DEF Connect
<1>4. received' = [received EXCEPT ![w] = received[w]] BY DEF Connect, FabricTypeOK
<1> HIDE DEF c
<1>5. ASSUME Len(Follows[w]) = 1
      PROVE  \E n \in Nat : HasRead(c, received[w], streams[Follows[w][1]], Follows[w][1], n)
  <2> DEFINE r == Follows[w][1]
             s == streams[r]
  <2>1. r \in Projects BY <1>5, FollowsTyped
  <2>2. PICK d \in Nat : HasRead(watch[w], received[w], s, r, d)
    BY <1>5 DEF WatchIInv, WatcherAt
  <2>3. ~c.waits BY <1>1, <1>2, <2>2 DEF HasRead
  <2>4. c.cursor[r] = c.last BY <1>2, <2>1
  <2> HIDE DEF r, s
  <2>5. HasRead(c, received[w], s, r, d) BY <1>2, <2>2, <2>3, <2>4 DEF HasRead
  <2>6. QED BY <2>5 DEF r, s
<1>6. drops \in 0..MaxDrops BY DEF FabricTypeOK
<1>7. Len(c.batch) = Len(Follows[w]) BY <1>2 DEF WatchIInv
<1>8. QED BY <1>1, <1>2, <1>3, <1>4, <1>5, <1>6, <1>7, WatcherMoves

LEMMA ReadTyped ==
    ASSUME NEW conn \in Connection, NEW b \in Seq(Seq(Entry))
    PROVE  /\ Read(conn, b) \in Connection /\ ~Read(conn, b).waits /\ Read(conn, b).batch = b
           /\ Read(conn, b).open = conn.open /\ Read(conn, b).since = conn.since
           /\ Read(conn, b).last = conn.last /\ Read(conn, b).cursor = conn.cursor
BY DEF Read, Connection

\* A connection of which nothing is to be handed on, and that does not wait.
LEMMA Rests ==
    ASSUME NEW s \in Seq(Entry), NEW conn, NEW c, NEW got \in Seq(Entry), NEW r, NEW d \in Nat,
           conn.batch[1] \in Seq(Entry), HasRead(conn, got, s, r, d),
           ~c.waits, c.batch[1] = <<>>, c.since = conn.since, c.last = conn.last,
           c.open => conn.open, c.cursor = conn.cursor
    PROVE  HasRead(c, got, s, r, d)
<1>1. Len(got) \in Nat /\ d + Len(got) \in 0..Len(s) BY WatcherBehind
<1>2. Len(c.batch[1]) = 0 /\ Len(s) \in Nat OBVIOUS
<1>3. d + Len(got) + Len(c.batch[1]) <= Len(s) BY <1>1, <1>2
<1>4. QED BY <1>2, <1>3 DEF HasRead

LEMMA DropKept ==
    ASSUME FabricIInv, NEW w \in Watchers, Drop(w)
    PROVE  FabricIInv'
<1> USE DEF FabricIInv
<1> DEFINE b == Read(watch[w], NoBatch(w))
           c == [b EXCEPT !.open = FALSE]
<1>1. /\ watch[w] \in Connection /\ received[w] \in Seq(Entry)
      /\ NoBatch(w) \in Seq(Seq(Entry)) /\ Len(NoBatch(w)) = Len(Follows[w])
  BY WatcherTyped, NoBatchTyped
<1>2. /\ b \in Connection /\ ~b.waits /\ b.batch = NoBatch(w) /\ b.since = watch[w].since
      /\ b.last = watch[w].last /\ b.cursor = watch[w].cursor
  BY <1>1, ReadTyped
<1>3. Moves(w, c) BY DEF Drop
<1>4. received' = [received EXCEPT ![w] = received[w]] BY DEF Drop, FabricTypeOK
<1> HIDE DEF b
<1>5. /\ c \in Connection /\ ~c.open /\ ~c.waits /\ c.batch = NoBatch(w)
      /\ c.since = watch[w].since /\ c.last = watch[w].last /\ c.cursor = watch[w].cursor
  BY <1>2 DEF Connection
<1> HIDE DEF c
<1>6. ASSUME Len(Follows[w]) = 1
      PROVE  \E n \in Nat : HasRead(c, received[w], streams[Follows[w][1]], Follows[w][1], n)
  <2>1. /\ streams[Follows[w][1]] \in Seq(Entry) /\ watch[w].batch[1] \in Seq(Entry)
        /\ \E d \in Nat :
              HasRead(watch[w], received[w], streams[Follows[w][1]], Follows[w][1], d)
    BY <1>6, WatcherIsAt
  <2>2. c.batch[1] = <<>> BY <1>5, <1>6, NoBatchTyped
  <2>3. QED BY <1>1, <1>5, <2>1, <2>2, Rests
<1>7. drops' \in 0..MaxDrops BY FabricBounds DEF FabricTypeOK, Drop
<1>8. Len(c.batch) = Len(Follows[w]) BY <1>1, <1>5
<1>9. QED BY <1>1, <1>3, <1>4, <1>5, <1>6, <1>7, <1>8, WatcherMoves

LEMMA XReadTimesOutKept ==
    ASSUME FabricIInv, NEW w \in Watchers, XReadTimesOut(w)
    PROVE  FabricIInv'
<1> USE DEF FabricIInv
<1> DEFINE c == Read(watch[w], NoBatch(w))
<1>1. /\ watch[w] \in Connection /\ received[w] \in Seq(Entry)
      /\ NoBatch(w) \in Seq(Seq(Entry)) /\ Len(NoBatch(w)) = Len(Follows[w])
  BY WatcherTyped, NoBatchTyped
<1>2. /\ c \in Connection /\ ~c.waits /\ c.batch = NoBatch(w) /\ c.since = watch[w].since
      /\ c.last = watch[w].last /\ c.cursor = watch[w].cursor /\ c.open = watch[w].open
  BY <1>1, ReadTyped
<1>3. Moves(w, c) /\ drops' = drops BY DEF XReadTimesOut
<1>4. received' = [received EXCEPT ![w] = received[w]] BY DEF XReadTimesOut, FabricTypeOK
<1> HIDE DEF c
<1>6. ASSUME Len(Follows[w]) = 1
      PROVE  \E n \in Nat : HasRead(c, received[w], streams[Follows[w][1]], Follows[w][1], n)
  <2>1. /\ streams[Follows[w][1]] \in Seq(Entry) /\ watch[w].batch[1] \in Seq(Entry)
        /\ \E d \in Nat :
              HasRead(watch[w], received[w], streams[Follows[w][1]], Follows[w][1], d)
    BY <1>6, WatcherIsAt
  <2>2. c.batch[1] = <<>> BY <1>2, <1>6, NoBatchTyped
  <2>3. QED BY <1>1, <1>2, <2>1, <2>2, Rests
<1>7. drops \in 0..MaxDrops BY DEF FabricTypeOK
<1>8. Len(c.batch) = Len(Follows[w]) BY <1>1, <1>2
<1>9. QED BY <1>1, <1>2, <1>3, <1>4, <1>6, <1>7, <1>8, WatcherMoves

LEMMA XReadBeginsKept ==
    ASSUME FabricIInv, NEW w \in Watchers, XReadBegins(w)
    PROVE  FabricIInv'
<1> USE DEF FabricIInv
<1> DEFINE f == [r \in Projects |-> Since(w, r)]
           c == [watch[w] EXCEPT !.waits = TRUE, !.from = f]
<1>1. /\ watch[w] \in Connection /\ received[w] \in Seq(Entry) /\ watch[w].open
      /\ ~watch[w].waits
  BY WatcherTyped DEF XReadBegins
<1>2. f \in [Projects -> Nat]
  <2>1. ASSUME NEW r \in Projects PROVE Since(w, r) \in Nat
    <3>1. watch[w].cursor[r] \in Position BY <1>1 DEF Connection
    <3>2. QED BY <3>1, LastIdTyped DEF Since, Position
  <2>2. QED BY <2>1
<1>3. Moves(w, c) /\ drops' = drops BY DEF XReadBegins
<1>4. received' = [received EXCEPT ![w] = received[w]] BY DEF XReadBegins, FabricTypeOK
<1>5. \A r \in Projects : f[r] = Since(w, r) OBVIOUS
<1> HIDE DEF f
<1>6. /\ c \in Connection /\ c.open /\ c.from = f /\ c.batch = watch[w].batch
      /\ c.last = watch[w].last /\ c.cursor = watch[w].cursor /\ c.since = watch[w].since
  BY <1>1, <1>2 DEF Connection
<1> HIDE DEF c
<1>7. ASSUME Len(Follows[w]) = 1
      PROVE  \E n \in Nat : HasRead(c, received[w], streams[Follows[w][1]], Follows[w][1], n)
  <2> DEFINE r == Follows[w][1]
             s == streams[r]
             n == Len(received[w])
  <2>1. r \in Projects /\ s \in Seq(Entry) /\ Len(s) \in Nat /\ n \in Nat
    BY <1>7, WatcherIsAt
  <2>2. PICK d \in Nat : HasRead(watch[w], received[w], s, r, d) /\ d + n \in 0..Len(s)
    BY <1>7, WatcherIsAt
  <2>3. watch[w].batch[1] = <<>>
    <3>1. DOMAIN watch[w].batch = 1..1 BY <1>7, WatcherTyped
    <3>2. 1 \in DOMAIN watch[w].batch BY <3>1
    <3>3. QED BY <3>2 DEF XReadBegins, Waiting
  <2>4. f[r] = IF watch[w].last = Newest THEN LastId(s) ELSE watch[w].last
    BY <1>1, <1>5, <2>1, <2>2 DEF HasRead, Since
  <2>5. \E m \in 0..Len(s) : /\ f[r] = IdAt(s, m)
                             /\ watch[w].last # Newest => m = d + n
    <3>1. CASE watch[w].last = Newest
      <4>1. LastId(s) = IdAt(s, Len(s)) BY <2>1 DEF LastId, IdAt
      <4>2. Len(s) \in 0..Len(s) BY <2>1
      <4>3. QED BY <2>4, <3>1, <4>1, <4>2
    <3>2. CASE watch[w].last # Newest
      <4>1. /\ watch[w].since = 0 => d = 0
            /\ watch[w].last = IF n = 0 THEN watch[w].since ELSE s[d + n].id
        BY <2>2 DEF HasRead
      <4>2. watch[w].since \in {0, Newest} BY <1>1 DEF Connection
      <4>3. watch[w].last = IdAt(s, d + n)
        <5>1. CASE n = 0
          <6>1. watch[w].last = 0 /\ d + n = 0 BY <3>2, <4>1, <4>2, <5>1
          <6>2. QED BY <6>1 DEF IdAt
        <5>2. CASE n # 0
          <6>1. d + n # 0 BY <2>1, <5>2
          <6>2. QED BY <4>1, <5>2, <6>1 DEF IdAt
        <5>3. QED BY <5>1, <5>2
      <4>4. QED BY <2>2, <2>4, <3>2, <4>3
    <3>3. QED BY <3>1, <3>2
  <2> HIDE DEF r, s, n
  <2>6. /\ d + n + Len(c.batch[1]) <= Len(s)
        /\ \A k \in 1..n : received[w][k] = s[d + k]
        /\ \A k \in 1..Len(c.batch[1]) : c.batch[1][k] = s[d + n + k]
        /\ c.since = 0 => d = 0
        /\ c.last = IF n = 0 THEN c.since ELSE s[d + n].id
        /\ c.cursor[r] = c.last
    BY <1>1, <1>6, <2>2 DEF HasRead, n
  <2>7. /\ c.open /\ c.batch[1] = <<>>
        /\ \E m \in 0..Len(s) : c.from[r] = IdAt(s, m) /\ (c.last # Newest => m = d + n)
    BY <1>6, <2>3, <2>5
  <2>8. HasRead(c, received[w], s, r, d) BY <2>6, <2>7 DEF HasRead, n
  <2>9. QED BY <2>8 DEF r, s
<1>8. drops \in 0..MaxDrops BY DEF FabricTypeOK
<1>9. Len(c.batch) = Len(Follows[w]) BY <1>6 DEF WatchIInv
<1>10. QED BY <1>1, <1>3, <1>4, <1>6, <1>7, <1>8, <1>9, WatcherMoves

LEMMA XReadKept ==
    ASSUME FabricIInv, NEW w \in Watchers, XRead(w)
    PROVE  FabricIInv'
<1> USE DEF FabricIInv
<1> DEFINE c == Read(watch[w], NextBatch(w))
<1>1. watch[w] \in Connection /\ received[w] \in Seq(Entry) /\ watch[w].waits
  BY WatcherTyped DEF XRead
<1>2. /\ NextBatch(w) \in Seq(Seq(Entry)) /\ Len(NextBatch(w)) = Len(Follows[w])
      /\ \A k \in 1..Len(Follows[w]) : NextBatch(w)[k] = NewEntries(w, Follows[w][k])
  <2>1. NextBatch(w) = [k \in 1..Len(Follows[w]) |-> NewEntries(w, Follows[w][k])]
    BY FollowsTyped DEF NextBatch
  <2>2. \A k \in 1..Len(Follows[w]) : NewEntries(w, Follows[w][k]) \in Seq(Entry)
    BY FollowsTyped, EntriesRead
  <2>3. NextBatch(w) \in [1..Len(Follows[w]) -> Seq(Entry)] BY <2>1, <2>2
  <2>4. Len(Follows[w]) \in Nat BY FollowsTyped
  <2>5. QED BY <2>1, <2>3, <2>4
<1>3. /\ c \in Connection /\ ~c.waits /\ c.batch = NextBatch(w) /\ c.since = watch[w].since
      /\ c.last = watch[w].last /\ c.cursor = watch[w].cursor /\ c.open = watch[w].open
  BY <1>1, <1>2, ReadTyped
<1>4. Moves(w, c) /\ drops' = drops BY DEF XRead
<1>5. received' = [received EXCEPT ![w] = received[w]] BY DEF XRead, FabricTypeOK
<1> HIDE DEF c
<1>6. ASSUME Len(Follows[w]) = 1
      PROVE  \E n \in Nat : HasRead(c, received[w], streams[Follows[w][1]], Follows[w][1], n)
  <2> DEFINE r == Follows[w][1]
             s == streams[r]
             n == Len(received[w])
             b == NewEntries(w, r)
             a == watch[w].last
  <2>1. r \in Projects /\ s \in Seq(Entry) /\ Increasing(s) /\ Len(s) \in Nat /\ n \in Nat
    BY <1>6, WatcherIsAt
  <2>2. PICK d \in Nat : HasRead(watch[w], received[w], s, r, d) /\ d + n \in 0..Len(s)
    BY <1>6, WatcherIsAt
  <2>3. /\ \A k \in 1..n : received[w][k] = s[d + k]
        /\ watch[w].since = 0 => d = 0
        /\ a = IF n = 0 THEN watch[w].since ELSE s[d + n].id
        /\ watch[w].open /\ watch[w].cursor[r] = a
    BY <1>1, <2>2 DEF HasRead
  <2>4. PICK m \in 0..Len(s) : /\ watch[w].from[r] = IdAt(s, m)
                               /\ a # Newest => m = d + n
    BY <1>1, <2>2 DEF HasRead
  <2>5. Passed(w, r) = m BY <2>1, <2>4, PassedIs
  <2>6. /\ m + Len(b) <= Len(s) /\ b \in Seq(Entry)
        /\ \A k \in 1..Len(b) : b[k] = s[m + k]
    BY <2>1, <2>5, EntriesRead
  <2>7. c.batch[1] = b BY <1>2, <1>3, <1>6
  <2>8. n # 0 => a # Newest
    <3>1. ASSUME n # 0 PROVE s[d + n].id \in Nat
      <4>1. d + n \in 1..Len(s) BY <2>1, <2>2, <3>1
      <4>2. s[d + n] \in Entry BY <2>1, <4>1
      <4>3. QED BY <4>2 DEF Entry
    <3>2. QED BY <2>3, <3>1, SincesAssumption
  <2>9. watch[w].since = 0 => a # Newest
    BY <2>3, <2>8, SincesAssumption
  <2> HIDE DEF r, s, n, b, a
  <2>10. n = 0 \/ m - n = d BY <2>1, <2>2, <2>4, <2>8
  <2>11. m - n \in Nat /\ (m - n) + n = m BY <2>1, <2>4, <2>10
  <2>12. \A k \in 1..n : received[w][k] = s[(m - n) + k]
    <3>1. CASE n = 0 BY <3>1
    <3>2. CASE m - n = d BY <2>3, <3>2
    <3>3. QED BY <2>10, <3>1, <3>2
  <2>13. watch[w].since = 0 => m - n = 0
    <3> SUFFICES ASSUME watch[w].since = 0 PROVE m - n = 0 OBVIOUS
    <3>1. d = 0 /\ m = d + n BY <2>3, <2>4, <2>9
    <3>2. QED BY <2>1, <3>1
  <2>14. a = IF n = 0 THEN watch[w].since ELSE s[(m - n) + n].id
    BY <2>3, <2>10
  <2>15. HasRead(c, received[w], s, r, m - n)
    BY <1>3, <2>3, <2>6, <2>7, <2>11, <2>12, <2>13, <2>14 DEF HasRead, n, a
  <2>16. QED BY <2>11, <2>15 DEF r, s
<1>7. drops \in 0..MaxDrops BY DEF FabricTypeOK
<1>8. Len(c.batch) = Len(Follows[w]) BY <1>2, <1>3
<1>9. QED BY <1>1, <1>3, <1>4, <1>5, <1>6, <1>7, <1>8, WatcherMoves

LEMMA HandedOnTyped ==
    ASSUME NEW conn \in Connection, NEW k \in 1..Len(conn.batch), conn.batch[k] # <<>>,
           NEW r \in Projects, NEW e \in Entry
    PROVE  /\ HandedOn(conn, k, r, e) \in Connection
           /\ Len(HandedOn(conn, k, r, e).batch) = Len(conn.batch)
           /\ HandedOn(conn, k, r, e).batch[k] = Tail(conn.batch[k])
           /\ HandedOn(conn, k, r, e).cursor[r] = e.id
           /\ HandedOn(conn, k, r, e).last = e.id
           /\ HandedOn(conn, k, r, e).since = conn.since
           /\ HandedOn(conn, k, r, e).open = conn.open
           /\ HandedOn(conn, k, r, e).waits = conn.waits
<1> DEFINE b == [conn.batch EXCEPT ![k] = Tail(@)]
           u == [conn.cursor EXCEPT ![r] = e.id]
           c == HandedOn(conn, k, r, e)
<1>1. conn.batch \in Seq(Seq(Entry)) /\ conn.cursor \in [Projects -> Position] BY DEF Connection
<1>2. conn.batch[k] \in Seq(Entry) BY <1>1
<1>3. Tail(conn.batch[k]) \in Seq(Entry) BY <1>2, HeadTailProperties
<1>4. e.id \in Nat /\ e.id \in Position BY DEF Entry, Position
<1>5. b \in Seq(Seq(Entry)) /\ Len(b) = Len(conn.batch) /\ b[k] = Tail(conn.batch[k])
  BY <1>1, <1>3
<1>6. u \in [Projects -> Position] /\ u[r] = e.id BY <1>1, <1>4
<1>7. c.batch = b /\ c.cursor = u /\ c.last = e.id /\ c.open = conn.open
      /\ c.since = conn.since /\ c.waits = conn.waits /\ c.from = conn.from
  BY DEF Connection, HandedOn
<1>8. c \in Connection
  <2>1. c.batch \in Seq(Seq(Entry)) /\ c.cursor \in [Projects -> Position] /\ c.last \in Position
    BY <1>4, <1>5, <1>6, <1>7
  <2>2. QED BY <2>1 DEF Connection, HandedOn
<1>9. QED BY <1>5, <1>6, <1>7, <1>8

LEMMA YieldKept ==
    ASSUME FabricIInv, NEW w \in Watchers, Yield(w)
    PROVE  FabricIInv'
<1> USE DEF FabricIInv
<1>1. PICK k \in Waiting(w) :
         /\ Moves(w, HandedOn(watch[w], k, Follows[w][k], Head(watch[w].batch[k])))
         /\ received' = [received EXCEPT ![w] = Append(received[w], Head(watch[w].batch[k]))]
  BY DEF Yield
<1> DEFINE e == Head(watch[w].batch[k])
           r == Follows[w][k]
           c == HandedOn(watch[w], k, r, e)
<1>2. /\ watch[w] \in Connection /\ received[w] \in Seq(Entry)
      /\ DOMAIN watch[w].batch = 1..Len(Follows[w])
      /\ \A j \in 1..Len(Follows[w]) : watch[w].batch[j] \in Seq(Entry)
  BY WatcherTyped
<1>3. k \in 1..Len(Follows[w]) /\ watch[w].batch[k] # <<>> BY <1>2 DEF Waiting
<1>4. r \in Projects BY <1>3, FollowsTyped
<1>5. watch[w].batch[k] \in Seq(Entry) BY <1>2, <1>3
<1>6. e \in Entry BY <1>3, <1>5, HeadTailProperties
<1>7. Len(watch[w].batch) = Len(Follows[w]) BY DEF WatchIInv
<1>8. Moves(w, c) /\ received' = [received EXCEPT ![w] = Append(received[w], e)]
      /\ drops' = drops
  BY <1>1 DEF Yield
<1> HIDE DEF e, r
<1>9. /\ c \in Connection /\ Len(c.batch) = Len(Follows[w])
      /\ c.batch[k] = Tail(watch[w].batch[k]) /\ c.cursor[r] = e.id /\ c.last = e.id
      /\ c.since = watch[w].since /\ c.waits = watch[w].waits
  BY <1>2, <1>3, <1>4, <1>6, <1>7, HandedOnTyped
<1> HIDE DEF c
<1>10. Append(received[w], e) \in Seq(Entry) BY <1>2, <1>6
<1>11. ASSUME Len(Follows[w]) = 1
       PROVE  \E n \in Nat :
                 HasRead(c, Append(received[w], e), streams[Follows[w][1]], Follows[w][1], n)
  <2> DEFINE s == streams[Follows[w][1]]
             n == Len(received[w])
             b == watch[w].batch[1]
             got == Append(received[w], e)
  <2>1. k = 1 /\ r = Follows[w][1] BY <1>3, <1>11 DEF r
  <2>2. PICK d \in Nat : HasRead(watch[w], received[w], s, r, d)
    BY <1>11, <2>1 DEF WatchIInv, WatcherAt
  <2>3. s \in Seq(Entry) /\ n \in Nat /\ Len(s) \in Nat /\ b \in Seq(Entry) /\ Len(b) \in Nat
    BY <1>2, <1>4, <1>5, <2>1 DEF FabricTypeOK
  <2>4. /\ d + n + Len(b) <= Len(s)
        /\ \A j \in 1..n : received[w][j] = s[d + j]
        /\ \A j \in 1..Len(b) : b[j] = s[d + n + j]
        /\ watch[w].since = 0 => d = 0
        /\ watch[w].waits => b = <<>>
    BY <2>2 DEF HasRead
  <2>5. Len(b) # 0 /\ e = b[1] /\ Len(Tail(b)) = Len(b) - 1 /\ b # <<>>
        /\ \A j \in 1..Len(Tail(b)) : Tail(b)[j] = b[j + 1]
    BY <1>3, <1>5, <2>1, HeadTailProperties DEF e
  <2>6. Len(got) = n + 1 /\ got[n + 1] = e /\ \A j \in 1..n : got[j] = received[w][j]
    BY <1>2, <1>6
  <2>7. c.batch[1] = Tail(b) /\ ~c.waits BY <1>9, <2>1, <2>4, <2>5
  <2>8. c.cursor[r] = c.last BY <1>9
  <2> HIDE DEF s, n, b, got
  <2>9. e = s[d + (n + 1)]
    <3>1. 1 \in 1..Len(b) /\ d + n + 1 = d + (n + 1) BY <2>3, <2>5
    <3>2. b[1] = s[d + n + 1] BY <2>4, <3>1
    <3>3. QED BY <2>5, <3>1, <3>2
  <2>10. d + Len(got) + Len(Tail(b)) <= Len(s) BY <2>3, <2>4, <2>5, <2>6
  <2>11. \A j \in 1..Len(got) : got[j] = s[d + j]
    <3> SUFFICES ASSUME NEW j \in 1..(n + 1) PROVE got[j] = s[d + j] BY <2>6
    <3>1. j \in 1..n \/ j = n + 1 BY <2>3
    <3>2. QED BY <2>4, <2>6, <2>9, <3>1
  <2>12. \A j \in 1..Len(Tail(b)) : Tail(b)[j] = s[d + Len(got) + j]
    <3> SUFFICES ASSUME NEW j \in 1..(Len(b) - 1) PROVE b[j + 1] = s[d + (n + 1) + j]
      BY <2>5, <2>6
    <3>1. j + 1 \in 1..Len(b) /\ d + n + (j + 1) = d + (n + 1) + j BY <2>3
    <3>2. QED BY <2>4, <3>1
  <2>13. c.last = IF Len(got) = 0 THEN c.since ELSE s[d + Len(got)].id
    BY <1>9, <2>3, <2>6, <2>9
  <2>14. HasRead(c, got, s, r, d)
    BY <1>9, <2>4, <2>7, <2>8, <2>10, <2>11, <2>12, <2>13 DEF HasRead
  <2>15. QED BY <2>1, <2>14 DEF s, got
<1>12. drops \in 0..MaxDrops BY DEF FabricTypeOK
<1>13. QED BY <1>8, <1>9, <1>10, <1>11, <1>12, WatcherMoves

-----------------------------------------------------------------------------
(* All steps                                                               *)

LEMMA PublisherStepKept ==
    ASSUME FabricIInv, NEW p \in Producers,
           \/ \E r \in Projects, c \in Contents : PublishMemory(p, r, c)
           \/ \E r \in Projects : Publish(p, r) \/ PublishAmbientTrace(p, r)
           \/ WriteMemory(p) \/ WriteEvent(p) \/ WriteEdge(p)
           \/ Notify(p) \/ NotifyFails(p)
           \/ ProducerDies(p) \/ ProducerDiesInSave(p)
    PROVE  FabricIInv'
<1>1. ASSUME NEW r \in Projects, NEW c \in Contents, PublishMemory(p, r, c) PROVE FabricIInv'
  <2>1. {c} \in SUBSET Contents /\ c # NoRef BY RefAssumption
  <2>2. QED BY <1>1, <2>1, StartKept DEF PublishMemory
<1>2. ASSUME NEW r \in Projects, Publish(p, r) PROVE FabricIInv'
  BY <1>2, StartKept DEF Publish
<1>3. ASSUME NEW r \in Projects, PublishAmbientTrace(p, r) PROVE FabricIInv'
  BY <1>3, StartKept DEF PublishAmbientTrace
<1>4. graph \in Graph \union {Garbled} BY DEF FabricIInv, FabricTypeOK
<1>5. CASE ProducerDies(p) BY <1>4, <1>5, DieKept DEF ProducerDies
<1>6. CASE ProducerDiesInSave(p) BY <1>6, DieKept DEF ProducerDiesInSave
<1>7. QED
  BY <1>1, <1>2, <1>3, <1>5, <1>6, WriteMemoryKept, WriteEventKept, WriteEdgeKept,
     NotifyKept, NotifyFailsKept

\* Publishing and reading keep the inductive invariant of the fabric, with any number of
\* publishers, projects and watchers, and both kinds of graph store.
\* (EventStore.publish, publish_memory, RedisStreamBackend.subscribe.)
THEOREM FabricInvariance == FabricSpec => []FabricIInv
<1>1. FabricInit => FabricIInv BY FabricStarts
<1>2. FabricIInv /\ [FabricNext]_fabricVars => FabricIInv'
  <2> SUFFICES ASSUME FabricIInv, [FabricNext]_fabricVars PROVE FabricIInv' OBVIOUS
  <2>1. CASE UNCHANGED fabricVars
    <3>1. UNCHANGED <<store, graph, graphCopy, streams, publishing, returned, started, watch,
                      received, calls, drops, crashes>>
      BY <2>1 DEF fabricVars
    <3>2. FabricTypeOK' BY <3>1 DEF FabricIInv, FabricTypeOK
    <3>3. GraphIInv'
      BY <3>1 DEF FabricIInv, GraphIInv, Numbered, StageWritten, PublishedStays, Lasting,
                  NotifiedIsIndexed, View, Rows
    <3>4. WatchIInv' BY <3>1 DEF FabricIInv, WatchIInv, WatcherAt
    <3>5. QED BY <3>2, <3>3, <3>4 DEF FabricIInv
  <2>2. ASSUME NEW p \in Producers,
               \/ \E r \in Projects, c \in Contents : PublishMemory(p, r, c)
               \/ \E r \in Projects : Publish(p, r) \/ PublishAmbientTrace(p, r)
               \/ WriteMemory(p) \/ WriteEvent(p) \/ WriteEdge(p)
               \/ Notify(p) \/ NotifyFails(p)
               \/ ProducerDies(p) \/ ProducerDiesInSave(p)
        PROVE  FabricIInv'
    BY <2>2, PublisherStepKept
  <2>3. ASSUME NEW w \in Watchers,
               \/ Connect(w) \/ XReadBegins(w) \/ XRead(w) \/ XReadTimesOut(w)
               \/ Yield(w) \/ Drop(w)
        PROVE  FabricIInv'
    BY <2>3, ConnectKept, XReadBeginsKept, XReadKept, XReadTimesOutKept, YieldKept, DropKept
  <2>4. QED BY <2>1, <2>2, <2>3 DEF FabricNext
<1>3. QED BY <1>1, <1>2, PTL DEF FabricSpec

\* What is indexed is found again by its agent and by who starts in its project.
LEMMA IndexedLeadsBack ==
    ASSUME NEW g \in Graph, NEW e \in Event, Indexed(g, e), NEW rs \in SUBSET Projects,
           e.project \in rs
    PROVE  /\ e \in Trail(g, e.by, rs)
           /\ \A c \in e.refs : g.memories[c] # Absent =>
                 \A k \in 1..2 : \A b \in SeedBundles(g, rs, e.n - 1, k) :
                    c \in b \/ Cardinality(b) = k
<1>1. e \in g.events BY DEF Indexed
<1>2. e \in Trail(g, e.by, rs) BY <1>1 DEF Trail, InTrail
<1>3. ASSUME NEW c \in e.refs, g.memories[c] # Absent, NEW k \in 1..2,
             NEW b \in SeedBundles(g, rs, e.n - 1, k)
      PROVE  c \in b \/ Cardinality(b) = k
  <2> DEFINE found == SeedMemories(g, rs, e.n - 1)
  <2>1. c \in Contents /\ e.n \in Int BY DEF Event
  <2>2. e \in RecentEvents(g, rs, e.n - 1) BY <1>1, <2>1 DEF RecentEvents
  <2>3. c \in found BY <1>3, <2>1, <2>2 DEF SeedMemories
  <2>4. found \in SUBSET Contents BY DEF SeedMemories
  <2>5. b \in SUBSET found
        /\ Cardinality(b) = IF k < Cardinality(found) THEN k ELSE Cardinality(found)
    BY DEF SeedBundles
  <2> HIDE DEF found
  <2>6. IsFiniteSet(found) BY <2>4, ContentsAssumption, FS_Subset
  <2>7. Cardinality(found) = Cardinality(b) => found = b BY <2>5, <2>6, FS_Subset
  <2>8. QED BY <2>3, <2>5, <2>7
<1>4. QED BY <1>2, <1>3

\* With any number of publishers, projects and watchers: what a publish returned stays in
\* the graph as its process sees it (with SQLite for ever, with JSON while the process
\* lives) and leads back to the memories it names and the graph has; with SQLite nobody
\* hears of an event that is not there; and a watcher of one project receives a run of its
\* stream without a gap, over any number of broken connections, from the start of the
\* stream if it began with 0.  (EventStore.publish, publish_memory and subscribe.)
THEOREM FabricIsSound == FabricSpec => []FabricSound
<1>1. FabricIInv => FabricSound
  <2> SUFFICES ASSUME FabricIInv PROVE FabricSound OBVIOUS
  <2>1. PublishedStays /\ NotifiedIsIndexed BY DEF FabricIInv, GraphIInv
  <2>2. PublishedLeadsBack
    <3> SUFFICES ASSUME NEW p \in Producers, NEW e \in Lasting(p),
                        NEW rs \in SUBSET Projects, e.project \in rs
                 PROVE  /\ e \in Trail(View(p), e.by, rs)
                        /\ \A c \in e.refs : View(p).memories[c] # Absent =>
                              \A k \in 1..2 : \A b \in SeedBundles(View(p), rs, e.n - 1, k) :
                                 c \in b \/ Cardinality(b) = k
      BY DEF PublishedLeadsBack
    <3>1. e \in Event /\ Indexed(View(p), e)
      BY <2>1 DEF PublishedStays, FabricIInv, FabricTypeOK, Lasting
    <3>2. View(p) \in Graph BY ViewTyped DEF FabricIInv
    <3>3. QED BY <3>1, <3>2, IndexedLeadsBack
  <2>3. ASSUME NEW w \in Watchers, Len(Follows[w]) = 1
        PROVE  \E d \in 0..(Len(streams[Follows[w][1]]) - Len(received[w])) :
                  /\ \A k \in 1..Len(received[w]) :
                        received[w][k] = streams[Follows[w][1]][d + k]
                  /\ watch[w].since = 0 => d = 0
    <3> DEFINE s == streams[Follows[w][1]]
               n == Len(received[w])
    <3>1. Len(s) \in Nat /\ n \in Nat BY <2>3, WatcherIsAt
    <3>2. PICK d \in Nat :
             HasRead(watch[w], received[w], s, Follows[w][1], d) /\ d + n \in 0..Len(s)
      BY <2>3, WatcherIsAt
    <3>3. /\ \A k \in 1..n : received[w][k] = s[d + k]
          /\ watch[w].since = 0 => d = 0
      BY <3>2 DEF HasRead
    <3> HIDE DEF s, n
    <3>4. d \in 0..(Len(s) - n) BY <3>1, <3>2
    <3>5. QED BY <3>3, <3>4 DEF s, n
  <2>4. QED BY <2>1, <2>2, <2>3 DEF FabricSound, ReceivedInOrder
<1>2. QED BY <1>1, FabricInvariance, PTL

-----------------------------------------------------------------------------
(* Recall                                                                  *)

\* Finitely many files have finitely many sections.
LEMMA BlocksAreFinite == IsFiniteSet(AllBlocks)
<1>1. ASSUME NEW n \in Notes PROVE IsFiniteSet(Sections(n))
  <2> DEFINE I == 1..About[n].sections
             f == [i \in I |-> [note |-> n, at |-> i]]
  <2>1. IsFiniteSet(I)
    <3>1. 1 \in Int /\ About[n].sections \in Int
      BY RecallAssumption
    <3>2. IsFiniteSet(1..About[n].sections)
      BY <3>1, FS_Interval, Zenon
    <3> QED
      BY <3>2
  <2>2. f \in Surjection(I, Sections(n))
    BY DEF Sections, Surjection
  <2> QED
    BY <2>1, <2>2, FS_Surjection
<1> DEFINE Parts == {Sections(n) : n \in Notes}
           g == [n \in Notes |-> Sections(n)]
<1>2. g \in Surjection(Notes, Parts)
  BY DEF Surjection
<1>3. IsFiniteSet(Parts)
  BY <1>2, FS_Surjection, RecallAssumption
<1>4. IsFiniteSet(UNION Parts)
  <2>1. \A T \in Parts : IsFiniteSet(T)
    BY <1>1
  <2> QED
    BY <1>3, <2>1, FS_UNION
<1> QED
  BY <1>4 DEF AllBlocks

\* A block is a section of a file.
LEMMA BlockFields ==
    ASSUME NEW b \in AllBlocks
    PROVE  /\ b.note \in Notes
           /\ b.at \in Nat \ {0}
           /\ b = [note |-> b.note, at |-> b.at]
BY RecallAssumption DEF AllBlocks, Sections

\* So every set of blocks is finite, and its subsets are not larger.
LEMMA BlocksFinite ==
    ASSUME NEW S \in SUBSET AllBlocks
    PROVE  /\ IsFiniteSet(S)
           /\ Cardinality(S) \in Nat
           /\ \A T \in SUBSET S :
                 IsFiniteSet(T) /\ Cardinality(T) \in Nat /\ Cardinality(T) <= Cardinality(S)
<1>1. IsFiniteSet(S)
  BY BlocksAreFinite, FS_Subset
<1> QED
  BY <1>1, FS_Subset, FS_CardinalityType

\* No two blocks of a set have the same stem.
OneOfAStem(S) == \A b, c \in S : Stem(b) = Stem(c) => b = c

\* A set with as many blocks as stems has one block of each.
LEMMA OneForEach ==
    ASSUME NEW S \in SUBSET AllBlocks, NEW T \in OnePerStem(S)
    PROVE  T \subseteq S /\ Stems(T) = Stems(S) /\ OneOfAStem(T)
<1> DEFINE f == [b \in T |-> Stem(b)]
<1>1. T \subseteq S /\ Stems(T) = Stems(S) /\ Cardinality(T) = Cardinality(Stems(T))
  BY DEF OnePerStem
<1>2. IsFiniteSet(T)
  BY <1>1, BlocksFinite
<1>3. f \in Surjection(T, Stems(T))
  BY DEF Surjection, Stems
<1>4. f \in Injection(T, Stems(T))
  BY <1>1, <1>2, <1>3, FS_SurjSameCardinalityImpliesInj
<1>5. \A b, c \in T : f[b] = f[c] => b = c
  BY <1>4 DEF Injection, IsInjective
<1>6. OneOfAStem(T)
  <2> SUFFICES ASSUME NEW b \in T, NEW c \in T, Stem(b) = Stem(c) PROVE b = c
    BY DEF OneOfAStem
  <2>1. f[b] = f[c]
    OBVIOUS
  <2> QED
    BY <1>5, <2>1
<1> QED
  BY <1>1, <1>6

\* As many chunk ids, and as many stems, as blocks of different stems.
LEMMA AsManyIds ==
    ASSUME NEW S \in SUBSET AllBlocks, OneOfAStem(S)
    PROVE  /\ Cardinality(Stems(S)) = Cardinality(S)
           /\ IsFiniteSet({ChunkId(b) : b \in S})
           /\ Cardinality({ChunkId(b) : b \in S}) = Cardinality(S)
<1> DEFINE f == [b \in S |-> Stem(b)]
           Ids == {ChunkId(b) : b \in S}
           g == [b \in S |-> ChunkId(b)]
<1>1. IsFiniteSet(S)
  BY BlocksFinite
<1>2. f \in Surjection(S, Stems(S)) /\ f \in Injection(S, Stems(S))
  <2>1. f \in Surjection(S, Stems(S))
    BY DEF Surjection, Stems
  <2>2. f \in [S -> Stems(S)]
    BY <2>1 DEF Surjection
  <2>3. \A b, c \in S : f[b] = f[c] => b = c
    <3>1. \A b \in S : f[b] = Stem(b)
      OBVIOUS
    <3>2. \A b, c \in S : Stem(b) = Stem(c) => b = c
      BY DEF OneOfAStem
    <3> HIDE DEF f
    <3> QED
      BY <3>1, <3>2
  <2> HIDE DEF f
  <2> QED
    BY <2>1, <2>2, <2>3 DEF Injection, IsInjective
<1>3. g \in Surjection(S, Ids) /\ g \in Injection(S, Ids)
  <2>1. g \in Surjection(S, Ids)
    BY DEF Surjection
  <2>2. g \in [S -> Ids]
    BY <2>1 DEF Surjection
  <2>3. \A b, c \in S : g[b] = g[c] => b = c
    <3>1. \A b \in S : g[b] = <<Stem(b), b.at>>
      BY DEF ChunkId
    <3>2. \A b, c \in S : Stem(b) = Stem(c) => b = c
      BY DEF OneOfAStem
    <3> HIDE DEF g
    <3> QED
      BY <3>1, <3>2
  <2> HIDE DEF g
  <2> QED
    BY <2>1, <2>2, <2>3 DEF Injection, IsInjective
<1>4. Cardinality(Stems(S)) = Cardinality(S)
  BY <1>1, <1>2, FS_Surjection
<1>5. IsFiniteSet(Ids) /\ Cardinality(Ids) = Cardinality(S)
  BY <1>1, <1>3, FS_Surjection
<1> QED
  BY <1>4, <1>5

\* The lesser of two numbers is one of them.
LEMMA LesserFacts ==
    ASSUME NEW m \in Nat, NEW n \in Nat
    PROVE  /\ Lesser(m, n) \in Nat
           /\ Lesser(m, n) <= m /\ Lesser(m, n) <= n
           /\ Lesser(m, n) \in {m, n}
BY DEF Lesser

\* A reranked pool has as many blocks as it may.
LEMMA FilledIsFull ==
    ASSUME NEW S \in SUBSET AllBlocks, NEW k \in Nat,
           NEW chosen \in SUBSET S, Cardinality(chosen) <= k,
           NEW T \in Filled(chosen, S, k)
    PROVE  T \subseteq S /\ Cardinality(T) = Lesser(k, Cardinality(S))
<1> DEFINE free == k - Cardinality(chosen)
<1>1. PICK rest \in Cuts(S \ chosen, free) : T = chosen \union rest
  BY DEF Filled
<1>2. /\ IsFiniteSet(S) /\ Cardinality(S) \in Nat
      /\ IsFiniteSet(chosen) /\ Cardinality(chosen) \in Nat
      /\ Cardinality(chosen) <= Cardinality(S)
  BY BlocksFinite
<1>3. rest \subseteq S \ chosen /\ Cardinality(rest) = Lesser(free, Cardinality(S \ chosen))
  BY <1>1 DEF Cuts
<1>4. Cardinality(S \ chosen) = Cardinality(S) - Cardinality(chosen)
  <2>1. S \cap chosen = chosen
    OBVIOUS
  <2> QED
    BY <1>2, <2>1, FS_Difference
<1>5. IsFiniteSet(rest)
  BY <1>2, <1>3, FS_Subset
<1>6. Cardinality(T) = Cardinality(chosen) + Cardinality(rest)
  <2>1. chosen \cap rest = {}
    BY <1>3
  <2>2. Cardinality(rest) \in Nat
    BY <1>5, FS_CardinalityType
  <2>3. Cardinality(T) = Cardinality(chosen) + Cardinality(rest) - Cardinality({})
    BY <1>1, <1>2, <1>5, <2>1, FS_Union
  <2> HIDE DEF free
  <2> QED
    BY <1>2, <2>2, <2>3, FS_EmptySet
<1>7. Cardinality(T) = Lesser(k, Cardinality(S))
  BY <1>2, <1>3, <1>4, <1>6 DEF Lesser
<1> QED
  BY <1>1, <1>3, <1>7

\* The caller's scope lets a block through.
InScope(b, r) ==
    /\ About[b.note].ambient => r.ambient
    /\ \/ r.cross \/ r.project = Untold
       \/ /\ About[b.note].project \in {Untold, r.project} \union r.mentions
          /\ r.room = Untold \/ About[b.note].room \in {Untold, r.room}

\* The filters only take blocks away, and leave none out of the caller's scope.
LEMMA FilteredInScope ==
    ASSUME NEW r \in Queries, NEW blocks \in SUBSET AllBlocks
    PROVE  /\ Filtered(blocks, r) \subseteq blocks
           /\ \A b \in Filtered(blocks, r) : InScope(b, r)
<1>1. r.ambient \in BOOLEAN /\ r.cross \in BOOLEAN
  BY RecallAssumption
<1>2. \A b \in blocks : About[b.note].ambient \in BOOLEAN
  BY BlockFields, RecallAssumption
<1>3. ASSUME NEW b \in NotAmbient(blocks, r)
      PROVE  b \in blocks /\ (About[b.note].ambient => r.ambient)
  BY <1>1, <1>2, <1>3 DEF NotAmbient
<1>4. ASSUME NEW S, NEW b \in InRoom(OfProject(S, r), r)
      PROVE  /\ b \in S
             /\ About[b.note].project \in {Untold, r.project} \union r.mentions
             /\ r.room = Untold \/ About[b.note].room \in {Untold, r.room}
  BY <1>4 DEF InRoom, OfProject
<1>5. CASE r.cross \/ r.project = Untold
  BY <1>3, <1>5 DEF Filtered, InScope
<1>6. CASE ~(r.cross \/ r.project = Untold)
  <2>1. Filtered(blocks, r) = InRoom(OfProject(NotAmbient(blocks, r), r), r)
    BY <1>6 DEF Filtered
  <2> QED
    BY <1>3, <1>4, <2>1 DEF InScope
<1> QED
  BY <1>5, <1>6

Ranked == {"scanned", "scored", "blended", "gated", "ranked"}

\* A call: what is registered is what was scanned, in scope; the candidates are some of it,
\* one chunk of a stem; and until the gates reject some, they are of all stems that match.
RecallIInv ==
    /\ stage \in Ranked \union {"idle", "answered"}
    /\ request \in Queries
    /\ stage \in Ranked => request.mode = "full" /\ ~request.blank
    /\ scanned \subseteq AllBlocks /\ \A b \in scanned : InScope(b, request)
    /\ registered = {ChunkId(b) : b \in scanned}
    /\ pool \subseteq scanned /\ OneOfAStem(pool)
    /\ gated \in BOOLEAN
    /\ matched \subseteq Stems(scanned)
    /\ stage \in {"idle", "scanned"} => matched = {}
    /\ stage \in {"scored", "blended"} => Stems(pool) = matched
    /\ stage = "gated" =>
          /\ matched # {} => pool # {}
          /\ ~gated => Stems(pool) = matched
    /\ stage = "ranked" =>
          /\ matched # {} => pool # {}
          /\ ~gated => Cardinality(pool) >= Lesser(request.topK, Cardinality(matched))
    /\ answer \subseteq ChunkIds \union (Vectors \X {0})
    /\ AnswerSound

\* The arguments of a query.
LEMMA QueryFields ==
    ASSUME NEW r \in Queries
    PROVE  r.topK \in Nat \ {0} /\ r.blank \in BOOLEAN /\ r.mode \in {"full", "index", "timeline"}
BY RecallAssumption

LEMMA RecallStarts == RecallInit => RecallIInv
<1> SUFFICES ASSUME RecallInit PROVE RecallIInv
  OBVIOUS
<1> USE DEF RecallInit
<1>1. AnswerSound
  BY DEF AnswerSound, InScopeAndKnown, AnswerIsFull, Answered
<1>2. Stems({}) = {} /\ {ChunkId(b) : b \in {}} = {}
  BY DEF Stems
<1> QED
  BY <1>1, <1>2 DEF RecallIInv, Ranked, OneOfAStem

\* Chunks that are cut from the blocks of a call.
LEMMA CutIsKnown ==
    ASSUME NEW S \in SUBSET AllBlocks, NEW T \in SUBSET S, NEW k,
           NEW kept \in Cuts(T, k)
    PROVE  /\ kept \subseteq T
           /\ \A c \in {ChunkId(b) : b \in kept} : \E b \in kept : ChunkId(b) = c
           /\ {ChunkId(b) : b \in kept} \subseteq {ChunkId(b) : b \in S}
           /\ {ChunkId(b) : b \in kept} \subseteq ChunkIds
<1>1. kept \subseteq T
  BY DEF Cuts
<1> QED
  BY <1>1 DEF ChunkIds

LEMMA CallKeeps ==
    ASSUME RecallIInv, NEW r \in Queries, NEW readable \in SUBSET Notes,
           StartRecall(r, readable)
    PROVE  RecallIInv'
<1> DEFINE blocks == Filtered(UNION {Sections(n) : n \in readable}, r)
<1>1. blocks \subseteq AllBlocks /\ \A b \in blocks : InScope(b, r)
  <2>1. UNION {Sections(n) : n \in readable} \in SUBSET AllBlocks
    BY DEF AllBlocks
  <2> QED
    BY <2>1, FilteredInScope
<1>2. /\ request' = r /\ scanned' = blocks /\ registered' = {ChunkId(b) : b \in blocks}
      /\ matched' = {} /\ pool' = {} /\ gated' = FALSE
  BY DEF StartRecall
<1>3. \A b \in scanned' : InScope(b, r)'
  BY <1>1, <1>2 DEF InScope
<1>4. OneOfAStem(pool)' /\ Stems(pool)' = {}
  BY <1>2 DEF OneOfAStem, Stems
<1> HIDE DEF blocks
<1>5. CASE stage' = "scanned" /\ answer' = {} /\ r.mode = "full" /\ ~r.blank
  <2>1. AnswerSound'
    BY <1>5 DEF AnswerSound, InScopeAndKnown, AnswerIsFull, Answered
  <2> QED
    BY <1>1, <1>2, <1>3, <1>4, <1>5, <2>1 DEF RecallIInv, Ranked
<1>6. ASSUME stage' = "answered",
             NEW T \in SUBSET blocks, NEW kept \in Cuts(T, r.topK),
             answer' = {ChunkId(b) : b \in kept},
             OneOfAStem(T) \/ ~(r.mode = "index" \/ (r.mode = "full" /\ ~r.blank))
      PROVE  RecallIInv'
  <2>1. kept \subseteq T /\ answer' \subseteq ChunkIds /\ kept \subseteq blocks
    <3>1. kept \subseteq T
      BY <1>6, CutIsKnown, <1>1
    <3>2. {ChunkId(b) : b \in kept} \subseteq ChunkIds
      BY <1>1, <1>6, <3>1 DEF ChunkIds
    <3> QED
      BY <1>6, <3>1, <3>2
  <2>2. ASSUME NEW c \in answer', r.mode = "index" \/ (r.mode = "full" /\ ~r.blank),
               NEW d \in answer', d[1] = c[1]
        PROVE  d = c
    <3>1. PICK b \in kept : c = ChunkId(b)
      BY <1>6
    <3>2. PICK e \in kept : d = ChunkId(e)
      BY <1>6
    <3>3. Stem(b) = Stem(e)
      BY <2>2, <3>1, <3>2 DEF ChunkId
    <3> QED
      BY <1>6, <2>1, <2>2, <3>1, <3>2, <3>3 DEF OneOfAStem
  <2>3. ASSUME NEW c \in answer'
        PROVE  c \in registered' /\ \E b \in scanned' : ChunkId(b) = c /\ InScope(b, r)
    <3>1. PICK b \in kept : c = ChunkId(b)
      BY <1>6
    <3> QED
      BY <1>1, <1>2, <2>1, <3>1
  <2>4. InScopeAndKnown'
    <3> SUFFICES ASSUME NEW c \in answer' \intersect ChunkIds
                 PROVE  /\ c \in registered'
                        /\ \E b \in scanned' : ChunkId(b) = c /\ InScope(b, r)
                        /\ (r.mode = "index" \/ (r.mode = "full" /\ ~r.blank)) =>
                              \A d \in answer' : d[1] = c[1] => d = c
      BY <1>2 DEF InScopeAndKnown, InScope, ChunkIds, ChunkId, Stem, AllBlocks, Sections
    <3> QED
      BY <2>2, <2>3
  <2>5. AnswerIsFull'
    BY <1>2 DEF AnswerIsFull
  <2> QED
    BY <1>1, <1>2, <1>3, <1>4, <1>6, <2>1, <2>4, <2>5
    DEF RecallIInv, Ranked, AnswerSound, ChunkIds, ChunkId, Stem, AllBlocks, Sections
<1>7. CASE ~(blocks # {} /\ r.mode = "full" /\ ~r.blank)
  <2>1. CASE r.mode = "index"
    <3>1. PICK T \in OnePerStem(blocks) :
             \E kept \in Cuts(T, r.topK) : answer' = {ChunkId(b) : b \in kept}
      BY <1>7, <2>1 DEF StartRecall, blocks
    <3>2. PICK kept \in Cuts(T, r.topK) : answer' = {ChunkId(b) : b \in kept}
      BY <3>1
    <3>3. T \in SUBSET blocks /\ OneOfAStem(T)
      BY <1>1, OneForEach
    <3>4. stage' = "answered"
      BY <1>7 DEF StartRecall, blocks
    <3> QED
      BY <1>6, <3>2, <3>3, <3>4
  <2>2. CASE r.mode # "index"
    <3>1. PICK kept \in Cuts(blocks, r.topK) : answer' = {ChunkId(b) : b \in kept}
      BY <1>7, <2>2 DEF StartRecall, blocks
    <3>2. OneOfAStem(blocks) \/ ~(r.mode = "index" \/ (r.mode = "full" /\ ~r.blank))
      BY <1>7, <2>2 DEF OneOfAStem
    <3>3. stage' = "answered"
      BY <1>7 DEF StartRecall, blocks
    <3> QED
      BY <1>6, <3>1, <3>2, <3>3
  <2> QED
    BY <2>1, <2>2
<1>8. CASE blocks # {} /\ r.mode = "full" /\ ~r.blank
  BY <1>5, <1>8 DEF StartRecall, blocks
<1> QED
  BY <1>7, <1>8

\* A phase that leaves the call alone and does not answer keeps what is in scope and known.
LEMMA PhaseKeeps ==
    ASSUME RecallIInv, stage \in Ranked, stage' \in Ranked,
           UNCHANGED <<request, scanned, registered, answer>>
    PROVE  /\ request' \in Queries /\ request'.mode = "full" /\ ~request'.blank
           /\ scanned' \subseteq AllBlocks
           /\ (\A b \in scanned : InScope(b, request))'
           /\ (registered = {ChunkId(b) : b \in scanned})'
           /\ (answer \subseteq ChunkIds \union (Vectors \X {0}))'
           /\ AnswerSound'
<1>1. stage' # "answered"
  BY DEF Ranked
<1>2. AnswerSound'
  BY <1>1 DEF AnswerSound, InScopeAndKnown, AnswerIsFull, Answered
<1>3. (\A b \in scanned : InScope(b, request))'
  BY DEF RecallIInv, InScope
<1>4. (registered = {ChunkId(b) : b \in scanned})'
  BY DEF RecallIInv, ChunkId, Stem
<1>5. (answer \subseteq ChunkIds \union (Vectors \X {0}))'
  BY DEF RecallIInv, ChunkIds, ChunkId, Stem, AllBlocks, Sections
<1> QED
  BY <1>2, <1>3, <1>4, <1>5 DEF RecallIInv

LEMMA ScoreKeeps == RecallIInv /\ Score => RecallIInv'
<1> SUFFICES ASSUME RecallIInv, Score PROVE RecallIInv'
  OBVIOUS
<1>1. stage = "scanned" /\ stage' = "scored"
      /\ UNCHANGED <<request, scanned, registered, gated, answer>>
  BY DEF Score
<1>2. PICK hits \in SUBSET scanned : matched' = Stems(hits) /\ pool' \in OnePerStem(hits)
  BY DEF Score
<1>3. hits \in SUBSET AllBlocks
  BY DEF RecallIInv
<1>4. pool' \subseteq hits /\ Stems(pool') = Stems(hits) /\ OneOfAStem(pool')
  BY <1>2, <1>3, OneForEach
<1>5. matched' \subseteq Stems(scanned') /\ Stems(pool)' = matched' /\ OneOfAStem(pool)'
  BY <1>1, <1>2, <1>4 DEF Stems, Stem, OneOfAStem
<1>6. gated' \in BOOLEAN /\ pool' \subseteq scanned'
  BY <1>1, <1>2, <1>4 DEF RecallIInv
<1> QED
  BY <1>1, <1>5, <1>6, PhaseKeeps DEF RecallIInv, Ranked

LEMMA BlendKeeps == RecallIInv /\ Blend => RecallIInv'
<1> SUFFICES ASSUME RecallIInv, Blend PROVE RecallIInv'
  OBVIOUS
<1>1. stage = "scored" /\ stage' = "blended"
      /\ UNCHANGED <<request, scanned, registered, matched, gated, answer>>
  BY DEF Blend
<1>2. pool' = pool
  BY DEF Blend, Fused
<1>3. /\ matched' \subseteq Stems(scanned') /\ Stems(pool)' = matched'
      /\ OneOfAStem(pool)' /\ gated' \in BOOLEAN /\ pool' \subseteq scanned'
  BY <1>1, <1>2 DEF RecallIInv, Stems, Stem, OneOfAStem
<1> QED
  BY <1>1, <1>3, PhaseKeeps DEF RecallIInv, Ranked

LEMMA GateKeeps == RecallIInv /\ Gate => RecallIInv'
<1> SUFFICES ASSUME RecallIInv, Gate PROVE RecallIInv'
  OBVIOUS
<1>1. stage = "blended" /\ stage' = "gated"
      /\ UNCHANGED <<request, scanned, registered, matched, answer>>
  BY DEF Gate
<1>2. PICK survivors \in SUBSET pool :
         /\ pool' = IF survivors = {} THEN pool ELSE survivors
         /\ gated' = (survivors \notin {{}, pool})
  BY DEF Gate
<1>3. /\ matched' \subseteq Stems(scanned') /\ OneOfAStem(pool)'
      /\ gated' \in BOOLEAN /\ pool' \subseteq scanned'
  BY <1>1, <1>2 DEF RecallIInv, Stems, Stem, OneOfAStem
<1>4. Stems(pool) = matched
  BY <1>1 DEF RecallIInv
<1>5. matched' # {} => pool' # {}
  BY <1>1, <1>2, <1>4 DEF Stems
<1>6. ~gated' => Stems(pool)' = matched'
  BY <1>1, <1>2, <1>4 DEF Stems, Stem
<1> QED
  BY <1>1, <1>3, <1>5, <1>6, PhaseKeeps DEF RecallIInv, Ranked

LEMMA RerankKeeps == RecallIInv /\ Rerank => RecallIInv'
<1> SUFFICES ASSUME RecallIInv, Rerank PROVE RecallIInv'
  OBVIOUS
<1>1. stage = "gated" /\ stage' = "ranked"
      /\ UNCHANGED <<request, scanned, registered, matched, gated, answer>>
  BY DEF Rerank
<1>2. PICK chosen \in SUBSET pool :
         /\ Cardinality(chosen) <= request.topK
         /\ pool' \in Filled(chosen, pool, request.topK)
  BY DEF Rerank
<1>3. pool \in SUBSET AllBlocks /\ request.topK \in Nat \ {0} /\ OneOfAStem(pool)
  BY QueryFields DEF RecallIInv
<1>4. pool' \subseteq pool /\ Cardinality(pool') = Lesser(request.topK, Cardinality(pool))
  BY <1>2, <1>3, FilledIsFull
<1>5. /\ matched' \subseteq Stems(scanned') /\ OneOfAStem(pool)'
      /\ gated' \in BOOLEAN /\ pool' \subseteq scanned'
  BY <1>1, <1>4 DEF RecallIInv, Stems, Stem, OneOfAStem
<1>6. matched' # {} => pool' # {}
  <2> SUFFICES ASSUME matched # {}, pool' = {} PROVE FALSE
    BY <1>1
  <2>1. pool # {} /\ Cardinality(pool) \in Nat /\ Cardinality(pool) # 0
    BY <1>1, <1>3, BlocksFinite, FS_EmptySet DEF RecallIInv
  <2>2. Cardinality(pool') = 0
    BY FS_EmptySet
  <2> QED
    BY <1>3, <1>4, <2>1, <2>2 DEF Lesser
<1>7. ~gated' => Cardinality(pool') >= Lesser(request'.topK, Cardinality(matched'))
  <2> SUFFICES ASSUME ~gated
               PROVE  Cardinality(pool') >= Lesser(request.topK, Cardinality(matched))
    BY <1>1
  <2>1. Stems(pool) = matched
    BY <1>1 DEF RecallIInv
  <2>2. Cardinality(matched) = Cardinality(pool) /\ Cardinality(pool) \in Nat
    BY <1>3, <2>1, AsManyIds, BlocksFinite
  <2> QED
    BY <1>3, <1>4, <2>2, LesserFacts
<1> QED
  BY <1>1, <1>5, <1>6, <1>7, PhaseKeeps DEF RecallIInv, Ranked

LEMMA AnswerKeeps == RecallIInv /\ AnswerRecall => RecallIInv'
<1> SUFFICES ASSUME RecallIInv, AnswerRecall PROVE RecallIInv'
  OBVIOUS
<1> DEFINE Ids == {ChunkId(b) : b \in pool}
<1>1. stage = "ranked" /\ stage' = "answered"
      /\ UNCHANGED <<request, scanned, registered, matched, pool, gated>>
  BY DEF AnswerRecall
<1>2. PICK hits \in SUBSET Vectors : answer' \in Cuts(WithHits(pool, hits), request.topK)
  BY DEF AnswerRecall
<1> DEFINE Extra == {<<v, 0>> : v \in hits \ Stems(pool)}
           All == WithHits(pool, hits)
<1>3. pool \in SUBSET AllBlocks /\ request.topK \in Nat \ {0} /\ OneOfAStem(pool)
      /\ pool \subseteq scanned
  BY QueryFields DEF RecallIInv
<1>4. All = Ids \union Extra
  BY DEF WithHits
<1>5. IsFiniteSet(Extra)
  <2> DEFINE V == hits \ Stems(pool)
             f == [v \in V |-> <<v, 0>>]
  <2>1. IsFiniteSet(V)
    BY RecallAssumption, FS_Subset
  <2>2. f \in Surjection(V, Extra)
    BY DEF Surjection
  <2> QED
    BY <2>1, <2>2, FS_Surjection
<1>6. IsFiniteSet(Ids) /\ Cardinality(Ids) = Cardinality(pool) /\ Cardinality(pool) \in Nat
  BY <1>3, AsManyIds, BlocksFinite
<1>7. IsFiniteSet(All) /\ Cardinality(All) \in Nat /\ Cardinality(All) >= Cardinality(pool)
  <2>1. IsFiniteSet(All)
    BY <1>4, <1>5, <1>6, FS_Union
  <2>2. Ids \in SUBSET All
    BY <1>4
  <2>3. Cardinality(Ids) <= Cardinality(All)
    BY <2>1, <2>2, FS_Subset
  <2> QED
    BY <1>6, <2>1, <2>3, FS_CardinalityType
<1>8. answer' \subseteq All /\ Cardinality(answer') = Lesser(request.topK, Cardinality(All))
  BY <1>2 DEF Cuts
<1>9. AnswerIsFull'
  <2> SUFFICES ASSUME matched # {}
               PROVE  /\ Cardinality(answer') \in 1..request.topK
                      /\ ~gated => Cardinality(answer') >=
                                      Lesser(request.topK, Cardinality(matched))
    BY <1>1 DEF AnswerIsFull
  <2>1. Cardinality(pool) >= 1
    BY <1>1, <1>3, <1>6, BlocksFinite, FS_EmptySet DEF RecallIInv
  <2>2. Cardinality(answer') \in 1..request.topK
    BY <1>3, <1>6, <1>7, <1>8, <2>1 DEF Lesser
  <2>3. ASSUME ~gated
        PROVE  Cardinality(answer') >= Lesser(request.topK, Cardinality(matched))
    <3>1. Cardinality(pool) >= Lesser(request.topK, Cardinality(matched))
      BY <1>1, <2>3 DEF RecallIInv
    <3>2. Cardinality(matched) \in Nat
      <4>1. matched \subseteq Stems(scanned) /\ scanned \in SUBSET AllBlocks
        BY DEF RecallIInv
      <4> DEFINE g == [b \in scanned |-> Stem(b)]
      <4>2. g \in Surjection(scanned, Stems(scanned)) /\ IsFiniteSet(scanned)
        BY <4>1, BlocksFinite DEF Surjection, Stems
      <4>3. IsFiniteSet(Stems(scanned))
        BY <4>2, FS_Surjection
      <4> QED
        BY <4>1, <4>3, FS_Subset, FS_CardinalityType
    <3> QED
      BY <1>3, <1>6, <1>7, <1>8, <3>1, <3>2 DEF Lesser
  <2> QED
    BY <2>2, <2>3
<1>10. InScopeAndKnown'
  <2> SUFFICES ASSUME NEW c \in answer' \intersect ChunkIds
               PROVE  /\ c \in registered
                      /\ \E b \in scanned : ChunkId(b) = c /\ InScope(b, request)
                      /\ \A d \in answer' : d[1] = c[1] => d = c
    BY <1>1 DEF InScopeAndKnown, InScope, ChunkIds, ChunkId, Stem, AllBlocks, Sections
  <2>1. PICK b \in pool : c = ChunkId(b)
    <3>1. c \notin Extra
      <4>1. PICK e \in AllBlocks : c = <<Stem(e), e.at>>
        BY DEF ChunkIds, ChunkId
      <4> QED
        BY <4>1, BlockFields
    <3> QED
      BY <1>4, <1>8, <3>1
  <2>2. c \in registered /\ ChunkId(b) = c /\ InScope(b, request) /\ b \in scanned
    BY <1>3, <2>1 DEF RecallIInv
  <2>3. ASSUME NEW d \in answer', d[1] = c[1] PROVE d = c
    <3>1. c[1] = Stem(b)
      BY <2>1 DEF ChunkId
    <3>2. CASE d \in Ids
      <4>1. PICK e \in pool : d = ChunkId(e)
        BY <3>2
      <4>2. Stem(e) = Stem(b)
        BY <2>3, <3>1, <4>1 DEF ChunkId
      <4> QED
        BY <1>3, <2>1, <4>1, <4>2 DEF OneOfAStem
    <3>3. CASE d \in Extra
      <4>1. d[1] \notin Stems(pool)
        BY <3>3
      <4> QED
        BY <2>3, <3>1, <4>1 DEF Stems
    <3> QED
      BY <1>4, <1>8, <3>2, <3>3
  <2> QED
    BY <2>2, <2>3
<1>11. answer' \subseteq ChunkIds \union (Vectors \X {0})
  <2>1. Ids \subseteq ChunkIds
    BY <1>3 DEF ChunkIds
  <2> QED
    BY <1>2, <1>4, <1>8, <2>1
<1>12. /\ (\A b \in scanned : InScope(b, request))'
       /\ (registered = {ChunkId(b) : b \in scanned})'
       /\ OneOfAStem(pool)' /\ (matched \subseteq Stems(scanned))'
       /\ (answer \subseteq ChunkIds \union (Vectors \X {0}))'
  BY <1>1, <1>11 DEF RecallIInv, InScope, OneOfAStem, Stems, ChunkIds, ChunkId, Stem,
                     AllBlocks, Sections
<1>13. AnswerSound'
  BY <1>9, <1>10 DEF AnswerSound
<1> QED
  BY <1>1, <1>12, <1>13 DEF RecallIInv, Ranked

LEMMA RecallStays == RecallIInv /\ UNCHANGED recallVars => RecallIInv'
BY DEF recallVars, RecallIInv, InScope, OneOfAStem, Stems, ChunkIds, ChunkId, Stem, AllBlocks,
       Sections, AnswerSound, InScopeAndKnown, AnswerIsFull, Answered

\* At every phase of a recall the candidates are in scope, registered and one of a stem, and,
\* until the gates reject some, of every stem that matched.
THEOREM RecallInvariance == RecallSpec => []RecallIInv
<1>1. RecallInit => RecallIInv
  BY RecallStarts
<1>2. RecallIInv /\ [RecallNext]_recallVars => RecallIInv'
  BY CallKeeps, ScoreKeeps, BlendKeeps, GateKeeps, RerankKeeps, AnswerKeeps, RecallStays
  DEF RecallNext
<1> QED
  BY <1>1, <1>2, PTL DEF RecallSpec

\* What a recall answers is in scope, can be given feedback, and is as much as there is,
\* whichever phases failed and whatever the vector index adds.  (_tool_recall_impl.)
THEOREM RecallIsSound == RecallSpec => []AnswerSound
<1>1. RecallIInv => AnswerSound
  BY DEF RecallIInv
<1> QED
  BY <1>1, RecallInvariance, PTL
=============================================================================
