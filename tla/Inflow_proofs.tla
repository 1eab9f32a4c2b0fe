---------------------------- MODULE Inflow_proofs ----------------------------
(***************************************************************************)
(* Proofs about what flows in: documents of connectors (DocumentIngest)    *)
(* and publications on the bus with the register of projects (Publishing), *)
(* alone and beside the other services (MCServices).                       *)
(***************************************************************************)
EXTENDS MCServices, FiniteSetTheorems, SequenceTheorems,
        WellFoundedInduction, NaturalsInduction, TLAPS

-----------------------------------------------------------------------------
(* Smallest and largest                                                    *)

LEMMA LeastOne ==
    ASSUME NEW S \in SUBSET Nat, S # {}
    PROVE  \E x \in S : \A y \in S : x <= y
<1>1. PICK x \in S : \A y \in S : ~(<<y, x>> \in OpToRel(<, Nat))
  BY NatLessThanWellFounded, WFMin
<1>2. \A y \in S : ~(y < x) BY <1>1 DEF OpToRel
<1>3. QED BY <1>2

LEMMA MinIsLeast ==
    ASSUME NEW S \in SUBSET Nat, S # {}
    PROVE  Min(S) \in S /\ \A y \in S : Min(S) <= y
BY LeastOne DEF Min

LEMMA MaxIsGreatest ==
    ASSUME NEW m \in Nat, NEW S \in SUBSET (0..m), S # {}
    PROVE  Max(S) \in S /\ \A y \in S : Max(S) >= y
<1> DEFINE mirrored == {m - x : x \in S}
<1>1. \A x \in S : x \in Nat /\ x <= m /\ m - x \in Nat OBVIOUS
<1>2. \A z \in mirrored : z \in Nat BY <1>1
<1>3. mirrored \subseteq Nat /\ mirrored # {} BY <1>2
<1>4. PICK z \in mirrored : \A y \in mirrored : z <= y BY <1>3, LeastOne
<1>5. PICK x \in S : z = m - x BY <1>4
<1>6. \A y \in S : x >= y BY <1>1, <1>4, <1>5
<1>7. QED BY <1>6 DEF Max

-----------------------------------------------------------------------------
(* Documents                                                               *)

\* The pieces of a text cover it.
LEMMA ChunksCover == \A n \in Nat : Covers(Chunks(n), n)
<1> TAKE n \in Nat
<1> DEFINE step == ChunkLength - Overlap
           from(i) == (i - 1) * step
           ends == {i \in 1..n : (i - 1) * step + ChunkLength >= n}
           last == Min(ends)
           P == PiecesTo(n, last)
<1>1. /\ ChunkLength \in Nat /\ ChunkLength >= 1 /\ Overlap \in Nat /\ step \in Nat
      /\ step >= 1 /\ step <= ChunkLength /\ ChunkLength - step = Overlap
  BY IngestBounds
<1> HIDE DEF step
<1>2. CASE n = 0
  <2>1. Chunks(n) = <<>> BY <1>2 DEF Chunks
  <2>2. \A i \in DOMAIN (<<>>) : FALSE OBVIOUS
  <2>3. Len(<<>>) = 0 OBVIOUS
  <2>4. \A i \in 1..Len(<<>>) - 1 : FALSE BY <2>3
  <2>5. QED BY <1>2, <2>1, <2>2, <2>4 DEF Covers
<1>3. CASE n # 0
  <2>1. n \in ends
    <3>1. n - 1 \in Nat /\ n \in 1..n BY <1>3
    <3>2. \A a, b \in Nat : b >= 1 => a * b >= a OBVIOUS
    <3>3. (n - 1) * step >= n - 1 BY <1>1, <3>1, <3>2
    <3>4. (n - 1) * step \in Int BY <1>1, <3>1
    <3>5. QED BY <1>1, <3>1, <3>3, <3>4
  <2>2. /\ last \in 1..n /\ from(last) + ChunkLength >= n
        /\ \A i \in 1..n : i < last => ~(from(i) + ChunkLength >= n)
    <3>1. ends \subseteq Nat /\ ends # {} BY <2>1
    <3>2. last \in ends /\ \A i \in ends : last <= i BY <3>1, MinIsLeast
    <3> HIDE DEF last
    <3>3. QED BY <3>2
  <2>3. \A i \in 1..n : from(i) \in Nat
    <3>1. \A a, b \in Nat : a * b \in Nat OBVIOUS
    <3>2. \A i \in 1..n : i - 1 \in Nat OBVIOUS
    <3>3. QED BY <1>1, <3>1, <3>2
  <2>4. \A i \in 1..n : i + 1 \in 1..n => from(i + 1) = from(i) + step
    <3>1. \A a, b \in Int : ((a + 1) - 1) * b = (a - 1) * b + b OBVIOUS
    <3>2. QED BY <1>1, <3>1
  <2>5. from(1) = 0 BY <1>1
  <2> HIDE DEF from, last
  <2>6. \A i \in 1..last : i \in 1..n BY <2>2
  <2>7. from(last) < n
    <3>1. CASE last = 1 BY <1>3, <2>5, <3>1
    <3>2. CASE last # 1
      <4>1. last - 1 \in 1..n /\ last - 1 < last /\ (last - 1) + 1 = last BY <2>2, <3>2
      <4>2. from(last) = from(last - 1) + step BY <2>4, <4>1, <2>2
      <4>3. ~(from(last - 1) + ChunkLength >= n) BY <2>2, <4>1
      <4>4. from(last - 1) \in Nat BY <2>3, <4>1
      <4>5. QED BY <1>1, <4>2, <4>3, <4>4
    <3>3. QED BY <3>1, <3>2
  <2>8. \A a, b \in Nat : /\ a <= b => Min({a, b}) = a
                          /\ b <= a => Min({a, b}) = b
    <3> TAKE a, b \in Nat
    <3>1. {a, b} \in SUBSET Nat /\ {a, b} # {} OBVIOUS
    <3>2. Min({a, b}) \in {a, b} /\ \A y \in {a, b} : Min({a, b}) <= y
      BY <3>1, MinIsLeast
    <3> DEFINE m == Min({a, b})
    <3> HIDE DEF m
    <3>3. (m = a \/ m = b) /\ m <= a /\ m <= b BY <3>2 DEF m
    <3>4. (a <= b => m = a) /\ (b <= a => m = b) BY <3>3
    <3>5. QED BY <3>4 DEF m
  <2>9. P = [i \in 1..last |-> <<from(i), Min({from(i) + ChunkLength, n})>>]
    BY DEF PiecesTo, from, step
  <2> HIDE DEF P
  <2>10. /\ last \in Nat /\ last >= 1 /\ DOMAIN P = 1..last /\ Len(P) = last
         /\ P \in Seq(Int \X Int)
    <3>1. last \in Nat /\ last >= 1 BY <2>2
    <3>2. \A i \in 1..last : from(i) \in Int /\ Min({from(i) + ChunkLength, n}) \in Int
      <4>1. \A i \in 1..last : from(i) \in Nat /\ from(i) + ChunkLength \in Nat
        BY <1>1, <2>3, <2>6
      <4>2. \A a \in Nat : Min({a, n}) \in Int BY <2>8
      <4>3. QED BY <4>1, <4>2
    <3>3. \A i \in 1..last :
             <<from(i), Min({from(i) + ChunkLength, n})>> \in Int \X Int
      BY <3>2
    <3>4. QED BY <2>9, <3>1, <3>3, IsASeq
  <2>11. \A i \in 1..last : i < last =>
            P[i][1] = from(i) /\ P[i][2] = from(i) + ChunkLength
    <3> SUFFICES ASSUME NEW i \in 1..last, i < last
                 PROVE  P[i][1] = from(i) /\ P[i][2] = from(i) + ChunkLength
      OBVIOUS
    <3>1. from(i) + ChunkLength \in Nat /\ from(i) + ChunkLength <= n
      BY <1>1, <2>2, <2>3, <2>6
    <3>2. Min({from(i) + ChunkLength, n}) = from(i) + ChunkLength BY <2>8, <3>1
    <3>3. QED BY <2>9, <3>2
  <2>12. P[last][1] = from(last) /\ P[last][2] = n
    <3>1. from(last) + ChunkLength \in Nat /\ n <= from(last) + ChunkLength /\ last \in 1..last
      BY <1>1, <2>2, <2>3, <2>10
    <3>2. Min({from(last) + ChunkLength, n}) = n BY <2>8, <3>1
    <3>3. QED BY <2>9, <3>1, <3>2
  <2>13. P # <<>> /\ P[1][1] = 0 /\ Last(P)[2] = n
    <3>1. P # <<>> BY <2>10
    <3>2. P[1][1] = 0
      <4>1. CASE last = 1 BY <2>5, <2>12, <4>1
      <4>2. CASE last # 1 BY <2>5, <2>10, <2>11, <4>2
      <4>3. QED BY <4>1, <4>2
    <3>3. Last(P)[2] = n BY <2>10, <2>12 DEF Last
    <3>4. QED BY <3>1, <3>2, <3>3
  <2>14. \A i \in DOMAIN P : P[i][1] < P[i][2] /\ P[i][2] - P[i][1] <= ChunkLength
    <3> SUFFICES ASSUME NEW i \in 1..last
                 PROVE  P[i][1] < P[i][2] /\ P[i][2] - P[i][1] <= ChunkLength
      BY <2>10
    <3>1. from(i) \in Nat BY <2>3, <2>6
    <3>2. CASE i < last BY <1>1, <2>11, <3>1, <3>2
    <3>3. CASE ~(i < last)
      <4>1. i = last BY <2>10, <3>3
      <4>2. QED BY <1>1, <2>2, <2>7, <2>12, <3>1, <4>1 DEF from
    <3>4. QED BY <3>2, <3>3
  <2>15. \A i \in 1..Len(P) - 1 : P[i][2] - P[i + 1][1] = Overlap
    <3> SUFFICES ASSUME NEW i \in 1..last - 1 PROVE P[i][2] - P[i + 1][1] = Overlap
      BY <2>10
    <3>1. i \in 1..last /\ i < last /\ i + 1 \in 1..last BY <2>10
    <3>2. P[i + 1][1] = from(i + 1) BY <2>11, <2>12, <2>10, <3>1
    <3>3. from(i) \in Nat /\ from(i + 1) = from(i) + step BY <2>3, <2>4, <2>6, <3>1
    <3>4. P[i][2] = from(i) + ChunkLength BY <2>11, <3>1
    <3>5. QED BY <1>1, <3>2, <3>3, <3>4
  <2>16. P = Chunks(n) BY <1>3 DEF P, last, Chunks, step
  <2>17. QED BY <2>13, <2>14, <2>15, <2>16 DEF Covers
<1>4. QED BY <1>2, <1>3

\* What runs hold, and what is stored.
Fates == {"stored", "failed", "swapped"}
Reading == [pc : {"check", "parse"}, data : Contents]
Skipped == [pc : {"skipped"}, data : Contents, stored : Contents \union {0}, fate : Fates]
Holding ==
    {IdleRun} \union Reading \union Skipped
        \union {[pc |-> "store", data |-> d, content |-> c, chunks |-> Chunks(LengthOf[c])] :
                  d \in Contents, c \in Contents}
StoredOf ==
    {[content |-> 0, chunks |-> <<>>]}
        \union {[content |-> c, chunks |-> Chunks(LengthOf[c])] : c \in Contents}
UnderWay(r) == running[r].pc \in {"check", "parse", "store"}
Recorded(r) == running[r].pc \in {"parse", "store"}

IngestTyped ==
    /\ body \in [IngestFiles -> Contents \union {NoBody}]
    /\ hashes \in [IngestFiles -> Contents \union {NoRow, NoHashYet}]
    /\ ingested \in [IngestFiles -> StoredOf]
    /\ running \in [Runs -> Holding]
    /\ purging \subseteq IngestFiles /\ quarantined \subseteq IngestFiles
    /\ started \in 0..MaxStarted /\ fate \in [IngestFiles -> Fates]

\* One run at a time on a file.
RunsApart ==
    \A q, r \in Runs : FileOfRun[q] = FileOfRun[r] /\ UnderWay(q) /\ UnderWay(r) => q = r
\* A hash is that of what is stored, or of what is on its way, or its run ended badly.
HashFollows ==
    /\ \A r \in Runs : Recorded(r) =>
          hashes[FileOfRun[r]] \in {running[r].data, NoRow, NoHashYet}
    /\ \A f \in IngestFiles : hashes[f] \in Contents =>
          \/ fate[f] = "stored" => ingested[f].content = hashes[f]
          \/ \E r \in Runs : FileOfRun[r] = f /\ Recorded(r) /\ running[r].data = hashes[f]

IngestIInv == IngestTyped /\ RunsApart /\ HashFollows /\ SkipIsJustified

LEMMA HoldingFacts ==
    /\ IdleRun.pc = "idle"
    /\ \A h \in Holding :
          /\ h.pc \in {"idle", "check", "parse", "store", "skipped"}
          /\ h.pc \in {"check", "parse"} => h \in Reading
          /\ h.pc = "store" => /\ h.data \in Contents /\ h.content \in Contents
                               /\ h.chunks = Chunks(LengthOf[h.content])
<1>1. IdleRun.pc = "idle" BY DEF IdleRun
<1>2. ASSUME NEW h \in Reading PROVE h.pc \in {"check", "parse"} BY DEF Reading
<1>3. ASSUME NEW h \in Skipped PROVE h.pc = "skipped" BY DEF Skipped
<1>4. ASSUME NEW d \in Contents, NEW c \in Contents
      PROVE  LET h == [pc |-> "store", data |-> d, content |-> c, chunks |-> Chunks(LengthOf[c])]
             IN  /\ h.pc = "store" /\ h.data \in Contents
                 /\ h.content \in Contents /\ h.chunks = Chunks(LengthOf[h.content])
  OBVIOUS
<1>5. ASSUME NEW h \in Holding
      PROVE  /\ h.pc \in {"idle", "check", "parse", "store", "skipped"}
             /\ h.pc \in {"check", "parse"} => h \in Reading
             /\ h.pc = "store" => /\ h.data \in Contents /\ h.content \in Contents
                                  /\ h.chunks = Chunks(LengthOf[h.content])
  <2>1. CASE h = IdleRun BY <1>1, <2>1
  <2>2. CASE h \in Reading BY <1>2, <2>2
  <2>3. CASE h \in Skipped BY <1>3, <2>3
  <2>4. CASE h \in {[pc |-> "store", data |-> d, content |-> c,
                     chunks |-> Chunks(LengthOf[c])] : d \in Contents, c \in Contents}
    <3>1. PICK d \in Contents, c \in Contents :
             h = [pc |-> "store", data |-> d, content |-> c, chunks |-> Chunks(LengthOf[c])]
      BY <2>4
    <3>2. QED BY <1>4, <3>1
  <2>5. QED BY <2>1, <2>2, <2>3, <2>4 DEF Holding
<1>6. QED BY <1>1, <1>5

LEMMA ContentsAre ==
    /\ \A c \in Contents : c \in Nat /\ c >= 1
    /\ 1 \in Contents
    /\ NoBody = 0 /\ NoRow = -1 /\ NoHashYet = 0
<1>1. Cardinality(Contents) \in Nat /\ Contents = 1..Cardinality(Contents)
  BY IngestBounds, FS_CardinalityType
<1>2. QED BY <1>1, IngestBounds DEF NoBody, NoRow, NoHashYet

LEMMA IngestInitIInv == IngestInit => IngestIInv
<1> SUFFICES ASSUME IngestInit PROVE IngestIInv OBVIOUS
<1>1. \A r \in Runs : running[r] = IdleRun /\ running[r].pc = "idle" BY HoldingFacts DEF IngestInit
<1>2. IngestTyped
  <2>1. body \in [IngestFiles -> Contents \union {NoBody}]
    BY ContentsAre DEF IngestInit
  <2>2. running \in [Runs -> Holding] BY DEF IngestInit, Holding
  <2>3. ingested \in [IngestFiles -> StoredOf] BY DEF IngestInit, StoredOf
  <2>4. started \in 0..MaxStarted BY IngestBounds DEF IngestInit
  <2>5. fate \in [IngestFiles -> Fates] BY DEF IngestInit, Fates
  <2>6. QED BY <2>1, <2>2, <2>3, <2>4, <2>5 DEF IngestInit, IngestTyped
<1>3. \A f \in IngestFiles : hashes[f] \notin Contents BY ContentsAre DEF IngestInit
<1>4. QED BY <1>1, <1>2, <1>3 DEF IngestIInv, RunsApart, HashFollows, SkipIsJustified,
                UnderWay, Recorded

\* A step that changes one run leaves the others.
LEMMA OneRuns ==
    ASSUME IngestTyped, NEW r \in Runs, NEW next, running' = [running EXCEPT ![r] = next]
    PROVE  /\ running'[r] = next /\ \A q \in Runs : q # r => running'[q] = running[q]
           /\ next \in Holding => running' \in [Runs -> Holding]
BY DEF IngestTyped

LEMMA ReadBytesKeeps ==
    ASSUME IngestIInv, NEW r \in Runs, ReadBytes(r)
    PROVE  IngestIInv'
<1> USE DEF IngestIInv
<1> DEFINE f == FileOfRun[r]
           next == [pc |-> "check", data |-> body[f]]
<1>1. /\ running[r].pc \in {"idle", "skipped"} /\ started < MaxStarted
      /\ \A q \in Runs \ {r} : FileOfRun[q] = f => running[q].pc \in {"idle", "skipped"}
      /\ body[f] # NoBody /\ running' = [running EXCEPT ![r] = next] /\ started' = started + 1
      /\ UNCHANGED <<body, hashes, ingested, purging, quarantined, fate>>
  BY DEF ReadBytes
<1>2. f \in IngestFiles /\ body[f] \in Contents BY <1>1 DEF IngestFiles, IngestTyped
<1>3. next \in Holding /\ next.pc = "check" /\ next.data = body[f] BY <1>2 DEF Holding, Reading
<1> HIDE DEF next
<1>4. /\ running'[r] = next /\ \A q \in Runs : q # r => running'[q] = running[q]
      /\ running' \in [Runs -> Holding]
  BY <1>1, <1>3, OneRuns
<1>5. IngestTyped'
  <2>1. started' \in 0..MaxStarted BY <1>1, IngestBounds DEF IngestTyped
  <2>2. QED BY <1>1, <1>4, <2>1 DEF IngestTyped
<1>6. RunsApart' BY <1>1, <1>3, <1>4 DEF RunsApart, UnderWay
<1>7. HashFollows'
  <2>1. \A q \in Runs : Recorded(q)' <=> Recorded(q) BY <1>1, <1>3, <1>4 DEF Recorded
  <2>2. \A q \in Runs : Recorded(q) => running'[q] = running[q] BY <1>1, <1>4 DEF Recorded
  <2>3. QED BY <1>1, <2>1, <2>2 DEF HashFollows
<1>8. SkipIsJustified' BY <1>1, <1>3, <1>4 DEF SkipIsJustified
<1>9. QED BY <1>5, <1>6, <1>7, <1>8

LEMMA CheckHashKeeps ==
    ASSUME IngestIInv, NEW r \in Runs, CheckHash(r)
    PROVE  IngestIInv'
<1> USE DEF IngestIInv
<1> DEFINE f == FileOfRun[r]
           rec == running[r]
           skips == [pc |-> "skipped", data |-> rec.data, stored |-> ingested[f].content,
                     fate |-> fate[f]]
           parses == [rec EXCEPT !.pc = "parse"]
<1>1. /\ rec.pc = "check" /\ UNCHANGED <<body, ingested, purging, quarantined, started, fate>>
      /\ \/ /\ hashes[f] = rec.data /\ hashes' = hashes
            /\ running' = [running EXCEPT ![r] = skips]
         \/ /\ hashes' = [hashes EXCEPT ![f] = rec.data]
            /\ running' = [running EXCEPT ![r] = parses]
  <2>1. r \in DOMAIN running BY DEF IngestTyped
  <2>2. QED BY <2>1 DEF CheckHash, Known
<1>2. rec \in Reading /\ f \in IngestFiles
  BY <1>1, HoldingFacts DEF IngestTyped, IngestFiles
<1>3. rec.data \in Contents BY <1>2 DEF Reading
<1>4. skips \in Holding
  <2>1. ingested[f] \in StoredOf /\ fate[f] \in Fates BY <1>2 DEF IngestTyped
  <2>2. ingested[f].content \in Contents \union {0}
    <3>1. \A x \in StoredOf : x.content \in Contents \union {0} BY Z3 DEF StoredOf
    <3>2. QED BY <2>1, <3>1
  <2>3. QED BY <1>3, <2>1, <2>2 DEF Holding, Skipped
<1>5. parses \in Holding /\ parses.pc = "parse" /\ parses.data = rec.data
  BY <1>2 DEF Holding, Reading
<1>6. /\ skips.pc = "skipped" /\ skips.data = rec.data
      /\ skips.stored = ingested[f].content /\ skips.fate = fate[f]
  OBVIOUS
<1> HIDE DEF skips, parses
<1>7. \A q \in Runs : Recorded(q) /\ FileOfRun[q] = f => FALSE
  BY <1>1 DEF RunsApart, UnderWay, Recorded
<1>8. CASE hashes[f] = rec.data /\ hashes' = hashes /\ running' = [running EXCEPT ![r] = skips]
  <2>1. /\ running'[r] = skips /\ \A q \in Runs : q # r => running'[q] = running[q]
        /\ running' \in [Runs -> Holding]
    BY <1>4, <1>8, OneRuns
  <2>2. IngestTyped' BY <1>1, <1>8, <2>1 DEF IngestTyped
  <2>3. RunsApart' BY <1>1, <1>6, <2>1 DEF RunsApart, UnderWay
  <2>4. \A q \in Runs : Recorded(q)' <=> Recorded(q) BY <1>1, <1>6, <2>1 DEF Recorded
  <2>5. \A q \in Runs : Recorded(q) => running'[q] = running[q] BY <1>1, <2>1 DEF Recorded
  <2>6. HashFollows' BY <1>1, <1>8, <2>4, <2>5 DEF HashFollows
  <2>7. fate[f] = "stored" => ingested[f].content = rec.data
    BY <1>2, <1>3, <1>7, <1>8 DEF HashFollows
  <2>8. SkipIsJustified' BY <1>6, <2>1, <2>7 DEF SkipIsJustified
  <2>9. QED BY <2>2, <2>3, <2>6, <2>8
<1>9. CASE hashes' = [hashes EXCEPT ![f] = rec.data] /\ running' = [running EXCEPT ![r] = parses]
  <2>1. /\ running'[r] = parses /\ \A q \in Runs : q # r => running'[q] = running[q]
        /\ running' \in [Runs -> Holding]
    BY <1>5, <1>9, OneRuns
  <2>2. /\ hashes'[f] = rec.data /\ hashes' \in [IngestFiles -> Contents \union {NoRow, NoHashYet}]
        /\ \A g \in IngestFiles : g # f => hashes'[g] = hashes[g]
    BY <1>2, <1>3, <1>9 DEF IngestTyped
  <2>3. IngestTyped' BY <1>1, <2>1, <2>2 DEF IngestTyped
  <2>4. RunsApart' BY <1>1, <1>5, <2>1 DEF RunsApart, UnderWay
  <2>5. SkipIsJustified' BY <1>5, <2>1 DEF SkipIsJustified
  <2>6. \A q \in Runs : FileOfRun[q] \in IngestFiles BY DEF IngestFiles
  <2>7. \A q \in Runs : q # r => (Recorded(q)' <=> Recorded(q)) BY <2>1 DEF Recorded
  <2>8. Recorded(r)' /\ running'[r].data = rec.data BY <1>5, <2>1 DEF Recorded
  <2>9. \A q \in Runs : Recorded(q)' =>
           hashes'[FileOfRun[q]] \in {running'[q].data, NoRow, NoHashYet}
    BY <1>7, <2>1, <2>2, <2>6, <2>7, <2>8 DEF HashFollows
  <2>10. ASSUME NEW g \in IngestFiles, hashes'[g] \in Contents
         PROVE  \/ fate[g] = "stored" => ingested[g].content = hashes'[g]
                \/ \E q \in Runs : FileOfRun[q] = g /\ Recorded(q)'
                                  /\ running'[q].data = hashes'[g]
    <3>1. CASE g = f BY <2>2, <2>8, <3>1
    <3>2. CASE g # f
      <4>1. hashes'[g] = hashes[g] BY <2>2, <3>2
      <4>2. CASE \E q \in Runs : FileOfRun[q] = g /\ Recorded(q)
                                /\ running[q].data = hashes[g]
        <5>1. PICK q \in Runs : FileOfRun[q] = g /\ Recorded(q) /\ running[q].data = hashes[g]
          BY <4>2
        <5>2. q # r BY <3>2, <5>1
        <5>3. QED BY <2>1, <2>7, <4>1, <5>1, <5>2
      <4>3. QED BY <2>10, <4>1, <4>2 DEF HashFollows
    <3>3. QED BY <3>1, <3>2
  <2>11. HashFollows' BY <1>1, <2>9, <2>10 DEF HashFollows
  <2>12. QED BY <2>3, <2>4, <2>5, <2>11
<1>10. QED BY <1>1, <1>8, <1>9

\* A run that ends without storing: if it had recorded its hash, it failed.
LEMMA RunEnds ==
    ASSUME IngestIInv, NEW r \in Runs, running' = [running EXCEPT ![r] = IdleRun],
           \/ fate' = [fate EXCEPT ![FileOfRun[r]] = "failed"]
           \/ fate' = fate /\ ~Recorded(r),
           UNCHANGED <<body, hashes, ingested, purging, started>>,
           quarantined' \subseteq IngestFiles
    PROVE  IngestIInv'
<1> USE DEF IngestIInv
<1>0. IdleRun \in Holding BY DEF Holding
<1>1. /\ running'[r] = IdleRun /\ \A q \in Runs : q # r => running'[q] = running[q]
      /\ running' \in [Runs -> Holding]
  BY <1>0, OneRuns
<1>2. running'[r].pc = "idle" BY <1>1, HoldingFacts
<1>3. /\ fate' \in [IngestFiles -> Fates]
      /\ \A g \in IngestFiles : fate'[g] = "stored" =>
            fate[g] = "stored" /\ (Recorded(r) => g # FileOfRun[r])
  BY DEF IngestTyped, Fates
<1>4. IngestTyped' BY <1>1, <1>3 DEF IngestTyped
<1>5. RunsApart' BY <1>1, <1>2 DEF RunsApart, UnderWay
<1>6. HashFollows'
  <2>1. \A q \in Runs : Recorded(q)' => q # r /\ Recorded(q) BY <1>1, <1>2 DEF Recorded
  <2>2. \A q \in Runs : q # r => (Recorded(q)' <=> Recorded(q)) BY <1>1 DEF Recorded
  <2>3. \A q \in Runs : Recorded(q)' =>
           hashes[FileOfRun[q]] \in {running'[q].data, NoRow, NoHashYet}
    BY <1>1, <2>1 DEF HashFollows
  <2>4. ASSUME NEW g \in IngestFiles, hashes[g] \in Contents
        PROVE  \/ fate'[g] = "stored" => ingested[g].content = hashes[g]
               \/ \E q \in Runs : FileOfRun[q] = g /\ Recorded(q)'
                                 /\ running'[q].data = hashes[g]
    <3>1. CASE \E q \in Runs : FileOfRun[q] = g /\ Recorded(q)
                              /\ running[q].data = hashes[g]
      <4>1. PICK q \in Runs : FileOfRun[q] = g /\ Recorded(q) /\ running[q].data = hashes[g]
        BY <3>1
      <4>2. CASE q = r BY <1>3, <4>1, <4>2
      <4>3. CASE q # r BY <1>1, <2>2, <4>1, <4>3
      <4>4. QED BY <4>2, <4>3
    <3>2. QED BY <1>3, <2>4, <3>1 DEF HashFollows
  <2>5. QED BY <2>3, <2>4 DEF HashFollows
<1>7. SkipIsJustified' BY <1>1, <1>2 DEF SkipIsJustified
<1>8. QED BY <1>4, <1>5, <1>6, <1>7

LEMMA RunFailsKeeps ==
    ASSUME IngestIInv, NEW r \in Runs, RunFails(r)
    PROVE  IngestIInv'
<1>1. /\ running' = [running EXCEPT ![r] = IdleRun]
      /\ \/ fate' = [fate EXCEPT ![FileOfRun[r]] = "failed"]
         \/ fate' = fate /\ ~Recorded(r)
      /\ UNCHANGED <<body, hashes, ingested, purging, quarantined, started>>
  BY DEF RunFails, SpoilRun, Recorded
<1>2. QED BY <1>1, RunEnds DEF IngestIInv, IngestTyped

LEMMA ParseKeeps ==
    ASSUME IngestIInv, NEW r \in Runs, ParseDocument(r)
    PROVE  IngestIInv'
<1> USE DEF IngestIInv
<1> DEFINE f == FileOfRun[r]
           rec == running[r]
           c == body[f]
           next == [pc |-> "store", data |-> rec.data, content |-> c,
                    chunks |-> Chunks(LengthOf[c])]
<1>1. /\ rec.pc = "parse" /\ UNCHANGED <<body, hashes, ingested, purging, started>>
      /\ quarantined' \subseteq quarantined \union {f}
      /\ \/ SpoilRun(r)
         \/ /\ c # NoBody /\ running' = [running EXCEPT ![r] = next]
            /\ fate' = fate
  BY DEF ParseDocument
<1>2. f \in IngestFiles /\ quarantined' \subseteq IngestFiles
  BY <1>1 DEF IngestFiles, IngestTyped
<1>3. CASE SpoilRun(r)
  <2>1. /\ running' = [running EXCEPT ![r] = IdleRun]
        /\ fate' = [fate EXCEPT ![FileOfRun[r]] = "failed"]
    BY <1>3 DEF SpoilRun
  <2>2. QED BY <1>1, <1>2, <2>1, RunEnds
<1>4. CASE c # NoBody /\ running' = [running EXCEPT ![r] = next] /\ fate' = fate
  <2>1. c \in Contents BY <1>2, <1>4 DEF IngestTyped
  <2>2. rec.data \in Contents BY <1>1, HoldingFacts DEF IngestTyped, Reading
  <2>3. next \in Holding BY <2>1, <2>2 DEF Holding
  <2>4. next.pc = "store" /\ next.data = rec.data /\ next.content = c OBVIOUS
  <2> HIDE DEF next
  <2>5. /\ running'[r] = next /\ \A q \in Runs : q # r => running'[q] = running[q]
        /\ running' \in [Runs -> Holding]
    BY <1>4, <2>3, OneRuns
  <2>6. IngestTyped' BY <1>1, <1>2, <1>4, <2>5 DEF IngestTyped
  <2>7. RunsApart' BY <1>1, <2>4, <2>5 DEF RunsApart, UnderWay
  <2>8. \A q \in Runs : /\ running'[q].data = running[q].data
                        /\ Recorded(q)' <=> Recorded(q)
    BY <1>1, <2>4, <2>5 DEF Recorded
  <2>9. HashFollows' BY <1>1, <1>4, <2>8 DEF HashFollows
  <2>10. SkipIsJustified' BY <1>1, <1>4, <2>4, <2>5 DEF SkipIsJustified
  <2>11. QED BY <2>6, <2>7, <2>9, <2>10
<1>5. QED BY <1>1, <1>3, <1>4

LEMMA StoreKeeps ==
    ASSUME IngestIInv, NEW r \in Runs, StoreDocument(r)
    PROVE  IngestIInv'
<1> USE DEF IngestIInv
<1> DEFINE f == FileOfRun[r]
           rec == running[r]
           stored == [content |-> rec.content, chunks |-> rec.chunks]
<1>1. /\ rec.pc = "store" /\ ingested' = [ingested EXCEPT ![f] = stored]
      /\ running' = [running EXCEPT ![r] = IdleRun]
      /\ fate' = [fate EXCEPT ![f] = IF rec.content = rec.data THEN "stored" ELSE "swapped"]
      /\ UNCHANGED <<body, hashes, purging, quarantined, started>>
  BY DEF StoreDocument
<1>2. f \in IngestFiles /\ rec \in Holding BY DEF IngestFiles, IngestTyped
<1>3. /\ rec.content \in Contents /\ rec.chunks = Chunks(LengthOf[rec.content])
      /\ rec.data \in Contents
  BY <1>1, <1>2, HoldingFacts
<1>4. stored \in StoredOf /\ stored.content = rec.content BY <1>3 DEF StoredOf
<1> HIDE DEF stored
<1>5. /\ running'[r] = IdleRun /\ \A q \in Runs : q # r => running'[q] = running[q]
      /\ running' \in [Runs -> Holding] /\ running'[r].pc = "idle"
  <2>1. IdleRun \in Holding BY DEF Holding
  <2>2. QED BY <1>1, <2>1, OneRuns, HoldingFacts
<1>6. /\ ingested'[f] = stored /\ ingested' \in [IngestFiles -> StoredOf]
      /\ \A g \in IngestFiles : g # f => ingested'[g] = ingested[g]
  BY <1>1, <1>2, <1>4 DEF IngestTyped
<1>7. /\ fate' \in [IngestFiles -> Fates] /\ \A g \in IngestFiles : g # f => fate'[g] = fate[g]
      /\ fate'[f] = "stored" => rec.content = rec.data
  BY <1>1, <1>2 DEF IngestTyped, Fates
<1>8. IngestTyped' BY <1>1, <1>5, <1>6, <1>7 DEF IngestTyped
<1>9. RunsApart' BY <1>1, <1>5 DEF RunsApart, UnderWay
<1>10. HashFollows'
  <2>1. \A q \in Runs : Recorded(q)' => q # r /\ Recorded(q) BY <1>5 DEF Recorded
  <2>2. \A q \in Runs : q # r => (Recorded(q)' <=> Recorded(q)) BY <1>5 DEF Recorded
  <2>3. \A q \in Runs : Recorded(q)' =>
           hashes[FileOfRun[q]] \in {running'[q].data, NoRow, NoHashYet}
    BY <1>5, <2>1 DEF HashFollows
  <2>4. ASSUME NEW g \in IngestFiles, hashes[g] \in Contents
        PROVE  \/ fate'[g] = "stored" => ingested'[g].content = hashes[g]
               \/ \E q \in Runs : FileOfRun[q] = g /\ Recorded(q)'
                                 /\ running'[q].data = hashes[g]
    <3>1. CASE g = f
      <4>1. hashes[f] \in {rec.data, NoRow, NoHashYet} BY <1>1 DEF HashFollows, Recorded
      <4>2. hashes[f] = rec.data BY <2>4, <3>1, <4>1, ContentsAre
      <4>3. QED BY <1>4, <1>6, <1>7, <3>1, <4>2
    <3>2. CASE g # f
      <4>1. ingested'[g] = ingested[g] /\ fate'[g] = fate[g] BY <1>6, <1>7, <3>2
      <4>2. CASE \E q \in Runs : FileOfRun[q] = g /\ Recorded(q)
                                /\ running[q].data = hashes[g]
        <5>1. PICK q \in Runs : FileOfRun[q] = g /\ Recorded(q) /\ running[q].data = hashes[g]
          BY <4>2
        <5>2. q # r BY <3>2, <5>1
        <5>3. QED BY <1>5, <2>2, <5>1, <5>2
      <4>3. QED BY <2>4, <4>1, <4>2 DEF HashFollows
    <3>3. QED BY <3>1, <3>2
  <2>5. QED BY <1>1, <2>3, <2>4 DEF HashFollows
<1>11. SkipIsJustified' BY <1>5 DEF SkipIsJustified
<1>12. QED BY <1>8, <1>9, <1>10, <1>11

\* What happens to the files and the rows.
LEMMA FilesKeep ==
    ASSUME IngestIInv,
           UNCHANGED <<ingested, running, started, fate>>,
           body' \in [IngestFiles -> Contents \union {NoBody}],
           hashes' \in [IngestFiles -> Contents \union {NoRow, NoHashYet}],
           \A f \in IngestFiles : hashes'[f] \in {hashes[f], NoRow, NoHashYet},
           purging' \subseteq IngestFiles, quarantined' \subseteq IngestFiles
    PROVE  IngestIInv'
<1> USE DEF IngestIInv
<1>1. IngestTyped' BY DEF IngestTyped
<1>2. RunsApart' BY DEF RunsApart, UnderWay
<1>3. \A r \in Runs : FileOfRun[r] \in IngestFiles BY DEF IngestFiles
<1>4. \A f \in IngestFiles : hashes'[f] \in Contents => hashes'[f] = hashes[f] BY ContentsAre
<1>5. HashFollows' BY <1>3, <1>4 DEF HashFollows, Recorded
<1>6. SkipIsJustified' BY DEF SkipIsJustified
<1>7. QED BY <1>1, <1>2, <1>5, <1>6

LEMMA IngestNextKeeps ==
    ASSUME IngestIInv, [IngestNext]_ingestVars
    PROVE  IngestIInv'
<1>t. IngestTyped BY DEF IngestIInv
<1>1. ASSUME NEW r \in Runs,
             ReadBytes(r) \/ CheckHash(r) \/ ParseDocument(r) \/ StoreDocument(r) \/ RunFails(r)
      PROVE  IngestIInv'
  BY <1>1, ReadBytesKeeps, CheckHashKeeps, ParseKeeps, StoreKeeps, RunFailsKeeps
<1>2. ASSUME NEW f \in IngestFiles, FileChanges(f) PROVE IngestIInv'
  <2>1. /\ \E c \in Contents : body' = [body EXCEPT ![f] = c]
        /\ UNCHANGED <<hashes, ingested, running, purging, quarantined, started, fate>>
    BY <1>2 DEF FileChanges
  <2>2. body' \in [IngestFiles -> Contents \union {NoBody}] BY <1>t, <2>1 DEF IngestTyped
  <2>3. QED BY <1>t, <2>1, <2>2, FilesKeep DEF IngestTyped
<1>3. ASSUME NEW f \in IngestFiles, FileRemoved(f) PROVE IngestIInv'
  <2>1. /\ body' = [body EXCEPT ![f] = NoBody]
        /\ UNCHANGED <<hashes, ingested, running, purging, quarantined, started, fate>>
    BY <1>3 DEF FileRemoved
  <2>2. body' \in [IngestFiles -> Contents \union {NoBody}] BY <1>t, <2>1 DEF IngestTyped
  <2>3. QED BY <1>t, <2>1, <2>2, FilesKeep DEF IngestTyped
<1>4. ASSUME NEW f \in IngestFiles, UpdateRow(f) \/ RemoveRow(f) PROVE IngestIInv'
  <2>1. /\ \/ hashes' = [hashes EXCEPT ![f] = NoHashYet] \/ hashes' = [hashes EXCEPT ![f] = NoRow]
        /\ UNCHANGED <<body, ingested, running, purging, quarantined, started, fate>>
    BY <1>4 DEF UpdateRow, RemoveRow
  <2>2. /\ hashes' \in [IngestFiles -> Contents \union {NoRow, NoHashYet}]
        /\ \A g \in IngestFiles : hashes'[g] \in {hashes[g], NoRow, NoHashYet}
    BY <1>t, <2>1 DEF IngestTyped
  <2>3. QED BY <1>t, <2>1, <2>2, FilesKeep DEF IngestTyped
<1>5. ASSUME NEW f \in IngestFiles, Release(f) PROVE IngestIInv'
  BY <1>5, <1>t, FilesKeep DEF Release, IngestTyped
<1>6. CASE FindMissing
  <2>1. /\ purging' \subseteq IngestFiles
        /\ UNCHANGED <<body, hashes, ingested, running, quarantined, started, fate>>
    BY <1>6 DEF FindMissing
  <2>2. QED BY <2>1, <1>t, FilesKeep DEF IngestTyped
<1>7. CASE PurgeMissing
  <2>1. /\ hashes' = [f \in IngestFiles |-> IF f \in purging THEN NoRow ELSE hashes[f]]
        /\ purging' \subseteq IngestFiles
        /\ UNCHANGED <<body, ingested, running, quarantined, started, fate>>
    BY <1>7 DEF PurgeMissing
  <2>2. /\ hashes' \in [IngestFiles -> Contents \union {NoRow, NoHashYet}]
        /\ \A g \in IngestFiles : hashes'[g] \in {hashes[g], NoRow, NoHashYet}
    BY <1>t, <2>1 DEF IngestTyped
  <2>3. QED BY <1>t, <2>1, <2>2, FilesKeep DEF IngestTyped
<1>8. CASE UNCHANGED ingestVars
  BY <1>8, <1>t, FilesKeep DEF ingestVars, IngestTyped
<1>9. QED BY <1>1, <1>2, <1>3, <1>4, <1>5, <1>6, <1>7, <1>8 DEF IngestNext

\* At any moment the hash of a file in the index is that of what was stored of it last, or
\* of what its run is about to store, or the last run that recorded one failed or stored
\* what the file had become since.
THEOREM IngestInvariance == IngestSpec => []IngestIInv
<1>1. IngestInit => IngestIInv BY IngestInitIInv
<1>2. IngestIInv /\ [IngestNext]_ingestVars => IngestIInv' BY IngestNextKeeps
<1>3. QED BY <1>1, <1>2, PTL DEF IngestSpec

LEMMA IngestIInvSound == IngestIInv => IngestTypeOK /\ IngestSound
<1> SUFFICES ASSUME IngestIInv PROVE IngestTypeOK /\ IngestSound OBVIOUS
<1> USE DEF IngestIInv
<1>1. IngestTypeOK
  <2>1. \A r \in Runs : running[r].pc \in {"idle", "check", "parse", "store", "skipped"}
    BY HoldingFacts DEF IngestTyped
  <2>2. QED BY <2>1 DEF IngestTyped, IngestTypeOK, Fates
<1>2. StoredWhole
  <2> SUFFICES ASSUME NEW f \in IngestFiles, ingested[f].content # 0
               PROVE  Covers(ingested[f].chunks, LengthOf[ingested[f].content])
    BY DEF StoredWhole
  <2>1. ingested[f] \in StoredOf BY DEF IngestTyped
  <2>2. PICK c \in Contents : ingested[f] = [content |-> c, chunks |-> Chunks(LengthOf[c])]
    BY <2>1 DEF StoredOf
  <2>3. LengthOf[c] \in Nat BY IngestBounds
  <2>4. QED BY <2>2, <2>3, ChunksCover
<1>3. QED BY <1>1, <1>2 DEF IngestSound

\* Files change, and change back, runs fail, rows go: a document is skipped only if that
\* very content is stored, or the last run that recorded a hash of it failed or read
\* another content; and what is stored of one is all of it.
THEOREM IngestIsSound == IngestSpec => []IngestSound
BY IngestInvariance, IngestIInvSound, PTL

-----------------------------------------------------------------------------
(* Publications                                                            *)

Docs == [item : SourceIds \union {Hashed}, draft : Drafts]
          \union [item : SourceIds, draft : {NoDraft}]
HookDocs == [item : {Random}, draft : Drafts]
DocsOf(s) == IF s \in Hooks THEN HookDocs ELSE Docs
ItemsOf(s) == IF s \in Hooks THEN {Random} ELSE SourceIds \union {Hashed}
HighOf(s) == IF s \in Hooks THEN {FALSE} ELSE BOOLEAN
PcsOf(s) == IF s \in Hooks THEN {"send"} ELSE {"send", "notice", "index"}
NextStates(s) == [pc : {"next"}, left : Seq(DocsOf(s)), high : HighOf(s)]
DocStates(s) ==
    [pc : PcsOf(s), left : Seq(DocsOf(s)), item : ItemsOf(s), high : HighOf(s), draft : Drafts]
SenderStates(s) == {NotSending} \union NextStates(s) \union DocStates(s)
BusLines == [item : SourceIds \union {Hashed, Random}, draft : Drafts]

SendTyped ==
    /\ onBus \in Seq(BusLines) /\ noticed \in Seq(Drafts)
    /\ vector \in [SourceIds -> Drafts \union {NoDraft}]
    /\ source \in [SourceIds -> Drafts]
    /\ lastSent \in [SourceIds -> Drafts \union {NoDraft}]
    /\ sender = [s \in Senders |-> sender[s]] /\ \A s \in Senders : sender[s] \in SenderStates(s)

BusHas(d) == \E n \in DOMAIN onBus : onBus[n].draft = d
Noticing(s, d) == sender[s].pc = "notice" /\ sender[s].draft = d

\* An event is with one thread, or written, or missed, and only for what was first.
EventsKept ==
    \A d \in Drafts :
       /\ \A s, t \in Senders : Noticing(s, d) /\ Noticing(t, d) => s = t
       /\ \A m, n \in DOMAIN noticed : noticed[m] = d /\ noticed[n] = d => m = n
       /\ (\E s \in Senders : Noticing(s, d)) =>
             d \in owed /\ d \notin missed /\ \A n \in DOMAIN noticed : noticed[n] # d
       /\ (\E n \in DOMAIN noticed : noticed[n] = d) => d \in owed /\ d \notin missed
       /\ d \in owed => /\ BusHas(d)
                        /\ \/ d \in missed \/ \E s \in Senders : Noticing(s, d)
                           \/ \E n \in DOMAIN noticed : noticed[n] = d
       /\ d \in missed => d \in owed

AtIndex(s, i) == sender[s].pc \in {"notice", "index"} /\ sender[s].item = i
IndexKept ==
    \A i \in SourceIds :
       /\ i \notin unclear =>
             /\ (\A s \in Senders : ~AtIndex(s, i)) => vector[i] = lastSent[i]
             /\ \A s \in Senders : AtIndex(s, i) =>
                   /\ sender[s].draft = lastSent[i]
                   /\ \A t \in Senders : AtIndex(t, i) => t = s
       /\ lastSent[i] # NoDraft => BusHas(lastSent[i])

SendIInv == SendTyped /\ EventsKept /\ IndexKept

LEMMA SenderFacts ==
    ASSUME NEW s \in Senders, NEW rec \in SenderStates(s)
    PROVE  /\ rec.pc \in {"idle", "next", "send", "notice", "index"}
           /\ rec = NotSending <=> rec.pc = "idle"
           /\ rec.pc = "next" => rec \in NextStates(s)
           /\ rec.pc \in {"send", "notice", "index"} => rec \in DocStates(s)
           /\ rec.pc \in {"notice", "index"} => s \notin Hooks
<1>1. NotSending.pc = "idle" BY DEF NotSending
<1>2. CASE rec \in NextStates(s)
  <2>1. rec.pc = "next" BY <1>2 DEF NextStates
  <2>2. QED BY <1>1, <1>2, <2>1
<1>3. CASE rec \in DocStates(s)
  <2>1. rec.pc \in PcsOf(s) BY <1>3 DEF DocStates
  <2>2. QED BY <1>1, <1>3, <2>1 DEF PcsOf
<1>4. CASE rec = NotSending BY <1>1, <1>4
<1>5. QED BY <1>2, <1>3, <1>4 DEF SenderStates

LEMMA DocFacts ==
    ASSUME NEW s \in Senders, NEW rec \in DocStates(s)
    PROVE  /\ rec.pc \in PcsOf(s) /\ rec.left \in Seq(DocsOf(s)) /\ rec.item \in ItemsOf(s)
           /\ rec.high \in HighOf(s) /\ rec.draft \in Drafts
           /\ \A pc \in PcsOf(s) : [rec EXCEPT !.pc = pc] \in DocStates(s)
           /\ [pc |-> "next", left |-> rec.left, high |-> rec.high] \in NextStates(s)
<1>1. /\ rec.pc \in PcsOf(s) /\ rec.left \in Seq(DocsOf(s)) /\ rec.item \in ItemsOf(s)
      /\ rec.high \in HighOf(s) /\ rec.draft \in Drafts
  BY DEF DocStates
<1>2. \A pc \in PcsOf(s) : [rec EXCEPT !.pc = pc] \in DocStates(s) BY DEF DocStates
<1>3. [pc |-> "next", left |-> rec.left, high |-> rec.high] \in NextStates(s)
  BY <1>1 DEF NextStates
<1>4. QED BY <1>1, <1>2, <1>3

LEMMA OneSends ==
    ASSUME SendTyped, NEW s \in Senders, NEW next \in SenderStates(s),
           sender' = [sender EXCEPT ![s] = next]
    PROVE  /\ sender'[s] = next /\ \A t \in Senders : t # s => sender'[t] = sender[t]
           /\ sender' = [t \in Senders |-> sender'[t]]
           /\ \A t \in Senders : sender'[t] \in SenderStates(t)
<1>1. DOMAIN sender = Senders /\ \A t \in Senders : sender[t] \in SenderStates(t)
  BY DEF SendTyped
<1>2. sender' = [t \in Senders |-> IF t = s THEN next ELSE sender[t]] BY <1>1
<1>3. /\ sender'[s] = next /\ \A t \in Senders : t # s => sender'[t] = sender[t]
  BY <1>2
<1>4. sender' = [t \in Senders |-> sender'[t]] BY <1>2
<1>5. QED BY <1>1, <1>3, <1>4

LEMMA SendInitIInv == PublishingInit => SendIInv
<1> SUFFICES ASSUME PublishingInit PROVE SendIInv OBVIOUS
<1>1. /\ onBus = <<>> /\ noticed = <<>> /\ vector = [i \in SourceIds |-> NoDraft]
      /\ source = [i \in SourceIds |-> FirstDraft]
      /\ sender = [s \in Senders |-> NotSending]
      /\ lastSent = [i \in SourceIds |-> NoDraft]
      /\ unclear = {} /\ owed = {} /\ missed = {}
  BY DEF PublishingInit
<1>2. NotSending.pc = "idle" BY DEF NotSending
<1>3. DOMAIN onBus = {} /\ DOMAIN noticed = {} BY <1>1
<1>4. SendTyped BY <1>1, PublishingBounds DEF SendTyped, SenderStates
<1>5. EventsKept BY <1>1, <1>2, <1>3 DEF EventsKept, Noticing
<1>6. IndexKept BY <1>1, <1>2 DEF IndexKept, AtIndex
<1>7. QED BY <1>4, <1>5, <1>6 DEF SendIInv

\* A step of a sender that has nothing to notice or to index before or after it.
LEMMA QuietStep ==
    ASSUME SendIInv, NEW s \in Senders, NEW next \in SenderStates(s),
           sender' = [sender EXCEPT ![s] = next],
           sender[s].pc \notin {"notice", "index"}, next.pc \notin {"notice", "index"},
           UNCHANGED <<onBus, noticed, vector, source, lastSent, unclear, owed, missed>>
    PROVE  SendIInv'
<1> USE DEF SendIInv
<1>1. /\ sender'[s] = next /\ \A t \in Senders : t # s => sender'[t] = sender[t]
      /\ sender' = [t \in Senders |-> sender'[t]]
      /\ \A t \in Senders : sender'[t] \in SenderStates(t)
  BY OneSends
<1>2. SendTyped' BY <1>1 DEF SendTyped
<1>3. \A t \in Senders : \A d \in Drafts : Noticing(t, d)' <=> Noticing(t, d)
  BY <1>1 DEF Noticing
<1>4. EventsKept' BY <1>3 DEF EventsKept, BusHas
<1>5. \A t \in Senders : \A i \in SourceIds :
         /\ AtIndex(t, i)' <=> AtIndex(t, i)
         /\ AtIndex(t, i) => sender'[t] = sender[t]
  BY <1>1 DEF AtIndex
<1>6. IndexKept' BY <1>5 DEF IndexKept, BusHas
<1>7. QED BY <1>2, <1>4, <1>6

LEMMA BeginsKeeps ==
    ASSUME SendIInv, NEW s \in Senders, NEW docs \in Seq(DocsOf(s)), NEW high \in HighOf(s),
           Begins(s, docs, high)
    PROVE  SendIInv'
<1> DEFINE next == [pc |-> "next", left |-> docs, high |-> high]
<1>1. next \in SenderStates(s) /\ next.pc = "next" BY DEF SenderStates, NextStates
<1> HIDE DEF next
<1>2. /\ sender[s] = NotSending /\ sender' = [sender EXCEPT ![s] = next]
      /\ UNCHANGED <<onBus, noticed, vector, source, lastSent, unclear, owed, missed>>
  BY DEF Begins, next
<1>3. sender[s].pc = "idle" BY <1>2 DEF NotSending
<1>4. QED BY <1>1, <1>2, <1>3, QuietStep

LEMMA SomeoneBegins ==
    ASSUME SendIInv, NEW s \in Senders,
           \/ \E i \in SourceIds, d \in Drafts, high \in BOOLEAN : PublishContext(s, i, d, high)
           \/ \E d \in Drafts : Bridge(s, d) \/ ReportToolUse(s, d)
           \/ \E d, e \in Drafts : IngestConversation(s, d, e) \/ SeedSession(s, d, e)
           \/ Synchronise(s) \/ IngestProject(s)
    PROVE  SendIInv'
<1>1. s \in Hooks => DocsOf(s) = HookDocs /\ HighOf(s) = {FALSE} BY DEF DocsOf, HighOf
<1>2. s \notin Hooks => DocsOf(s) = Docs /\ HighOf(s) = BOOLEAN BY DEF DocsOf, HighOf
<1>3. \A i \in SourceIds \union {Hashed}, d \in Drafts : [item |-> i, draft |-> d] \in Docs
  BY DEF Docs
<1>4. \A i \in SourceIds : [item |-> i, draft |-> NoDraft] \in Docs BY DEF Docs
<1>5. \A d \in Drafts : [item |-> Random, draft |-> d] \in HookDocs BY DEF HookDocs
<1>6. ASSUME NEW i \in SourceIds, NEW d \in Drafts, NEW high \in BOOLEAN,
             PublishContext(s, i, d, high)
      PROVE  SendIInv'
  <2>1. s \notin Hooks /\ Begins(s, <<[item |-> i, draft |-> d]>>, high)
    BY <1>6 DEF PublishContext
  <2>2. [item |-> i, draft |-> d] \in Docs BY <1>3
  <2>3. <<[item |-> i, draft |-> d]>> \in Seq(DocsOf(s)) BY <1>2, <2>1, <2>2
  <2>4. QED BY <1>2, <2>1, <2>3, BeginsKeeps
<1>7. ASSUME NEW d \in Drafts, Bridge(s, d) PROVE SendIInv'
  <2>1. s \notin Hooks /\ Begins(s, <<[item |-> Hashed, draft |-> d]>>, FALSE)
    BY <1>7 DEF Bridge
  <2>2. [item |-> Hashed, draft |-> d] \in Docs BY <1>3
  <2>3. <<[item |-> Hashed, draft |-> d]>> \in Seq(DocsOf(s)) BY <1>2, <2>1, <2>2
  <2>4. QED BY <1>2, <2>1, <2>3, BeginsKeeps
<1>8. ASSUME NEW d \in Drafts, ReportToolUse(s, d) PROVE SendIInv'
  <2>1. s \in Hooks /\ Begins(s, <<[item |-> Random, draft |-> d]>>, FALSE)
    BY <1>8 DEF ReportToolUse
  <2>2. [item |-> Random, draft |-> d] \in HookDocs BY <1>5
  <2>3. <<[item |-> Random, draft |-> d]>> \in Seq(DocsOf(s)) BY <1>1, <2>1, <2>2
  <2>4. QED BY <1>1, <2>1, <2>3, BeginsKeeps
<1>9. ASSUME NEW d \in Drafts, NEW e \in Drafts, IngestConversation(s, d, e) PROVE SendIInv'
  <2> DEFINE docs == <<[item |-> Hashed, draft |-> d], [item |-> Hashed, draft |-> e]>>
  <2>1. s \notin Hooks /\ Begins(s, docs, FALSE) BY <1>9 DEF IngestConversation
  <2>2. [item |-> Hashed, draft |-> d] \in Docs /\ [item |-> Hashed, draft |-> e] \in Docs
    BY <1>3
  <2>3. docs \in Seq(DocsOf(s)) BY <1>2, <2>1, <2>2
  <2> HIDE DEF docs
  <2>4. QED BY <1>2, <2>1, <2>3, BeginsKeeps
<1>10. ASSUME NEW d \in Drafts, NEW e \in Drafts, SeedSession(s, d, e) PROVE SendIInv'
  <2> DEFINE docs == <<[item |-> Random, draft |-> d], [item |-> Random, draft |-> e]>>
  <2>1. s \in Hooks /\ Begins(s, docs, FALSE) BY <1>10 DEF SeedSession
  <2>2. [item |-> Random, draft |-> d] \in HookDocs /\ [item |-> Random, draft |-> e] \in HookDocs
    BY <1>5
  <2>3. docs \in Seq(DocsOf(s)) BY <1>1, <2>1, <2>2
  <2> HIDE DEF docs
  <2>4. QED BY <1>1, <2>1, <2>3, BeginsKeeps
<1>11. /\ Len(Sources) \in Nat /\ DOMAIN Sources = 1..Len(Sources)
       /\ \A n \in DOMAIN Sources : [item |-> Sources[n], draft |-> NoDraft] \in Docs
  <2>1. Sources \in Seq(SourceIds) BY PublishingNames
  <2>2. Len(Sources) \in Nat /\ DOMAIN Sources = 1..Len(Sources) BY <2>1, LenProperties
  <2>3. \A n \in DOMAIN Sources : Sources[n] \in SourceIds BY <2>1, <2>2, ElementOfSeq
  <2>4. QED BY <1>4, <2>2, <2>3
<1>12. CASE Synchronise(s)
  <2> DEFINE docs == [n \in DOMAIN Sources |-> [item |-> Sources[n], draft |-> NoDraft]]
  <2>1. s \notin Hooks /\ Begins(s, docs, FALSE) BY <1>12 DEF Synchronise
  <2>2. docs \in Seq(Docs) BY <1>11, IsASeq
  <2> HIDE DEF docs
  <2>3. QED BY <1>2, <2>1, <2>2, BeginsKeeps
<1>13. CASE IngestProject(s)
  <2> DEFINE most == Min({Len(Sources), MaxDocs})
             docs == [n \in 1..most |-> [item |-> Sources[n], draft |-> NoDraft]]
  <2>1. s \notin Hooks /\ Begins(s, docs, FALSE) BY <1>13 DEF IngestProject
  <2>2. most \in Nat /\ most <= Len(Sources)
    <3>1. {Len(Sources), MaxDocs} \in SUBSET Nat /\ {Len(Sources), MaxDocs} # {}
      BY <1>11, PublishingBounds
    <3>2. most \in {Len(Sources), MaxDocs} /\ \A y \in {Len(Sources), MaxDocs} : most <= y
      BY <3>1, MinIsLeast
    <3> HIDE DEF most
    <3>3. QED BY <3>1, <3>2
  <2> HIDE DEF most
  <2>3. \A n \in 1..most : [item |-> Sources[n], draft |-> NoDraft] \in Docs BY <1>11, <2>2
  <2>4. docs \in Seq(Docs) BY <2>2, <2>3, IsASeq
  <2> HIDE DEF docs
  <2>5. QED BY <1>2, <2>1, <2>4, BeginsKeeps DEF most
<1>14. QED BY <1>6, <1>7, <1>8, <1>9, <1>10, <1>12, <1>13

LEMMA TakeKeeps ==
    ASSUME SendIInv, NEW s \in Senders, Take(s)
    PROVE  SendIInv'
<1> USE DEF SendIInv
<1> DEFINE rec == sender[s]
           doc == Head(rec.left)
           taken == [pc |-> "send", left |-> Tail(rec.left), item |-> doc.item,
                     high |-> rec.high,
                     draft |-> IF doc.draft = NoDraft THEN source[doc.item] ELSE doc.draft]
<1>1. /\ rec.pc = "next"
      /\ sender' = [sender EXCEPT ![s] = IF rec.left = <<>> THEN NotSending ELSE taken]
      /\ UNCHANGED <<onBus, noticed, vector, source, lastSent, unclear, owed, missed>>
  <2>1. DOMAIN sender = Senders BY DEF SendTyped
  <2>2. QED BY <2>1 DEF Take
<1>2. rec \in NextStates(s) BY <1>1, SenderFacts DEF SendTyped
<1>3. rec.left \in Seq(DocsOf(s)) /\ rec.high \in HighOf(s) BY <1>2 DEF NextStates
<1>4. CASE rec.left = <<>>
  <2>1. NotSending \in SenderStates(s) /\ NotSending.pc = "idle"
    BY DEF SenderStates, NotSending
  <2>2. QED BY <1>1, <1>4, <2>1, QuietStep
<1>5. CASE rec.left # <<>>
  <2>1. doc \in DocsOf(s) /\ Tail(rec.left) \in Seq(DocsOf(s))
    BY <1>3, <1>5, HeadTailProperties
  <2>2. /\ doc.item \in ItemsOf(s)
        /\ (IF doc.draft = NoDraft THEN source[doc.item] ELSE doc.draft) \in Drafts
    <3>1. source \in [SourceIds -> Drafts] /\ NoDraft \notin Drafts
      BY PublishingNames DEF SendTyped
    <3>2. CASE s \in Hooks
      <4>1. doc \in HookDocs BY <2>1, <3>2 DEF DocsOf
      <4>2. QED BY <3>1, <3>2, <4>1 DEF HookDocs, ItemsOf
    <3>3. CASE s \notin Hooks
      <4>1. doc \in Docs BY <2>1, <3>3 DEF DocsOf
      <4>2. CASE doc \in [item : SourceIds \union {Hashed}, draft : Drafts]
        BY <3>1, <3>3, <4>2 DEF ItemsOf
      <4>3. CASE doc \in [item : SourceIds, draft : {NoDraft}]
        BY <3>1, <3>3, <4>3 DEF ItemsOf
      <4>4. QED BY <4>1, <4>2, <4>3 DEF Docs
    <3>4. QED BY <3>2, <3>3
  <2>3. taken \in DocStates(s) /\ taken.pc = "send"
    <3>1. "send" \in PcsOf(s) BY DEF PcsOf
    <3> HIDE DEF doc
    <3>2. QED BY <1>3, <2>1, <2>2, <3>1 DEF DocStates
  <2> HIDE DEF taken
  <2>4. QED BY <1>1, <1>5, <2>3, QuietStep DEF SenderStates
<1>6. QED BY <1>4, <1>5

LEMMA SendFailsKeeps ==
    ASSUME SendIInv, NEW s \in Senders, SendFails(s)
    PROVE  SendIInv'
<1> USE DEF SendIInv
<1> DEFINE rec == sender[s]
           next == [pc |-> "next", left |-> rec.left, high |-> rec.high]
<1>1. /\ rec.pc = "send" /\ sender' = [sender EXCEPT ![s] = next]
      /\ UNCHANGED <<onBus, noticed, vector, source, lastSent, unclear, owed, missed>>
  <2>1. DOMAIN sender = Senders BY DEF SendTyped
  <2>2. QED BY <2>1 DEF SendFails, GoesOn
<1>2. rec \in DocStates(s) BY <1>1, SenderFacts DEF SendTyped
<1>3. next \in NextStates(s) /\ next.pc = "next" BY <1>2, DocFacts
<1> HIDE DEF next
<1>4. QED BY <1>1, <1>3, QuietStep DEF SenderStates

\* A hook is never between the bus and the index.
LEMMA HooksQuiet ==
    ASSUME SendIInv
    PROVE  /\ \A s \in Senders : \A i : AtIndex(s, i) => s \notin Hooks
           /\ \A i : Indexing(i) = {s \in Senders : AtIndex(s, i)}
<1>1. \A s \in Senders : sender[s] \in SenderStates(s) BY DEF SendIInv, SendTyped
<1>2. \A s \in Senders : sender[s].pc \in {"notice", "index"} => s \notin Hooks
  BY <1>1, SenderFacts
<1>3. QED BY <1>2 DEF AtIndex, Indexing

LEMMA SendKeeps ==
    ASSUME SendIInv, NEW s \in Senders, Send(s)
    PROVE  SendIInv'
<1> USE DEF SendIInv
<1> DEFINE rec == sender[s]
<1>0. PICK i, d : i = rec.item /\ d = rec.draft OBVIOUS
<1> DEFINE known == OnBus(i, d)
           hook == s \in Hooks
           pc == After(hook, known, rec.high)
           next == IF pc = "next" THEN [pc |-> "next", left |-> rec.left, high |-> rec.high]
                   ELSE [rec EXCEPT !.pc = pc]
           line == [item |-> i, draft |-> d]
<1>1. /\ rec.pc = "send"
      /\ onBus' = IF known THEN onBus ELSE Append(onBus, line)
      /\ sender' = [sender EXCEPT ![s] = next]
      /\ lastSent' = IF i \in SourceIds THEN [lastSent EXCEPT ![i] = d] ELSE lastSent
      /\ unclear' = IF Indexing(i) = {} THEN unclear \ {i} ELSE unclear \union {i}
      /\ owed' = IF ~hook /\ ~known /\ rec.high THEN owed \union {d} ELSE owed
      /\ UNCHANGED <<noticed, vector, source, missed>>
  <2>1. DOMAIN sender = Senders BY DEF SendTyped
  <2>2. QED BY <1>0, <2>1 DEF Send, GoesOn
<1>2. rec \in DocStates(s) BY <1>1, SenderFacts DEF SendTyped
<1>3. /\ i \in ItemsOf(s) /\ d \in Drafts /\ rec.high \in BOOLEAN
      /\ i \in SourceIds \union {Hashed, Random}
      /\ hook => i \notin SourceIds /\ ~rec.high
  <2>1. i \in ItemsOf(s) /\ d \in Drafts /\ rec.high \in HighOf(s)
    BY <1>0, <1>2, DocFacts
  <2>2. QED BY <1>0, <2>1, PublishingNames DEF ItemsOf, HighOf
<1>4. /\ hook => pc = "next"
      /\ ~hook => pc = IF ~known /\ rec.high THEN "notice" ELSE "index"
  <2>1. CASE hook BY <1>3, <2>1 DEF After
  <2>2. CASE ~hook /\ ~known /\ rec.high BY <2>2 DEF After
  <2>3. CASE ~hook /\ ~(~known /\ rec.high) BY <2>3 DEF After
  <2>4. QED BY <2>1, <2>2, <2>3
<1>5. next \in SenderStates(s) /\ next.pc = pc /\ pc \in {"next", "notice", "index"}
  <2>1. CASE hook
    <3>1. next = [pc |-> "next", left |-> rec.left, high |-> rec.high] BY <1>4, <2>1
    <3>2. next \in NextStates(s) BY <1>2, <3>1, DocFacts
    <3>3. QED BY <1>4, <2>1, <3>1, <3>2 DEF SenderStates
  <2>2. CASE ~hook
    <3>1. pc \in {"notice", "index"} /\ pc \in PcsOf(s) BY <1>4, <2>2 DEF PcsOf
    <3>2. next = [rec EXCEPT !.pc = pc] BY <3>1
    <3>3. next \in DocStates(s) BY <1>2, <3>1, <3>2, DocFacts
    <3>4. next.pc = pc
      <4> HIDE DEF pc
      <4>1. QED BY <1>2, <3>2 DEF DocStates
    <3>5. QED BY <3>1, <3>3, <3>4 DEF SenderStates
  <2>3. QED BY <2>1, <2>2
<1>6. pc # "next" => next.item = i /\ next.draft = d
  <2> HIDE DEF pc
  <2>1. QED BY <1>0, <1>2 DEF DocStates
<1>7. /\ sender'[s] = next /\ \A t \in Senders : t # s => sender'[t] = sender[t]
      /\ sender' = [t \in Senders |-> sender'[t]]
      /\ \A t \in Senders : sender'[t] \in SenderStates(t)
  <2> HIDE DEF next
  <2>1. QED BY <1>1, <1>5, OneSends
<1>8. known <=> BusHas(d) BY DEF OnBus, BusHas
<1> HIDE DEF next, pc, known
<1>9. /\ onBus' \in Seq(BusLines) /\ BusHas(d)'
      /\ \A e : BusHas(e) => BusHas(e)'
  <2>1. line \in BusLines BY <1>3 DEF BusLines
  <2>2. onBus \in Seq(BusLines) BY DEF SendTyped
  <2>3. CASE known BY <1>1, <1>8, <2>2, <2>3 DEF BusHas
  <2>4. CASE ~known
    <3>1. onBus' = Append(onBus, line) BY <1>1, <2>4
    <3>2. onBus' \in Seq(BusLines) BY <2>1, <2>2, <3>1
    <3>3. /\ DOMAIN onBus \subseteq DOMAIN onBus'
          /\ \A n \in DOMAIN onBus : onBus'[n] = onBus[n]
          /\ Len(onBus) + 1 \in DOMAIN onBus' /\ onBus'[Len(onBus) + 1] = line
      BY <2>1, <2>2, <3>1
    <3>4. line.draft = d OBVIOUS
    <3>5. BusHas(d)' BY <3>3, <3>4 DEF BusHas
    <3>6. QED BY <3>2, <3>3, <3>5 DEF BusHas
  <2>5. QED BY <2>3, <2>4
<1>10. SendTyped'
  <2>1. lastSent' \in [SourceIds -> Drafts \union {NoDraft}] BY <1>1, <1>3 DEF SendTyped
  <2>2. QED BY <1>1, <1>7, <1>9, <2>1 DEF SendTyped
<1>11. /\ \A t \in Senders : t # s => \A e : Noticing(t, e)' <=> Noticing(t, e)
       /\ \A e : ~Noticing(s, e)
       /\ \A e : Noticing(s, e)' <=> pc = "notice" /\ e = d
  BY <1>1, <1>5, <1>6, <1>7 DEF Noticing
<1>12. EventsKept'
  <2>1. CASE pc = "notice"
    <3>1. ~known /\ owed' = owed \union {d} BY <1>1, <1>4, <2>1
    <3>2. d \notin owed BY <1>3, <1>8, <3>1 DEF EventsKept
    <3>3. SUFFICES ASSUME NEW e \in Drafts
                   PROVE  /\ \A t, u \in Senders : Noticing(t, e)' /\ Noticing(u, e)' => t = u
                          /\ \A m, n \in DOMAIN noticed' :
                                noticed'[m] = e /\ noticed'[n] = e => m = n
                          /\ (\E t \in Senders : Noticing(t, e)') =>
                                /\ e \in owed' /\ e \notin missed'
                                /\ \A n \in DOMAIN noticed' : noticed'[n] # e
                          /\ (\E n \in DOMAIN noticed' : noticed'[n] = e) =>
                                e \in owed' /\ e \notin missed'
                          /\ e \in owed' =>
                                /\ BusHas(e)'
                                /\ \/ e \in missed' \/ \E t \in Senders : Noticing(t, e)'
                                   \/ \E n \in DOMAIN noticed' : noticed'[n] = e
                          /\ e \in missed' => e \in owed'
      BY DEF EventsKept
    <3>4. CASE e = d
      <4>1. /\ \A t \in Senders : ~Noticing(t, e)
            /\ \A n \in DOMAIN noticed : noticed[n] # e
            /\ e \notin missed
        BY <3>2, <3>4 DEF EventsKept
      <4>2. \A t \in Senders : Noticing(t, e)' <=> t = s BY <1>11, <2>1, <3>4, <4>1
      <4>3. QED BY <1>1, <1>9, <3>1, <3>4, <4>1, <4>2
    <3>5. CASE e # d
      <4>1. \A t \in Senders : Noticing(t, e)' <=> Noticing(t, e) BY <1>11, <3>5
      <4>2. e \in owed' <=> e \in owed BY <3>1, <3>5
      <4>3. QED BY <1>1, <1>9, <4>1, <4>2 DEF EventsKept
    <3>6. QED BY <3>4, <3>5
  <2>2. CASE pc # "notice"
    <3>1. owed' = owed BY <1>1, <1>4, <2>2
    <3>2. \A t \in Senders : \A e : Noticing(t, e)' <=> Noticing(t, e) BY <1>11, <2>2
    <3>3. QED BY <1>1, <1>9, <3>1, <3>2 DEF EventsKept
  <2>3. QED BY <2>1, <2>2
<1>13. /\ \A t \in Senders : t # s => \A j : /\ AtIndex(t, j)' <=> AtIndex(t, j)
                                             /\ sender'[t] = sender[t]
       /\ \A j : ~AtIndex(s, j)
       /\ \A j : AtIndex(s, j)' <=> ~hook /\ j = i
  BY <1>1, <1>4, <1>5, <1>6, <1>7 DEF AtIndex
<1>14. ASSUME NEW j \in SourceIds
       PROVE  /\ j \notin unclear' =>
                   /\ (\A t \in Senders : ~AtIndex(t, j)') => vector'[j] = lastSent'[j]
                   /\ \A t \in Senders : AtIndex(t, j)' =>
                         /\ sender'[t].draft = lastSent'[j]
                         /\ \A u \in Senders : AtIndex(u, j)' => u = t
              /\ lastSent'[j] # NoDraft => BusHas(lastSent[j])'
  <2>1. CASE j = i
    <3>1. ~hook /\ lastSent'[j] = d BY <1>1, <1>3, <2>1 DEF SendTyped
    <3>2. sender'[s].draft = d BY <1>4, <1>6, <1>7, <3>1
    <3>3. j \notin unclear' => \A t \in Senders : ~AtIndex(t, j)
      BY <1>1, <2>1, HooksQuiet
    <3>4. BusHas(lastSent[j])' BY <1>9, <3>1 DEF BusHas
    <3>5. QED BY <1>13, <2>1, <3>1, <3>2, <3>3, <3>4
  <2>2. CASE j # i
    <3>1. lastSent'[j] = lastSent[j] /\ vector'[j] = vector[j] BY <1>1, <2>2 DEF SendTyped
    <3>2. j \notin unclear' => j \notin unclear BY <1>1, <2>2
    <3>3. \A t \in Senders : /\ AtIndex(t, j)' <=> AtIndex(t, j)
                             /\ AtIndex(t, j) => sender'[t] = sender[t]
      BY <1>13, <2>2
    <3>4. lastSent[j] # NoDraft => BusHas(lastSent[j]) BY DEF IndexKept
    <3>5. lastSent'[j] # NoDraft => BusHas(lastSent[j])' BY <1>9, <3>1, <3>4 DEF BusHas
    <3>6. QED BY <3>1, <3>2, <3>3, <3>5 DEF IndexKept
  <2>3. QED BY <2>1, <2>2
<1>15. IndexKept' BY <1>14 DEF IndexKept
<1>16. QED BY <1>10, <1>12, <1>15

LEMMA NoticeKeeps ==
    ASSUME SendIInv, NEW s \in Senders, Notice(s)
    PROVE  SendIInv'
<1> USE DEF SendIInv
<1> DEFINE rec == sender[s]
<1>0. PICK d : d = rec.draft OBVIOUS
<1> DEFINE next == [rec EXCEPT !.pc = "index"]
<1>1. /\ rec.pc = "notice" /\ sender' = [sender EXCEPT ![s] = next]
      /\ \/ noticed' = Append(noticed, d) /\ missed' = missed
         \/ missed' = missed \union {d} /\ noticed' = noticed
      /\ UNCHANGED <<onBus, vector, source, lastSent, unclear, owed>>
  <2>1. DOMAIN sender = Senders BY DEF SendTyped
  <2>2. QED BY <1>0, <2>1 DEF Notice, GoesOn
<1>2. rec \in DocStates(s) /\ s \notin Hooks BY <1>1, SenderFacts DEF SendTyped
<1>3. d \in Drafts /\ next \in SenderStates(s)
  <2>1. "index" \in PcsOf(s) BY <1>2 DEF PcsOf
  <2>2. d \in Drafts /\ next \in DocStates(s) BY <1>0, <1>2, <2>1, DocFacts
  <2>3. QED BY <2>2 DEF SenderStates
<1>4. next.pc = "index" /\ next.item = rec.item /\ next.draft = d BY <1>0, <1>2 DEF DocStates
<1> HIDE DEF next
<1>5. /\ sender'[s] = next /\ \A t \in Senders : t # s => sender'[t] = sender[t]
      /\ sender' = [t \in Senders |-> sender'[t]]
      /\ \A t \in Senders : sender'[t] \in SenderStates(t)
  BY <1>1, <1>3, OneSends
<1>6. noticed \in Seq(Drafts) BY DEF SendTyped
<1>7. SendTyped'
  <2>1. noticed' \in Seq(Drafts) BY <1>1, <1>3, <1>6
  <2>2. QED BY <1>1, <1>5, <2>1 DEF SendTyped
<1>8. /\ \A t \in Senders : t # s => \A e : Noticing(t, e)' <=> Noticing(t, e)
      /\ \A e : ~Noticing(s, e)' /\ Noticing(s, d)
  BY <1>0, <1>1, <1>4, <1>5 DEF Noticing
<1>9. /\ d \in owed /\ d \notin missed /\ \A n \in DOMAIN noticed : noticed[n] # d
      /\ \A t \in Senders : Noticing(t, d) => t = s
  BY <1>3, <1>8 DEF EventsKept
<1>10. \A t \in Senders : ~Noticing(t, d)' BY <1>8, <1>9
<1>11. \A e : e # d => \A t \in Senders : Noticing(t, e)' <=> Noticing(t, e)
  BY <1>1, <1>5, <1>8 DEF Noticing
<1>12. EventsKept'
  <2>1. CASE noticed' = Append(noticed, d) /\ missed' = missed
    <3>1. /\ DOMAIN noticed' = DOMAIN noticed \union {Len(noticed) + 1}
          /\ \A n \in DOMAIN noticed : noticed'[n] = noticed[n]
          /\ noticed'[Len(noticed) + 1] = d
      BY <1>3, <1>6, <2>1
    <3>2. \A e : e # d => \A n \in DOMAIN noticed' :
             noticed'[n] = e <=> n \in DOMAIN noticed /\ noticed[n] = e
      BY <3>1
    <3>3. \A n \in DOMAIN noticed' : noticed'[n] = d <=> n = Len(noticed) + 1
      BY <1>9, <3>1
    <3>4. ASSUME NEW e \in Drafts
          PROVE  /\ \A t, u \in Senders : Noticing(t, e)' /\ Noticing(u, e)' => t = u
                 /\ \A m, n \in DOMAIN noticed' : noticed'[m] = e /\ noticed'[n] = e => m = n
                 /\ (\E t \in Senders : Noticing(t, e)') =>
                       /\ e \in owed' /\ e \notin missed'
                       /\ \A n \in DOMAIN noticed' : noticed'[n] # e
                 /\ (\E n \in DOMAIN noticed' : noticed'[n] = e) =>
                       e \in owed' /\ e \notin missed'
                 /\ e \in owed' =>
                       /\ BusHas(e)'
                       /\ \/ e \in missed' \/ \E t \in Senders : Noticing(t, e)'
                          \/ \E n \in DOMAIN noticed' : noticed'[n] = e
                 /\ e \in missed' => e \in owed'
      <4>1. BusHas(e)' <=> BusHas(e) BY <1>1 DEF BusHas
      <4>2. CASE e = d
        <5>1. BusHas(d) BY <1>3, <1>9 DEF EventsKept
        <5>2. QED BY <1>1, <1>9, <1>10, <2>1, <3>1, <3>3, <4>1, <4>2, <5>1
      <4>3. CASE e # d
        <5>1. \A t \in Senders : Noticing(t, e)' <=> Noticing(t, e) BY <1>11, <4>3
        <5>2. \A n \in DOMAIN noticed' :
                 noticed'[n] = e <=> n \in DOMAIN noticed /\ noticed[n] = e
          BY <3>2, <4>3
        <5>3. (\E n \in DOMAIN noticed' : noticed'[n] = e)
                 <=> \E n \in DOMAIN noticed : noticed[n] = e
          BY <3>1, <5>2
        <5>4. /\ owed' = owed /\ missed' = missed BY <1>1, <2>1
        <5>5. \A m, n \in DOMAIN noticed' : noticed'[m] = e /\ noticed'[n] = e => m = n
          BY <5>2 DEF EventsKept
        <5>6. QED BY <4>1, <5>1, <5>3, <5>4, <5>5 DEF EventsKept
      <4>4. QED BY <4>2, <4>3
    <3>5. QED BY <3>4 DEF EventsKept
  <2>2. CASE missed' = missed \union {d} /\ noticed' = noticed
    <3>1. ASSUME NEW e \in Drafts
          PROVE  /\ \A t, u \in Senders : Noticing(t, e)' /\ Noticing(u, e)' => t = u
                 /\ \A m, n \in DOMAIN noticed' : noticed'[m] = e /\ noticed'[n] = e => m = n
                 /\ (\E t \in Senders : Noticing(t, e)') =>
                       /\ e \in owed' /\ e \notin missed'
                       /\ \A n \in DOMAIN noticed' : noticed'[n] # e
                 /\ (\E n \in DOMAIN noticed' : noticed'[n] = e) =>
                       e \in owed' /\ e \notin missed'
                 /\ e \in owed' =>
                       /\ BusHas(e)'
                       /\ \/ e \in missed' \/ \E t \in Senders : Noticing(t, e)'
                          \/ \E n \in DOMAIN noticed' : noticed'[n] = e
                 /\ e \in missed' => e \in owed'
      <4>1. BusHas(e)' <=> BusHas(e) BY <1>1 DEF BusHas
      <4>2. CASE e = d
        <5>1. BusHas(d) BY <1>3, <1>9 DEF EventsKept
        <5>2. QED BY <1>1, <1>9, <1>10, <2>2, <4>1, <4>2, <5>1
      <4>3. CASE e # d
        <5>1. \A t \in Senders : Noticing(t, e)' <=> Noticing(t, e) BY <1>11, <4>3
        <5>2. /\ owed' = owed /\ (e \in missed' <=> e \in missed) BY <1>1, <2>2, <4>3
        <5>3. QED BY <2>2, <4>1, <5>1, <5>2 DEF EventsKept
      <4>4. QED BY <4>2, <4>3
    <3>2. QED BY <3>1 DEF EventsKept
  <2>3. QED BY <1>1, <2>1, <2>2
<1>13. \A t \in Senders : \A j : /\ AtIndex(t, j)' <=> AtIndex(t, j)
                                 /\ AtIndex(t, j) => sender'[t].draft = sender[t].draft
  BY <1>0, <1>1, <1>4, <1>5 DEF AtIndex
<1>14. IndexKept' BY <1>1, <1>13 DEF IndexKept, BusHas
<1>15. QED BY <1>7, <1>12, <1>14

LEMMA IndexKeeps ==
    ASSUME SendIInv, NEW s \in Senders, Index(s)
    PROVE  SendIInv'
<1> USE DEF SendIInv
<1> DEFINE rec == sender[s]
           i == rec.item
           d == rec.draft
           next == [pc |-> "next", left |-> rec.left, high |-> rec.high]
<1>1. /\ rec.pc = "index" /\ sender' = [sender EXCEPT ![s] = next]
      /\ \/ /\ vector' = IF i \in SourceIds THEN [vector EXCEPT ![i] = d] ELSE vector
            /\ unclear' = unclear
         \/ unclear' = unclear \union {i} /\ vector' = vector
      /\ UNCHANGED <<onBus, noticed, source, lastSent, owed, missed>>
  <2>1. DOMAIN sender = Senders BY DEF SendTyped
  <2>2. QED BY <2>1 DEF Index, GoesOn
<1>2. rec \in DocStates(s) BY <1>1, SenderFacts DEF SendTyped
<1>3. d \in Drafts /\ next \in SenderStates(s) /\ next.pc = "next"
  <2>1. d \in Drafts /\ next \in NextStates(s) BY <1>2, DocFacts
  <2>2. QED BY <2>1 DEF SenderStates
<1> HIDE DEF next
<1>4. /\ sender'[s] = next /\ \A t \in Senders : t # s => sender'[t] = sender[t]
      /\ sender' = [t \in Senders |-> sender'[t]]
      /\ \A t \in Senders : sender'[t] \in SenderStates(t)
  BY <1>1, <1>3, OneSends
<1>5. SendTyped'
  <2>1. vector' \in [SourceIds -> Drafts \union {NoDraft}] BY <1>1, <1>3 DEF SendTyped
  <2>2. QED BY <1>1, <1>4, <2>1 DEF SendTyped
<1>6. \A t \in Senders : \A e : Noticing(t, e)' <=> Noticing(t, e)
  BY <1>1, <1>3, <1>4 DEF Noticing
<1>7. EventsKept' BY <1>1, <1>6 DEF EventsKept, BusHas
<1>8. /\ \A t \in Senders : t # s => \A j : /\ AtIndex(t, j)' <=> AtIndex(t, j)
                                            /\ sender'[t] = sender[t]
      /\ \A j : AtIndex(s, j) <=> j = i
      /\ \A j : ~AtIndex(s, j)'
  BY <1>1, <1>3, <1>4 DEF AtIndex
<1>9. ASSUME NEW j \in SourceIds
      PROVE  /\ j \notin unclear' =>
                  /\ (\A t \in Senders : ~AtIndex(t, j)') => vector'[j] = lastSent'[j]
                  /\ \A t \in Senders : AtIndex(t, j)' =>
                        /\ sender'[t].draft = lastSent'[j]
                        /\ \A u \in Senders : AtIndex(u, j)' => u = t
             /\ lastSent'[j] # NoDraft => BusHas(lastSent[j])'
  <2>1. lastSent'[j] # NoDraft => BusHas(lastSent[j])' BY <1>1 DEF IndexKept, BusHas
  <2>2. CASE j = i
    <3>1. CASE j \in unclear'
      BY <2>1, <3>1
    <3>2. CASE j \notin unclear'
      <4>1. vector'[j] = d /\ j \notin unclear BY <1>1, <2>2, <3>2 DEF SendTyped
      <4>2. d = lastSent[j] /\ \A t \in Senders : AtIndex(t, j) => t = s
        BY <1>8, <2>2, <4>1 DEF IndexKept
      <4>3. \A t \in Senders : ~AtIndex(t, j)' BY <1>8, <4>2
      <4>4. QED BY <1>1, <2>1, <4>1, <4>2, <4>3
    <3>3. QED BY <3>1, <3>2
  <2>3. CASE j # i
    <3>1. vector'[j] = vector[j] /\ lastSent'[j] = lastSent[j] BY <1>1, <2>3 DEF SendTyped
    <3>2. j \notin unclear' => j \notin unclear BY <1>1
    <3>3. \A t \in Senders : /\ AtIndex(t, j)' <=> AtIndex(t, j)
                             /\ AtIndex(t, j) => sender'[t] = sender[t]
      BY <1>8, <2>3
    <3>4. QED BY <2>1, <3>1, <3>2, <3>3 DEF IndexKept
  <2>4. QED BY <2>2, <2>3
<1>10. IndexKept' BY <1>9 DEF IndexKept
<1>11. QED BY <1>5, <1>7, <1>10

LEMMA RewriteKeeps ==
    ASSUME SendIInv, NEW i \in SourceIds, NEW d \in Drafts, Rewrite(i, d)
    PROVE  SendIInv'
<1>1. /\ source' = [source EXCEPT ![i] = d]
      /\ UNCHANGED <<onBus, noticed, vector, sender, lastSent, unclear, owed, missed>>
  BY DEF Rewrite
<1>2. SendTyped' BY <1>1 DEF SendIInv, SendTyped
<1>3. EventsKept' BY <1>1 DEF SendIInv, EventsKept, Noticing, BusHas
<1>4. IndexKept' BY <1>1 DEF SendIInv, IndexKept, AtIndex, BusHas
<1>5. QED BY <1>2, <1>3, <1>4 DEF SendIInv

LEMMA ServerKilledKeeps ==
    ASSUME SendIInv, ServerKilled
    PROVE  SendIInv'
<1> USE DEF SendIInv
<1>1. /\ sender' = [s \in Senders |-> IF s \in Hooks THEN sender[s] ELSE NotSending]
      /\ unclear' = unclear \union {i \in SourceIds : Indexing(i) # {}}
      /\ missed' = missed \union
            {sender[s].draft : s \in {t \in Senders : sender[t].pc = "notice"}}
      /\ UNCHANGED <<onBus, noticed, vector, source, lastSent, owed>>
  BY DEF ServerKilled
<1>2. \A s \in Senders : /\ s \in Hooks => sender'[s] = sender[s]
                         /\ s \notin Hooks => sender'[s] = NotSending
  BY <1>1
<1>3. NotSending.pc = "idle" BY DEF NotSending
<1>4. \A s \in Senders : sender'[s] \in SenderStates(s) BY <1>2 DEF SendTyped, SenderStates
<1>5. SendTyped'
  <2>1. sender' = [s \in Senders |-> sender'[s]] BY <1>1
  <2>2. QED BY <1>1, <1>4, <2>1 DEF SendTyped
<1>6. \A s \in Senders : sender'[s].pc \notin {"notice", "index"}
  <2>1. \A s \in Senders : sender'[s].pc \in {"notice", "index"} => s \notin Hooks
    BY <1>4, SenderFacts
  <2>2. QED BY <1>2, <1>3, <2>1
<1>7. \A s \in Senders : \A e : ~Noticing(s, e)' BY <1>6 DEF Noticing
<1>8. \A e : e \in missed' <=> e \in missed \/ \E s \in Senders : Noticing(s, e)
  BY <1>1 DEF Noticing
<1>9. EventsKept'
  <2>1. ASSUME NEW e \in Drafts
        PROVE  /\ (\E n \in DOMAIN noticed : noticed[n] = e) => e \in owed /\ e \notin missed'
               /\ e \in owed => /\ BusHas(e)'
                                /\ \/ e \in missed'
                                   \/ \E n \in DOMAIN noticed : noticed[n] = e
               /\ e \in missed' => e \in owed
    <3>1. BusHas(e)' <=> BusHas(e) BY <1>1 DEF BusHas
    <3>2. QED BY <1>8, <3>1 DEF EventsKept
  <2>2. QED BY <1>1, <1>7, <2>1 DEF EventsKept
<1>10. IndexKept'
  <2>1. \A s \in Senders : \A i : ~AtIndex(s, i)' BY <1>6 DEF AtIndex
  <2>2. \A i \in SourceIds : i \notin unclear' =>
           i \notin unclear /\ \A s \in Senders : ~AtIndex(s, i)
    BY <1>1, HooksQuiet
  <2>3. QED BY <1>1, <2>1, <2>2 DEF IndexKept, BusHas
<1>11. QED BY <1>5, <1>9, <1>10

LEMMA SendStutters ==
    ASSUME SendIInv, UNCHANGED sendVars
    PROVE  SendIInv'
<1>1. UNCHANGED <<onBus, noticed, vector, source, sender, lastSent, unclear, owed, missed>>
  BY DEF sendVars
<1>2. SendTyped' BY <1>1 DEF SendIInv, SendTyped
<1>3. EventsKept' BY <1>1 DEF SendIInv, EventsKept, Noticing, BusHas
<1>4. IndexKept' BY <1>1 DEF SendIInv, IndexKept, AtIndex, BusHas
<1>5. QED BY <1>2, <1>3, <1>4 DEF SendIInv

LEMMA SendNextKeeps ==
    ASSUME SendIInv, SendNext
    PROVE  SendIInv'
<1>1. CASE ServerKilled BY <1>1, ServerKilledKeeps
<1>2. ASSUME NEW i \in SourceIds, NEW d \in Drafts, Rewrite(i, d) PROVE SendIInv'
  BY <1>2, RewriteKeeps
<1>3. ASSUME NEW s \in Senders,
             \/ \E i \in SourceIds, d \in Drafts, high \in BOOLEAN :
                   PublishContext(s, i, d, high)
             \/ \E d \in Drafts : Bridge(s, d) \/ ReportToolUse(s, d)
             \/ \E d, e \in Drafts : IngestConversation(s, d, e) \/ SeedSession(s, d, e)
             \/ Synchronise(s) \/ IngestProject(s)
      PROVE  SendIInv'
  BY <1>3, SomeoneBegins
<1>4. ASSUME NEW s \in Senders, Take(s) \/ Send(s) \/ SendFails(s) \/ Notice(s) \/ Index(s)
      PROVE  SendIInv'
  BY <1>4, TakeKeeps, SendKeeps, SendFailsKeeps, NoticeKeeps, IndexKeeps
<1>5. QED BY <1>1, <1>2, <1>3, <1>4 DEF SendNext

LEMMA SendIInvSound == SendIInv => NoticedOnce /\ VectorFollows
<1> SUFFICES ASSUME SendIInv PROVE NoticedOnce /\ VectorFollows OBVIOUS
<1> USE DEF SendIInv
<1>1. ASSUME NEW d \in Drafts
      PROVE  Cardinality({n \in DOMAIN noticed : noticed[n] = d})
               = IF d \in owed \ missed /\ ~\E s \in Senders : Noticing(s, d) THEN 1 ELSE 0
  <2> DEFINE times == {n \in DOMAIN noticed : noticed[n] = d}
  <2>1. CASE times = {}
    <3>1. Cardinality(times) = 0 BY <2>1, FS_EmptySet
    <3>2. ~(d \in owed \ missed /\ ~\E s \in Senders : Noticing(s, d))
      BY <2>1 DEF EventsKept
    <3>3. QED BY <3>1, <3>2
  <2>2. CASE times # {}
    <3>1. PICK n \in DOMAIN noticed : noticed[n] = d BY <2>2
    <3>2. times = {n} BY <3>1 DEF EventsKept
    <3>3. Cardinality(times) = 1 BY <3>2, FS_Singleton
    <3>4. d \in owed \ missed /\ ~\E s \in Senders : Noticing(s, d) BY <3>1 DEF EventsKept
    <3>5. QED BY <3>3, <3>4
  <2>3. QED BY <2>1, <2>2
<1>2. NoticedOnce BY <1>1 DEF NoticedOnce, Noticing
<1>3. VectorFollows
  <2>1. ASSUME NEW i \in SourceIds
        PROVE  /\ Indexing(i) = {} /\ i \notin unclear => vector[i] = lastSent[i]
               /\ lastSent[i] # NoDraft => \E n \in DOMAIN onBus : onBus[n].draft = lastSent[i]
    <3>1. Indexing(i) = {} => \A s \in Senders : ~AtIndex(s, i) BY HooksQuiet
    <3>2. QED BY <3>1 DEF IndexKept, BusHas
  <2>2. QED BY <2>1 DEF VectorFollows
<1>4. QED BY <1>2, <1>3

-----------------------------------------------------------------------------
(* The register of projects                                                *)

Opening == [pc : {"open"}, slug : Projects, data : SUBSET Projects, file : {0}]
InWriting ==
    [pc : {"put", "replace"}, slug : Projects, data : SUBSET Projects, file : 1..LastFile]
WriterStates == {NotSending} \union {w \in Opening \union InWriting : w.slug \in w.data}
AtWorkNow == {r \in Registrars : AtWork(r)}

RegistryTyped ==
    /\ inode = [n \in 1..LastFile |-> inode[n]]
    /\ \A n \in 1..LastFile : inode[n] \in NoJson \/ inode[n] \subseteq Projects
    /\ where \in [register : 1..LastFile, temp : 0..LastFile] /\ where.temp # where.register
    /\ writer = [r \in Registrars |-> writer[r]]
    /\ \A r \in Registrars : writer[r] \in WriterStates
    /\ registrations \in 0..MaxRegistrations /\ crossed \in BOOLEAN
    /\ halfway \in BOOLEAN /\ mixed \in BOOLEAN

\* No more are at work than have been called, so one of the numbers is always free.
FilesSuffice == IsFiniteSet(AtWorkNow) /\ Cardinality(AtWorkNow) <= registrations

\* One at a time: what is written in the temporary file has all that was accepted.
OneAtATime ==
    ~crossed =>
       /\ \A q, r \in Registrars : AtWork(q) /\ AtWork(r) => q = r
       /\ inode[where.register] \notin NoJson /\ accepted \subseteq inode[where.register]
       /\ \A r \in Registrars : AtWork(r) =>
             /\ accepted \subseteq writer[r].data
             /\ writer[r].pc \in {"put", "replace"} => where.temp = writer[r].file
             /\ writer[r].pc = "put" => inode[writer[r].file] = Blank
             /\ writer[r].pc = "replace" => inode[writer[r].file] = writer[r].data

\* A file that cannot be read is being written, where nobody died and nothing was mixed.
NoJsonIsWritten ==
    ~halfway /\ ~mixed => \A n \in 1..LastFile : inode[n] \in NoJson =>
                   \E r \in Registrars : writer[r].pc = "put" /\ writer[r].file = n

RegistryIInv == RegistryTyped /\ FilesSuffice /\ OneAtATime /\ NoJsonIsWritten

LEMMA WriterFacts ==
    ASSUME NEW rec \in WriterStates
    PROVE  /\ rec = NotSending <=> rec.pc = "idle"
           /\ rec.pc \in {"idle", "open", "put", "replace"}
           /\ rec # NotSending => /\ rec.slug \in Projects /\ rec.data \subseteq Projects
                                  /\ rec.slug \in rec.data /\ rec.data \notin NoJson
           /\ rec.pc = "open" => rec \in Opening /\ rec.file = 0
           /\ rec.pc \in {"put", "replace"} => rec \in InWriting /\ rec.file \in 1..LastFile
<1>1. NotSending.pc = "idle" BY DEF NotSending
<1>2. CASE rec \in Opening /\ rec.slug \in rec.data
  <2>1. rec.pc = "open" /\ rec.slug \in Projects /\ rec.data \subseteq Projects /\ rec.file = 0
    BY <1>2 DEF Opening
  <2>2. rec.data \notin NoJson BY <1>2, <2>1, PublishingNames DEF NoJson, Blank, Torn
  <2>3. QED BY <1>1, <1>2, <2>1, <2>2
<1>3. CASE rec \in InWriting /\ rec.slug \in rec.data
  <2>1. /\ rec.pc \in {"put", "replace"} /\ rec.slug \in Projects
        /\ rec.data \subseteq Projects /\ rec.file \in 1..LastFile
    BY <1>3 DEF InWriting
  <2>2. rec.data \notin NoJson BY <1>3, <2>1, PublishingNames DEF NoJson, Blank, Torn
  <2>3. QED BY <1>1, <1>3, <2>1, <2>2
<1>4. CASE rec = NotSending BY <1>1, <1>4
<1>5. QED BY <1>2, <1>3, <1>4 DEF WriterStates

LEMMA OneWrites ==
    ASSUME RegistryTyped, NEW r \in Registrars, NEW next \in WriterStates,
           writer' = [writer EXCEPT ![r] = next]
    PROVE  /\ writer'[r] = next /\ \A q \in Registrars : q # r => writer'[q] = writer[q]
           /\ writer' = [q \in Registrars |-> writer'[q]]
           /\ \A q \in Registrars : writer'[q] \in WriterStates
<1>1. DOMAIN writer = Registrars /\ \A q \in Registrars : writer[q] \in WriterStates
  BY DEF RegistryTyped
<1>2. writer' = [q \in Registrars |-> IF q = r THEN next ELSE writer[q]] BY <1>1
<1>3. /\ writer'[r] = next /\ \A q \in Registrars : q # r => writer'[q] = writer[q]
  BY <1>2
<1>4. writer' = [q \in Registrars |-> writer'[q]] BY <1>2
<1>5. QED BY <1>1, <1>3, <1>4

LEMMA FewerSuffice ==
    ASSUME FilesSuffice, AtWorkNow' \subseteq AtWorkNow, registrations' = registrations,
           registrations \in Nat
    PROVE  FilesSuffice'
<1>1. IsFiniteSet(AtWorkNow') /\ Cardinality(AtWorkNow') <= Cardinality(AtWorkNow)
  BY FS_Subset DEF FilesSuffice
<1>2. Cardinality(AtWorkNow) \in Nat /\ Cardinality(AtWorkNow') \in Nat
  BY <1>1, FS_CardinalityType DEF FilesSuffice
<1>3. QED BY <1>1, <1>2 DEF FilesSuffice

LEMMA RegistryInitIInv == PublishingInit => RegistryIInv
<1> SUFFICES ASSUME PublishingInit PROVE RegistryIInv OBVIOUS
<1>1. /\ inode = [n \in 1..LastFile |-> {}] /\ where = [register |-> 1, temp |-> 0]
      /\ writer = [r \in Registrars |-> NotSending]
      /\ accepted = {} /\ crossed = FALSE /\ halfway = FALSE /\ mixed = FALSE
      /\ registrations = 0
  BY DEF PublishingInit
<1>2. MaxRegistrations \in Nat /\ LastFile \in Nat /\ 1 \in 1..LastFile
  BY PublishingBounds DEF LastFile
<1>3. RegistryTyped
  <2>1. \A n \in 1..LastFile : inode[n] \in NoJson \/ inode[n] \subseteq Projects BY <1>1
  <2>2. where \in [register : 1..LastFile, temp : 0..LastFile] /\ where.temp # where.register
    BY <1>1, <1>2
  <2>3. /\ writer = [r \in Registrars |-> writer[r]]
        /\ \A r \in Registrars : writer[r] \in WriterStates
    BY <1>1 DEF WriterStates
  <2>4. inode = [n \in 1..LastFile |-> inode[n]] BY <1>1
  <2>5. registrations \in 0..MaxRegistrations BY <1>1, <1>2
  <2>6. QED BY <1>1, <2>1, <2>2, <2>3, <2>4, <2>5 DEF RegistryTyped
<1>4. AtWorkNow = {} BY <1>1 DEF AtWorkNow, AtWork
<1>5. FilesSuffice BY <1>1, <1>4, FS_EmptySet DEF FilesSuffice
<1>6. \A n \in 1..LastFile : inode[n] \notin NoJson BY <1>1 DEF NoJson, Blank, Torn
<1>7. OneAtATime BY <1>1, <1>2, <1>6 DEF OneAtATime, AtWork
<1>8. NoJsonIsWritten BY <1>6 DEF NoJsonIsWritten
<1>9. QED BY <1>3, <1>5, <1>7, <1>8 DEF RegistryIInv

LEMMA LoadKeeps ==
    ASSUME RegistryIInv, NEW r \in Registrars, NEW slug \in Projects, LoadRegister(r, slug)
    PROVE  RegistryIInv'
<1> USE DEF RegistryIInv
<1> DEFINE now == inode[where.register]
           next == IF now \in NoJson THEN NotSending
                   ELSE [pc |-> "open", slug |-> slug, data |-> now \union {slug}, file |-> 0]
<1>1. /\ ~AtWork(r) /\ registrations < MaxRegistrations
      /\ registrations' = registrations + 1
      /\ writer' = [writer EXCEPT ![r] = next]
      /\ crossed' = (crossed \/ \E q \in Registrars \ {r} : AtWork(q))
      /\ UNCHANGED <<inode, where, accepted, halfway, mixed>>
  BY DEF LoadRegister
<1>2. now \in NoJson \/ now \subseteq Projects BY DEF RegistryTyped
<1>3. next \in WriterStates BY <1>2 DEF WriterStates, Opening
<1>4. /\ next = NotSending \/ /\ next.pc = "open"
                              /\ next.data = now \union {slug}
      /\ next.pc \notin {"put", "replace"}
  BY DEF NotSending
<1> HIDE DEF next
<1>5. /\ writer'[r] = next /\ \A q \in Registrars : q # r => writer'[q] = writer[q]
      /\ writer' = [q \in Registrars |-> writer'[q]]
      /\ \A q \in Registrars : writer'[q] \in WriterStates
  BY <1>1, <1>3, OneWrites
<1>6. MaxRegistrations \in Nat BY PublishingBounds
<1>7. RegistryTyped' BY <1>1, <1>5, <1>6 DEF RegistryTyped
<1>8. \A q \in Registrars : q # r => (AtWork(q)' <=> AtWork(q)) BY <1>5 DEF AtWork
<1>9. FilesSuffice'
  <2>1. AtWorkNow' \subseteq AtWorkNow \union {r} BY <1>8 DEF AtWorkNow
  <2>2. IsFiniteSet(AtWorkNow) /\ Cardinality(AtWorkNow) <= registrations BY DEF FilesSuffice
  <2>3. /\ IsFiniteSet(AtWorkNow \union {r})
        /\ Cardinality(AtWorkNow \union {r}) <= Cardinality(AtWorkNow) + 1
    <3>1. IsFiniteSet(AtWorkNow \union {r}) BY <2>2, FS_AddElement
    <3>2. Cardinality(AtWorkNow \union {r}) = IF r \in AtWorkNow THEN Cardinality(AtWorkNow)
                                             ELSE Cardinality(AtWorkNow) + 1
      BY <2>2, FS_AddElement
    <3>3. Cardinality(AtWorkNow) \in Nat BY <2>2, FS_CardinalityType
    <3>4. QED BY <3>1, <3>2, <3>3
  <2>4. IsFiniteSet(AtWorkNow') /\ Cardinality(AtWorkNow') <= Cardinality(AtWorkNow \union {r})
    BY <2>1, <2>3, FS_Subset
  <2>5. /\ Cardinality(AtWorkNow') \in Nat /\ Cardinality(AtWorkNow) \in Nat
        /\ Cardinality(AtWorkNow \union {r}) \in Nat
    BY <2>2, <2>3, <2>4, FS_CardinalityType
  <2>6. registrations \in Nat BY <1>6 DEF RegistryTyped
  <2>7. QED BY <1>1, <2>2, <2>3, <2>4, <2>5, <2>6 DEF FilesSuffice
<1>10. OneAtATime'
  <2>1. CASE crossed' BY <2>1 DEF OneAtATime
  <2>2. CASE ~crossed'
    <3>1. ~crossed /\ \A q \in Registrars : q # r => ~AtWork(q)' BY <1>1, <1>8, <2>2
    <3>2. now \notin NoJson /\ accepted \subseteq now BY <3>1 DEF OneAtATime
    <3>3. next.pc = "open" /\ accepted \subseteq next.data BY <1>4, <3>2 DEF next
    <3>4. QED BY <1>1, <1>5, <3>1, <3>2, <3>3 DEF OneAtATime
  <2>3. QED BY <2>1, <2>2
<1>11. NoJsonIsWritten'
  <2>1. writer[r].pc = "idle" BY <1>1 DEF AtWork, NotSending
  <2>2. \A q \in Registrars : writer[q].pc = "put" =>
           writer'[q].pc = "put" /\ writer'[q].file = writer[q].file
    BY <1>5, <2>1
  <2>3. QED BY <1>1, <2>2 DEF NoJsonIsWritten
<1>12. QED BY <1>7, <1>9, <1>10, <1>11

LEMMA SomeFileIsFree ==
    ASSUME RegistryIInv, NEW r \in Registrars, writer[r].pc = "open"
    PROVE  Opened \in 1..LastFile /\ Opened # where.register
<1> USE DEF RegistryIInv
<1>1. where.register \in 1..LastFile /\ where.temp \in 0..LastFile /\ where.temp # where.register
  BY DEF RegistryTyped
<1>2. MaxRegistrations \in Nat /\ LastFile = MaxRegistrations + 1
  BY PublishingBounds DEF LastFile
<1>3. CASE where.temp # 0 BY <1>1, <1>2, <1>3 DEF Opened
<1>4. CASE where.temp = 0
  <2> DEFINE FreeFile(n) == n # where.register /\ \A q \in Registrars :
                               AtWork(q) => writer[q].file # n
             fileOf == [q \in AtWorkNow |-> IF q = r THEN where.register ELSE writer[q].file]
  <2>1. \E n \in 1..LastFile : FreeFile(n)
    <3>1. SUFFICES ASSUME \A n \in 1..LastFile : ~FreeFile(n) PROVE FALSE OBVIOUS
    <3>2. r \in AtWorkNow /\ writer[r].file = 0
      <4>1. writer[r] \in WriterStates BY DEF RegistryTyped
      <4>2. QED BY <4>1, WriterFacts DEF AtWorkNow, AtWork
    <3>3. \A n \in 1..LastFile : \E q \in AtWorkNow : fileOf[q] = n
      <4>1. TAKE n \in 1..LastFile
      <4>2. CASE n = where.register BY <3>2, <4>2
      <4>3. CASE n # where.register
        <5>1. PICK q \in Registrars : AtWork(q) /\ writer[q].file = n BY <3>1, <4>3
        <5>2. q \in AtWorkNow /\ q # r BY <1>2, <3>2, <5>1 DEF AtWorkNow
        <5>3. QED BY <5>1, <5>2
      <4>4. QED BY <4>2, <4>3
    <3>4. IsFiniteSet(AtWorkNow) /\ Cardinality(AtWorkNow) <= registrations
      BY DEF FilesSuffice
    <3>5. Cardinality(1..LastFile) = LastFile /\ IsFiniteSet(1..LastFile)
      BY <1>2, FS_Interval
    <3> DEFINE reached == {n \in 1..LastFile : \E q \in AtWorkNow : fileOf[q] = n}
    <3>6. Cardinality(1..LastFile) <= Cardinality(AtWorkNow)
      <4> DEFINE onto == [q \in AtWorkNow |->
                             IF fileOf[q] \in 1..LastFile THEN fileOf[q] ELSE 1]
      <4>1. onto \in Surjection(AtWorkNow, 1..LastFile)
        <5>1. 1 \in 1..LastFile BY <1>2
        <5>2. onto \in [AtWorkNow -> 1..LastFile] BY <5>1
        <5>3. \A n \in 1..LastFile : \E q \in AtWorkNow : onto[q] = n
          <6>1. TAKE n \in 1..LastFile
          <6>2. PICK q \in AtWorkNow : fileOf[q] = n BY <3>3
          <6>3. onto[q] = n BY <6>2
          <6>4. QED BY <6>3
        <5> HIDE DEF onto
        <5>4. QED BY <5>2, <5>3 DEF Surjection
      <4> HIDE DEF onto
      <4>2. QED BY <3>4, <4>1, FS_Surjection
    <3>7. Cardinality(AtWorkNow) \in Nat BY <3>4, FS_CardinalityType
    <3>8. registrations \in 0..MaxRegistrations BY DEF RegistryTyped
    <3>9. QED BY <1>2, <3>4, <3>5, <3>6, <3>7, <3>8
  <2>2. Opened = CHOOSE n \in 1..LastFile : FreeFile(n) BY <1>4 DEF Opened
  <2>3. QED BY <2>1, <2>2
<1>5. QED BY <1>3, <1>4

LEMMA OpenKeeps ==
    ASSUME RegistryIInv, NEW r \in Registrars, OpenTemp(r)
    PROVE  RegistryIInv'
<1> USE DEF RegistryIInv
<1> DEFINE rec == writer[r]
<1>0. PICK f : f = Opened OBVIOUS
<1> DEFINE next == [rec EXCEPT !.pc = "put", !.file = f]
<1>1. /\ rec.pc = "open" /\ inode' = [inode EXCEPT ![f] = Blank]
      /\ where' = [where EXCEPT !.temp = f]
      /\ writer' = [writer EXCEPT ![r] = next]
      /\ UNCHANGED <<accepted, crossed, halfway, mixed, registrations>>
  <2>1. DOMAIN writer = Registrars BY DEF RegistryTyped
  <2>2. QED BY <1>0, <2>1 DEF OpenTemp
<1>2. f \in 1..LastFile /\ f # where.register BY <1>0, <1>1, SomeFileIsFree
<1>3. rec \in WriterStates BY DEF RegistryTyped
<1>4. rec \in Opening /\ rec.slug \in rec.data /\ rec # NotSending
  BY <1>1, <1>3, WriterFacts DEF NotSending
<1>5. /\ next \in WriterStates /\ next.pc = "put" /\ next.file = f
      /\ next.data = rec.data /\ next # NotSending
  <2>1. /\ next.pc = "put" /\ next.file = f /\ next.data = rec.data
        /\ next.slug = rec.slug /\ next \in InWriting
    BY <1>2, <1>4 DEF Opening, InWriting
  <2> HIDE DEF next
  <2>2. next \in WriterStates BY <1>4, <2>1 DEF WriterStates
  <2>3. QED BY <2>1, <2>2, WriterFacts
<1> HIDE DEF next
<1>6. /\ writer'[r] = next /\ \A q \in Registrars : q # r => writer'[q] = writer[q]
      /\ writer' = [q \in Registrars |-> writer'[q]]
      /\ \A q \in Registrars : writer'[q] \in WriterStates
  BY <1>1, <1>5, OneWrites
<1>7. /\ inode' = [n \in 1..LastFile |-> inode'[n]] /\ inode'[f] = Blank /\ inode'[f] \in NoJson
      /\ \A n \in 1..LastFile : n # f => inode'[n] = inode[n]
  <2>1. DOMAIN inode = 1..LastFile BY DEF RegistryTyped
  <2>2. inode' = [n \in 1..LastFile |-> IF n = f THEN Blank ELSE inode[n]] BY <1>1, <2>1
  <2>3. /\ inode'[f] = Blank /\ \A n \in 1..LastFile : n # f => inode'[n] = inode[n]
    BY <1>2, <2>2
  <2>4. inode' = [n \in 1..LastFile |-> inode'[n]] BY <2>2
  <2>5. QED BY <2>3, <2>4 DEF NoJson
<1>8. /\ where' \in [register : 1..LastFile, temp : 0..LastFile]
      /\ where'.register = where.register /\ where'.temp = f
  <2>1. f \in 0..LastFile BY <1>2
  <2>2. QED BY <1>1, <2>1 DEF RegistryTyped
<1>9. RegistryTyped'
  <2>1. \A n \in 1..LastFile : inode'[n] \in NoJson \/ inode'[n] \subseteq Projects
    BY <1>7 DEF RegistryTyped
  <2>2. QED BY <1>1, <1>2, <1>6, <1>7, <1>8, <2>1 DEF RegistryTyped
<1>10. \A q \in Registrars : AtWork(q)' <=> AtWork(q) BY <1>4, <1>5, <1>6 DEF AtWork
<1>11. FilesSuffice'
  <2>1. AtWorkNow' \subseteq AtWorkNow BY <1>10 DEF AtWorkNow
  <2>2. registrations \in Nat BY PublishingBounds DEF RegistryTyped
  <2>3. QED BY <1>1, <2>1, <2>2, FewerSuffice
<1>12. OneAtATime'
  <2>1. CASE crossed BY <1>1, <2>1 DEF OneAtATime
  <2>2. CASE ~crossed
    <3>1. \A q \in Registrars : AtWork(q) => q = r BY <1>4, <2>2 DEF OneAtATime, AtWork
    <3>2. accepted \subseteq rec.data BY <1>4, <2>2 DEF OneAtATime, AtWork
    <3>3. inode'[where'.register] = inode[where.register]
      BY <1>2, <1>7, <1>8 DEF RegistryTyped
    <3>4. inode[where.register] \notin NoJson /\ accepted \subseteq inode[where.register]
      BY <2>2 DEF OneAtATime
    <3>5. QED BY <1>1, <1>5, <1>6, <1>7, <1>8, <1>10, <3>1, <3>2, <3>3, <3>4
          DEF OneAtATime
  <2>3. QED BY <2>1, <2>2
<1>13. NoJsonIsWritten'
  <2>1. CASE halfway \/ mixed BY <1>1, <2>1 DEF NoJsonIsWritten
  <2>2. CASE ~halfway /\ ~mixed
    <3>1. \A n \in 1..LastFile : inode'[n] \in NoJson =>
             \E q \in Registrars : writer'[q].pc = "put" /\ writer'[q].file = n
      <4>1. TAKE n \in 1..LastFile
      <4>2. HAVE inode'[n] \in NoJson
      <4>3. CASE n = f BY <1>5, <1>6, <4>3
      <4>4. CASE n # f
        <5>1. inode[n] \in NoJson BY <1>7, <4>2, <4>4
        <5>2. PICK q \in Registrars : writer[q].pc = "put" /\ writer[q].file = n
          BY <2>2, <5>1 DEF NoJsonIsWritten
        <5>3. QED BY <1>1, <1>6, <5>2
      <4>5. QED BY <4>3, <4>4
    <3>2. QED BY <3>1 DEF NoJsonIsWritten
  <2>3. QED BY <2>1, <2>2
<1>14. QED BY <1>9, <1>11, <1>12, <1>13

LEMMA PutKeeps ==
    ASSUME RegistryIInv, NEW r \in Registrars, PutTemp(r)
    PROVE  RegistryIInv'
<1> USE DEF RegistryIInv
<1> DEFINE rec == writer[r]
           next == [rec EXCEPT !.pc = "replace"]
<1>0. PICK f, data : f = rec.file /\ data = rec.data OBVIOUS
<1>1. PICK text \in Overlays(inode[f], data) :
         /\ rec.pc = "put" /\ inode' = [inode EXCEPT ![f] = text]
         /\ mixed' = (mixed \/ text = Torn)
         /\ writer' = [writer EXCEPT ![r] = next]
         /\ UNCHANGED <<where, accepted, crossed, halfway, registrations>>
  <2>1. DOMAIN writer = Registrars BY DEF RegistryTyped
  <2>2. QED BY <1>0, <2>1 DEF PutTemp
<1>1a. /\ text = data \/ (text = Torn /\ mixed')
       /\ inode[f] = Blank => text = data
  BY <1>1 DEF Overlays
<1>2. rec \in WriterStates BY DEF RegistryTyped
<1>3. /\ rec \in InWriting /\ rec.slug \in data /\ rec # NotSending /\ f \in 1..LastFile
      /\ data \subseteq Projects /\ data \notin NoJson
  <2>1. rec # NotSending BY <1>1, <1>2, WriterFacts
  <2>2. QED BY <1>0, <1>1, <1>2, <2>1, WriterFacts
<1>4. /\ next \in WriterStates /\ next.pc = "replace" /\ next.file = f
      /\ next.data = data /\ next # NotSending
  <2>1. /\ next.pc = "replace" /\ next.file = f /\ next.data = data
        /\ next.slug = rec.slug /\ next \in InWriting
    BY <1>0, <1>3 DEF InWriting
  <2> HIDE DEF next
  <2>2. next \in WriterStates BY <1>3, <2>1 DEF WriterStates
  <2>3. QED BY <2>1, <2>2, WriterFacts
<1> HIDE DEF next
<1>5. /\ writer'[r] = next /\ \A q \in Registrars : q # r => writer'[q] = writer[q]
      /\ writer' = [q \in Registrars |-> writer'[q]]
      /\ \A q \in Registrars : writer'[q] \in WriterStates
  BY <1>1, <1>4, OneWrites
<1>6. /\ inode' = [n \in 1..LastFile |-> inode'[n]] /\ inode'[f] = text
      /\ \A n \in 1..LastFile : n # f => inode'[n] = inode[n]
  <2>1. DOMAIN inode = 1..LastFile BY DEF RegistryTyped
  <2>2. inode' = [n \in 1..LastFile |-> IF n = f THEN text ELSE inode[n]] BY <1>1, <2>1
  <2>3. /\ inode'[f] = text /\ \A n \in 1..LastFile : n # f => inode'[n] = inode[n]
    BY <1>3, <2>2
  <2>4. inode' = [n \in 1..LastFile |-> inode'[n]] BY <2>2
  <2>5. QED BY <2>3, <2>4
<1>7. RegistryTyped'
  <2>1. \A n \in 1..LastFile : inode'[n] \in NoJson \/ inode'[n] \subseteq Projects
    BY <1>3, <1>6, <1>1a DEF RegistryTyped, NoJson
  <2>2. mixed' \in BOOLEAN BY <1>1 DEF RegistryTyped
  <2>3. QED BY <1>1, <1>5, <1>6, <2>1, <2>2 DEF RegistryTyped
<1>8. \A q \in Registrars : AtWork(q)' <=> AtWork(q) BY <1>3, <1>4, <1>5 DEF AtWork
<1>9. FilesSuffice'
  <2>1. AtWorkNow' \subseteq AtWorkNow BY <1>8 DEF AtWorkNow
  <2>2. registrations \in Nat BY PublishingBounds DEF RegistryTyped
  <2>3. QED BY <1>1, <2>1, <2>2, FewerSuffice
<1>10. OneAtATime'
  <2>1. CASE crossed BY <1>1, <2>1 DEF OneAtATime
  <2>2. CASE ~crossed
    <3>1. \A q \in Registrars : AtWork(q) => q = r BY <1>3, <2>2 DEF OneAtATime, AtWork
    <3>2. accepted \subseteq data /\ where.temp = f /\ inode[f] = Blank
      BY <1>0, <1>1, <1>3, <2>2 DEF OneAtATime, AtWork
    <3>2a. inode'[f] = data BY <1>6, <1>1a, <3>2
    <3>3. inode'[where'.register] = inode[where.register]
      BY <1>1, <1>6, <3>2 DEF RegistryTyped
    <3>4. inode[where.register] \notin NoJson /\ accepted \subseteq inode[where.register]
      BY <2>2 DEF OneAtATime
    <3>5. QED BY <1>1, <1>4, <1>5, <1>6, <1>8, <3>1, <3>2, <3>3, <3>4, <3>2a DEF OneAtATime
  <2>3. QED BY <2>1, <2>2
<1>11. NoJsonIsWritten'
  <2>1. CASE halfway \/ mixed' BY <1>1, <2>1 DEF NoJsonIsWritten
  <2>2. CASE ~halfway /\ ~mixed'
    <3>1. \A n \in 1..LastFile : inode'[n] \in NoJson =>
             \E q \in Registrars : writer'[q].pc = "put" /\ writer'[q].file = n
      <4>1. TAKE n \in 1..LastFile
      <4>2. HAVE inode'[n] \in NoJson
      <4>3. n # f /\ inode[n] \in NoJson BY <1>3, <1>6, <1>1a, <2>2, <4>2
      <4>4. PICK q \in Registrars : writer[q].pc = "put" /\ writer[q].file = n
        BY <1>1, <2>2, <4>3 DEF NoJsonIsWritten
      <4>5. QED BY <1>0, <1>5, <4>3, <4>4
    <3>2. QED BY <3>1 DEF NoJsonIsWritten
  <2>3. QED BY <2>1, <2>2
<1>12. QED BY <1>7, <1>9, <1>10, <1>11

\* One that writes nothing now leaves: what it leaves behind can be read.
LEMMA LeavesKeeps ==
    ASSUME RegistryIInv, NEW r \in Registrars, writer' = [writer EXCEPT ![r] = NotSending],
           halfway' \in BOOLEAN, halfway \/ writer[r].pc = "put" => halfway',
           AtWork(r), UNCHANGED <<inode, crossed, mixed, registrations>>,
           where' \in [register : 1..LastFile, temp : 0..LastFile],
           where'.temp # where'.register,
           ~crossed => /\ inode[where'.register] \notin NoJson
                       /\ accepted' \subseteq inode[where'.register]
    PROVE  RegistryIInv'
<1> USE DEF RegistryIInv
<1>1. NotSending \in WriterStates BY DEF WriterStates
<1>2. /\ writer'[r] = NotSending /\ \A q \in Registrars : q # r => writer'[q] = writer[q]
      /\ writer' = [q \in Registrars |-> writer'[q]]
      /\ \A q \in Registrars : writer'[q] \in WriterStates
  BY <1>1, OneWrites
<1>3. RegistryTyped' BY <1>2 DEF RegistryTyped
<1>4. ~AtWork(r)' /\ \A q \in Registrars : q # r => (AtWork(q)' <=> AtWork(q))
  BY <1>2 DEF AtWork
<1>5. FilesSuffice'
  <2>1. AtWorkNow' \subseteq AtWorkNow BY <1>4 DEF AtWorkNow
  <2>2. registrations \in Nat BY PublishingBounds DEF RegistryTyped
  <2>3. QED BY <2>1, <2>2, FewerSuffice
<1>6. OneAtATime'
  <2>1. ~crossed => \A q \in Registrars : ~AtWork(q)' BY <1>4 DEF OneAtATime
  <2>2. QED BY <2>1 DEF OneAtATime
<1>7. NoJsonIsWritten'
  <2>1. ~halfway' => ~halfway /\ writer[r].pc # "put" OBVIOUS
  <2>2. \A q \in Registrars : writer[q].pc = "put" /\ q # r => writer'[q] = writer[q]
    BY <1>2
  <2>3. QED BY <2>1, <2>2 DEF NoJsonIsWritten
<1>8. QED BY <1>3, <1>5, <1>6, <1>7

LEMMA ReplaceKeeps ==
    ASSUME RegistryIInv, NEW r \in Registrars, Replace(r)
    PROVE  RegistryIInv'
<1> USE DEF RegistryIInv
<1>1. /\ writer[r].pc = "replace"
      /\ where' = IF where.temp = 0 THEN where ELSE [register |-> where.temp, temp |-> 0]
      /\ accepted' = IF where.temp = 0 THEN accepted ELSE accepted \union {writer[r].slug}
      /\ writer' = [writer EXCEPT ![r] = NotSending]
      /\ UNCHANGED <<inode, crossed, halfway, mixed, registrations>>
  BY DEF Replace
<1>2. writer[r] \in WriterStates BY DEF RegistryTyped
<1>3. writer[r] # NotSending BY <1>1, <1>2, WriterFacts
<1>4. /\ writer[r].slug \in writer[r].data /\ writer[r].data \notin NoJson
      /\ writer[r].file \in 1..LastFile
  BY <1>1, <1>2, <1>3, WriterFacts
<1>5. /\ where' \in [register : 1..LastFile, temp : 0..LastFile]
      /\ where'.temp # where'.register
  <2>1. LastFile \in Nat BY PublishingBounds DEF LastFile
  <2>2. CASE where.temp = 0 BY <1>1, <2>2 DEF RegistryTyped
  <2>3. CASE where.temp # 0
    <3>1. where' = [register |-> where.temp, temp |-> 0] BY <1>1, <2>3
    <3>2. where.temp \in 1..LastFile BY <2>1, <2>3 DEF RegistryTyped
    <3>3. QED BY <2>1, <3>1, <3>2
  <2>4. QED BY <2>2, <2>3
<1>6. ASSUME ~crossed
      PROVE  /\ inode[where'.register] \notin NoJson
             /\ accepted' \subseteq inode[where'.register]
  <2>1. /\ where.temp = writer[r].file /\ accepted \subseteq writer[r].data
        /\ inode[writer[r].file] = writer[r].data
    BY <1>1, <1>3, <1>6 DEF OneAtATime, AtWork
  <2>2. where.temp # 0 BY <1>4, <2>1
  <2>3. where'.register = writer[r].file /\ accepted' = accepted \union {writer[r].slug}
    BY <1>1, <2>1, <2>2
  <2>4. QED BY <1>4, <2>1, <2>3
<1>7. halfway \in BOOLEAN BY DEF RegistryTyped
<1>8. AtWork(r) BY <1>3 DEF AtWork
<1>9. halfway' \in BOOLEAN /\ (halfway \/ writer[r].pc = "put" => halfway')
  BY <1>1, <1>7
<1>10. QED BY <1>1, <1>5, <1>6, <1>8, <1>9, LeavesKeeps

LEMMA KilledKeeps ==
    ASSUME RegistryIInv, NEW r \in Registrars, RegistrarKilled(r)
    PROVE  RegistryIInv'
<1> USE DEF RegistryIInv
<1>1. /\ AtWork(r) /\ halfway' = (halfway \/ writer[r].pc = "put")
      /\ writer' = [writer EXCEPT ![r] = NotSending]
      /\ UNCHANGED <<inode, where, accepted, crossed, mixed, registrations>>
  BY DEF RegistrarKilled
<1>2. halfway' \in BOOLEAN /\ (halfway \/ writer[r].pc = "put" => halfway') BY <1>1
<1>3. /\ where' \in [register : 1..LastFile, temp : 0..LastFile]
      /\ where'.temp # where'.register
  BY <1>1 DEF RegistryTyped
<1>4. ~crossed => /\ inode[where'.register] \notin NoJson
                  /\ accepted' \subseteq inode[where'.register]
  BY <1>1 DEF OneAtATime
<1>5. QED BY <1>1, <1>2, <1>3, <1>4, LeavesKeeps

LEMMA RegistryStutters ==
    ASSUME RegistryIInv, UNCHANGED registryVars
    PROVE  RegistryIInv'
<1> USE DEF RegistryIInv
<1>1. UNCHANGED <<inode, where, writer, accepted, crossed, halfway, mixed,
               registrations>>
  BY DEF registryVars
<1>2. RegistryTyped' BY <1>1 DEF RegistryTyped
<1>3. AtWorkNow' = AtWorkNow BY <1>1 DEF AtWorkNow, AtWork
<1>4. FilesSuffice' BY <1>1, <1>3 DEF FilesSuffice
<1>5. OneAtATime' BY <1>1 DEF OneAtATime, AtWork
<1>6. NoJsonIsWritten' BY <1>1 DEF NoJsonIsWritten
<1>7. QED BY <1>2, <1>4, <1>5, <1>6

LEMMA RegistryNextKeeps ==
    ASSUME RegistryIInv, RegistryNext
    PROVE  RegistryIInv'
<1>1. ASSUME NEW r \in Registrars, NEW slug \in Projects,
             LoadRegister(r, slug) \/ StampSynced(r, slug)
      PROVE  RegistryIInv'
  BY <1>1, LoadKeeps DEF StampSynced
<1>2. ASSUME NEW r \in Registrars,
             OpenTemp(r) \/ PutTemp(r) \/ Replace(r) \/ RegistrarKilled(r)
      PROVE  RegistryIInv'
  BY <1>2, OpenKeeps, PutKeeps, ReplaceKeeps, KilledKeeps
<1>3. QED BY <1>1, <1>2 DEF RegistryNext

LEMMA RegistryIInvSound == RegistryIInv => RegisterKept
<1> SUFFICES ASSUME RegistryIInv PROVE RegisterKept OBVIOUS
<1>1. where.register \in 1..LastFile BY DEF RegistryIInv, RegistryTyped
<1>2. ~crossed => inode[where.register] \notin NoJson /\ accepted \subseteq inode[where.register]
  BY DEF RegistryIInv, OneAtATime
<1>3. ASSUME ~halfway, ~mixed, \A r \in Registrars : ~AtWork(r) PROVE inode[where.register] \notin NoJson
  <2>1. \A r \in Registrars : writer[r].pc # "put" BY <1>3 DEF AtWork, NotSending
  <2>2. QED BY <1>1, <1>3, <2>1 DEF RegistryIInv, NoJsonIsWritten
<1>4. QED BY <1>2, <1>3 DEF RegisterKept

-----------------------------------------------------------------------------
(* The two readers of text                                                 *)

LEMMA StoriesAreListed == StoriesListed
<1>1. SUFFICES ASSUME NEW lines \in [1..MaxLines -> {"e1", "e2", "story", "text"}],
                      NEW s \in StoriesOf(lines)
               PROVE  LET above == {k \in EpicLines(lines) : k < s.line}
                          under == {n \in EpicLines(lines) : <<n, s>> \in Listed(lines)}
                      IN  IF above = {} THEN under = {}
                          ELSE /\ Max(above) \in under
                               /\ \A m, n \in under : lines[m] = lines[n]
  BY DEF StoriesListed
<1> DEFINE above == {k \in EpicLines(lines) : k < s.line}
           under == {n \in EpicLines(lines) : <<n, s>> \in Listed(lines)}
<1>2. /\ EpicLines(lines) \subseteq 1..MaxLines
      /\ \A k \in EpicLines(lines) : lines[k] \in {"e1", "e2"}
  BY DEF EpicLines
<1>3. s.epic = IF above = {} THEN "" ELSE lines[Max(above)]
  <2>1. PICK n \in DOMAIN lines : s = [line |-> n, epic |-> EpicAt(lines, n)]
    BY DEF StoriesOf
  <2>2. s.line = n /\ s.epic = EpicAt(lines, n) BY <2>1
  <2>3. QED BY <2>2 DEF EpicAt
<1>4. \A n \in EpicLines(lines) : <<n, s>> \in Listed(lines) <=> s.epic = lines[n]
  <2>1. TAKE n \in EpicLines(lines)
  <2>2. <<n, s>> \in EpicLines(lines) \X StoriesOf(lines) OBVIOUS
  <2>3. QED BY <2>2 DEF Listed
<1>5. above # {} => Max(above) \in above
  <2>1. MaxLines \in Nat BY PublishingBounds
  <2>2. above \in SUBSET (0..MaxLines) BY <1>2, <2>1
  <2> HIDE DEF above
  <2>3. QED BY <2>1, <2>2, MaxIsGreatest
<1>6. CASE above = {}
  <2>1. s.epic = "" BY <1>3, <1>6
  <2>2. under = {} BY <1>2, <1>4, <2>1
  <2>3. QED BY <1>6, <2>2
<1>7. CASE above # {}
  <2>1. s.epic = lines[Max(above)] BY <1>3, <1>7
  <2>2. Max(above) \in EpicLines(lines) BY <1>5, <1>7
  <2>3. Max(above) \in under BY <1>4, <2>1, <2>2
  <2>4. \A m, n \in under : lines[m] = lines[n] BY <1>4
  <2> HIDE DEF above, under
  <2>5. QED BY <1>7, <2>3, <2>4 DEF above, under
<1>8. QED BY <1>6, <1>7

LEMMA TurnsDoCover == TurnsCover
<1>1. SUFFICES ASSUME NEW lines \in Conversations,
                      NEW n \in DOMAIN lines
               PROVE  LET turns == {t \in Turns(lines) : n \in t[1]..t[2] - 1}
                          Others(t) == lines[t[1]].role \in {"user", "system"}
                      IN /\ Cardinality(turns) <= 1
                         /\ turns = {} <=> /\ \A k \in 1..n : lines[k].role = "more"
                                           /\ \E k \in DOMAIN lines : lines[k].role # "more"
                         /\ \A t \in turns : IF t \in Fragments(lines) THEN ~Others(t)
                                             ELSE Others(t) \/ ~lines[n].long
  BY DEF TurnsCover
<1> DEFINE turns == {t \in Turns(lines) : n \in t[1]..t[2] - 1}
           heads == {k \in DOMAIN lines : lines[k].role # "more"}
           Others(t) == lines[t[1]].role \in {"user", "system"}
           after(h) == Min({m \in heads : m > h} \union {Len(lines) + 1})
           Left == turns = {} <=> /\ \A k \in 1..n : lines[k].role = "more"
                                  /\ \E k \in DOMAIN lines : lines[k].role # "more"
           SaidIt == \A t \in turns : IF t \in Fragments(lines) THEN ~Others(t)
                                      ELSE Others(t) \/ ~lines[n].long
<1>1a. SUFFICES Cardinality(turns) <= 1 /\ Left /\ SaidIt OBVIOUS
<1>2. MaxLines \in Nat /\ Len(lines) = MaxLines /\ DOMAIN lines = 1..MaxLines
  <2>1. MaxLines \in Nat BY PublishingBounds
  <2> DEFINE Row == [role : {"assistant", "user", "system", "more"}, long : BOOLEAN]
  <2>2. lines \in [1..MaxLines -> Row] BY DEF Conversations
  <2> HIDE DEF Row
  <2>3. lines \in Seq(Row) BY <2>1, <2>2, IsASeq
  <2>4. QED BY <2>1, <2>2, <2>3, LenProperties
<1>3. n \in Nat /\ 1 <= n /\ n <= MaxLines BY <1>2
<1>4. CASE heads = {}
  <2>1. Turns(lines) = {<<1, MaxLines + 1>>} BY <1>2, <1>4 DEF Turns
  <2>2. turns = {<<1, MaxLines + 1>>} BY <1>2, <1>3, <2>1
  <2>3. Cardinality(turns) = 1 BY <2>2, FS_Singleton
  <2>4. \A k \in DOMAIN lines : lines[k].role = "more" BY <1>4
  <2>5. SaidIt
    <3>1. lines[1].role = "more" BY <1>2, <1>3, <2>4
    <3>2. ~Others(<<1, MaxLines + 1>>) BY <3>1
    <3>3. lines[n].long => <<1, MaxLines + 1>> \in Fragments(lines)
      <4>1. RoleOf(lines, <<1, MaxLines + 1>>) = "assistant" BY <3>1 DEF RoleOf
      <4>2. lines[n].long => IsLong(lines, <<1, MaxLines + 1>>) BY <1>2, <1>3 DEF IsLong
      <4>3. QED BY <2>1, <4>1, <4>2 DEF Fragments
    <3>4. QED BY <2>2, <3>2, <3>3
  <2>6. Left BY <2>2, <2>4
  <2>7. QED BY <2>3, <2>5, <2>6
<1>5. CASE heads # {}
  <2>1. Turns(lines) = {<<h, after(h)>> : h \in heads} BY <1>5 DEF Turns
  <2>2. heads \subseteq 1..MaxLines BY <1>2
  <2>3. \A h \in heads : /\ after(h) \in Nat
                         /\ after(h) \in heads \/ after(h) = MaxLines + 1
                         /\ after(h) > h
                         /\ \A m \in heads : m > h => after(h) <= m
    <3>1. TAKE h \in heads
    <3> DEFINE later == {m \in heads : m > h} \union {MaxLines + 1}
    <3>2. later \in SUBSET Nat /\ later # {} BY <1>2, <2>2
    <3>3. after(h) = Min(later) BY <1>2
    <3>4. Min(later) \in later /\ \A y \in later : Min(later) <= y
      <4> HIDE DEF later
      <4>1. QED BY <3>2, MinIsLeast
    <3> DEFINE least == Min(later)
    <3>5. least \in later /\ \A y \in later : least <= y BY <3>4
    <3> HIDE DEF least
    <3>6. least > h BY <1>2, <2>2, <3>5
    <3>7. least \in Nat /\ (least \in heads \/ least = MaxLines + 1) BY <3>2, <3>5
    <3>8. \A m \in heads : m > h => least <= m BY <3>5
    <3>9. QED BY <3>3, <3>6, <3>7, <3>8 DEF least
  <2> HIDE DEF after
  <2>4. \A t \in turns : \E h \in heads : t = <<h, after(h)>> /\ h <= n /\ n < after(h)
    BY <1>3, <2>1, <2>2, <2>3
  <2>5. \A h \in heads : h <= n /\ n < after(h) => <<h, after(h)>> \in turns
    BY <1>3, <2>1, <2>2, <2>3
  <2> HIDE DEF turns
  <2>6. \A t, u \in turns : t = u
    <3>1. TAKE t, u \in turns
    <3>2. PICK g \in heads : t = <<g, after(g)>> /\ g <= n /\ n < after(g) BY <2>4
    <3>3. PICK h \in heads : u = <<h, after(h)>> /\ h <= n /\ n < after(h) BY <2>4
    <3>4. ~(g < h) BY <1>3, <2>2, <2>3, <3>2, <3>3
    <3>5. ~(h < g) BY <1>3, <2>2, <2>3, <3>2, <3>3
    <3>6. g = h BY <2>2, <3>4, <3>5
    <3>7. QED BY <3>2, <3>3, <3>6
  <2>7. Cardinality(turns) <= 1
    <3>1. CASE turns = {} BY <3>1, FS_EmptySet
    <3>2. CASE turns # {}
      <4>1. PICK t : t \in turns BY <3>2
      <4>2. turns = {t} BY <2>6, <4>1
      <4>3. Cardinality(turns) = 1 BY <4>2, FS_Singleton
      <4>4. QED BY <4>3
    <3>3. QED BY <3>1, <3>2
  <2>8. turns = {} <=> \A k \in 1..n : lines[k].role = "more"
    <3>1. ASSUME turns # {} PROVE \E k \in 1..n : lines[k].role # "more"
      <4>1. PICK t : t \in turns BY <3>1
      <4>2. PICK h \in heads : h <= n BY <2>4, <4>1
      <4>3. h \in 1..n BY <1>3, <2>2, <4>2
      <4>4. QED BY <4>3
    <3>2. ASSUME \E k \in 1..n : lines[k].role # "more" PROVE turns # {}
      <4> DEFINE above == {k \in heads : k <= n}
      <4>1. above # {} /\ above \in SUBSET (0..MaxLines) BY <1>2, <1>3, <2>2, <3>2
      <4> DEFINE h == Max(above)
      <4>2. h \in above /\ \A y \in above : h >= y
        <5> HIDE DEF above
        <5>1. QED BY <1>2, <4>1, MaxIsGreatest
      <4> HIDE DEF h
      <4>3. h \in heads /\ h <= n BY <4>2
      <4>4. n < after(h)
        <5>1. CASE after(h) \in heads BY <1>3, <2>2, <2>3, <4>2, <4>3, <5>1
        <5>2. CASE after(h) = MaxLines + 1 BY <1>2, <1>3, <5>2
        <5>3. QED BY <2>3, <4>3, <5>1, <5>2
      <4>5. QED BY <2>5, <4>3, <4>4
    <3>3. QED BY <3>1, <3>2
  <2>9. SaidIt
    <3>1. TAKE t \in turns
    <3>2. PICK h \in heads : t = <<h, after(h)>> /\ h <= n /\ n < after(h) BY <2>4
    <3>3. /\ t[1] = h /\ t[2] = after(h) /\ lines[h].role # "more"
          /\ lines[h].role \in {"assistant", "user", "system", "more"}
      BY <3>2 DEF Conversations
    <3>4. t \in Turns(lines) BY DEF turns
    <3>5. RoleOf(lines, t) = lines[h].role BY <3>3 DEF RoleOf
    <3>6. IsLong(lines, t) \/ ~lines[n].long
      <4>1. n \in t[1]..t[2] - 1 BY <1>3, <2>2, <2>3, <3>2, <3>3
      <4>2. QED BY <4>1 DEF IsLong
    <3>7. t \in Fragments(lines) <=> lines[h].role = "assistant" /\ IsLong(lines, t)
      BY <3>4, <3>5 DEF Fragments
    <3>8. QED BY <3>3, <3>6, <3>7
  <2>10. \E k \in DOMAIN lines : lines[k].role # "more" BY <1>5
  <2>11. Left BY <2>8, <2>10
  <2>12. QED BY <2>7, <2>9, <2>11
<1>6. QED BY <1>4, <1>5

-----------------------------------------------------------------------------
(* What is published                                                       *)

PublishingIInv == SendIInv /\ RegistryIInv

\* An important content is with one thread, or in the log, or missed; what the index holds
\* is what was sent last; a file of the register that is no JSON is being written, unless a
\* writer died over it or two wrote over each other's text; at any moment.
THEOREM PublishingInvariance == PublishingSpec => []PublishingIInv
<1>1. PublishingInit => PublishingIInv
  BY SendInitIInv, RegistryInitIInv DEF PublishingIInv
<1>2. ASSUME PublishingIInv, [PublishingNext]_publishingVars PROVE PublishingIInv'
  <2>1. SendIInv /\ RegistryIInv BY <1>2 DEF PublishingIInv
  <2>2. CASE SendNext /\ UNCHANGED registryVars
    BY <2>1, <2>2, SendNextKeeps, RegistryStutters DEF PublishingIInv
  <2>3. CASE RegistryNext /\ UNCHANGED sendVars
    BY <2>1, <2>3, RegistryNextKeeps, SendStutters DEF PublishingIInv
  <2>4. CASE UNCHANGED publishingVars
    <3>1. UNCHANGED sendVars /\ UNCHANGED registryVars BY <2>4 DEF publishingVars
    <3>2. QED BY <2>1, <3>1, SendStutters, RegistryStutters DEF PublishingIInv
  <2>5. QED BY <1>2, <2>2, <2>3, <2>4 DEF PublishingNext
<1>3. QED BY <1>1, <1>2, PTL DEF PublishingSpec

LEMMA PublishingIInvSound == PublishingIInv => PublishingTypeOK /\ PublishingSound
<1> SUFFICES ASSUME PublishingIInv PROVE PublishingTypeOK /\ PublishingSound OBVIOUS
<1>1. PublishingTypeOK
  <2>1. ASSUME NEW n \in DOMAIN onBus
        PROVE  onBus[n].item \in SourceIds \union {Hashed, Random} /\ onBus[n].draft \in Drafts
    <3>1. onBus \in Seq(BusLines) BY DEF PublishingIInv, SendIInv, SendTyped
    <3>2. onBus[n] \in BusLines BY <3>1, ElementOfSeq, LenProperties
    <3>3. QED BY <3>2 DEF BusLines
  <2>2. QED BY <2>1
        DEF PublishingIInv, SendIInv, SendTyped, RegistryIInv, RegistryTyped, PublishingTypeOK
<1>2. PublishingSound
  BY SendIInvSound, RegistryIInvSound, StoriesAreListed, TurnsDoCover
  DEF PublishingIInv, PublishingSound
<1>3. QED BY <1>1, <1>2

\* Every important publication is noticed once unless its thread died; the index follows what
\* was sent; the register keeps what it accepted of writers one after the other, and can be
\* read unless one died in it or two wrote over each other's text; and stories and turns are
\* found under their heads.
THEOREM PublishingIsSound == PublishingSpec => []PublishingSound
BY PublishingInvariance, PublishingIInvSound, PTL

-----------------------------------------------------------------------------
(* Beside the other services                                               *)

LEMMA ServicesDoIngest == ServicesSpec => IngestSpec
<1>1. ServicesInit => IngestInit BY DEF ServicesInit
<1>2. [ServicesNext]_servicesVars => [IngestNext]_ingestVars BY DEF ServicesNext, servicesVars
<1>3. QED BY <1>1, <1>2, PTL DEF ServicesSpec, IngestSpec

LEMMA ServicesDoPublish == ServicesSpec => PublishingSpec
<1>1. ServicesInit => PublishingInit BY DEF ServicesInit
<1>2. [ServicesNext]_servicesVars => [PublishingNext]_publishingVars
  <2>1. SUFFICES ASSUME [ServicesNext]_servicesVars PROVE [PublishingNext]_publishingVars
    OBVIOUS
  <2>2. CASE UNCHANGED servicesVars BY <2>2 DEF servicesVars
  <2>3. CASE ServicesNext
    <3>1. /\ IF part = "send" THEN SendNext ELSE UNCHANGED sendVars
          /\ IF part = "registry" THEN RegistryNext ELSE UNCHANGED registryVars
      BY <2>3 DEF ServicesNext
    <3>2. QED BY <3>1 DEF PublishingNext, publishingVars
  <2>4. QED BY <2>1, <2>2, <2>3
<1>3. QED BY <1>1, <1>2, PTL DEF ServicesSpec, PublishingSpec

\* Whichever services run: of a document that was stored all is stored, and it is skipped only
\* where its last run stored it, failed or met another content; and what is published, sent
\* and registered is as PublishingSound says.
THEOREM InflowIsSound == ServicesSpec => []InflowSound
<1>1. IngestSound /\ PublishingSound => InflowSound BY DEF InflowSound
<1>2. QED
  BY <1>1, ServicesDoIngest, ServicesDoPublish, IngestIsSound, PublishingIsSound, PTL
=============================================================================
