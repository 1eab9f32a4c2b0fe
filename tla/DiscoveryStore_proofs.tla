------------------------ MODULE DiscoveryStore_proofs ------------------------
(***************************************************************************)
(* DiscoveryStore: its types, the isolation of its locked                  *)
(* read-modify-writes, pins and decay marks that stay, and, in the         *)
(* scenarios of MCDiscoveryStore, that nothing is lost but what another    *)
(* document displaced, that a duplicate survives and that what is pinned   *)
(* is not archived.  For any names, processes, edits and initial           *)
(* documents.                                                              *)
(***************************************************************************)
EXTENDS MCDiscoveryStore, FiniteSetTheorems, TLAPS

\* What holds of the local state r of process p: one that works on a file
\* knows its name, one that has locked it has read it, no body is newer than
\* the last capture c, and only a tool call edits pins.
Sound(p, r, c) ==
    /\ r.pc \in {"writing", "waiting", "locked", "archiving", "superseding"} => r.file \in Names
    /\ r.pc = "locked" => r.body \in Document
    /\ r.body # None => r.body.id <= c
    /\ p \notin Editors /\ r.pc \in {"waiting", "locked"} => r.edit.pinned = Keep

JobsSound == \A p \in Procs : Sound(p, job[p], captured)

\* A process inside the critical section of atomic_frontmatter_rewrite holds
\* the flock of the file it rewrites.
HoldsLock == \A p \in Procs : At(p, "locked") => lock[job[p].file] = p

\* No document is newer than the last capture.
IdsBounded == \A n \in Names : live[n] # None => live[n].id <= captured

IInv ==
    /\ TypeOK
    /\ IsFiniteSet(archive)
    /\ JobsSound
    /\ HoldsLock
    /\ IdsBounded
    /\ RewriteIsolated

-----------------------------------------------------------------------------
(* What the operators return                                               *)

LEMMA DecayedType ==
    ASSUME NEW d \in Document PROVE Decayed(d) \in 0..MaxSalience
<1>1. d.salience \in 0..500 BY DEF Document, MaxSalience
<1>2. CASE BucketRate(d.importance) = 1
  BY <1>1, <1>2 DEF Decayed, MaxSalience
<1>3. CASE BucketRate(d.importance) = 2
  BY <1>1, <1>3 DEF Decayed, MaxSalience
<1>4. CASE BucketRate(d.importance) = 5
  BY <1>1, <1>4 DEF Decayed, MaxSalience
<1>5. QED BY <1>2, <1>3, <1>4 DEF BucketRate

LEMMA NoEditType == NoEdit \in Edit
BY DEF NoEdit, Edit

LEMMA NoJobType == NoJob \in Job
BY NoEditType DEF NoJob, Job

LEMMA SpliceType ==
    ASSUME NEW b \in Document, NEW e \in Edit, day \in Nat
    PROVE  /\ Splice(b, e) \in Document
           /\ Splice(b, e).id = b.id
           /\ e.pinned = Keep => Splice(b, e).pinned = b.pinned
<1> DEFINE imp == IF e.importance = Keep THEN b.importance ELSE e.importance
           sal == IF e.salience = Keep THEN Clamp(b.salience + e.delta) ELSE e.salience
           pin == IF e.pinned = Keep THEN b.pinned ELSE e.pinned
           dec == IF e.decayed = Keep THEN b.decayed ELSE e.decayed
<1>1. b.salience \in Int /\ e.delta \in Int
  BY DEF Document, Edit, MaxSalience
<1>2. Clamp(b.salience + e.delta) \in 0..MaxSalience
  BY <1>1 DEF Clamp, MaxSalience
<1>3. imp \in 0..100 BY DEF Document, Edit
<1>4. sal \in 0..MaxSalience BY <1>2 DEF Edit
<1>5. pin \in BOOLEAN BY DEF Document, Edit
<1>6. dec \in Nat BY DEF Document, Edit
<1>7. b.id \in Nat /\ b.topic \in Topics BY DEF Document
<1>8. Splice(b, e) = [id |-> b.id, topic |-> b.topic, importance |-> imp, salience |-> sal,
                      pinned |-> pin, decayed |-> dec, mtime |-> day]
  BY DEF Splice
<1> HIDE DEF imp, sal, pin, dec
<1>9. Splice(b, e) \in Document
  BY <1>3, <1>4, <1>5, <1>6, <1>7, <1>8 DEF Document
<1>10. Splice(b, e).id = b.id /\ Splice(b, e).pinned = pin
  BY <1>8
<1>11. QED BY <1>9, <1>10 DEF pin

LEMMA DecayEditType ==
    ASSUME NEW d \in Document, NEW date \in Nat
    PROVE  DecayEdit(d, date) \in Edit /\ DecayEdit(d, date).pinned = Keep
BY DecayedType DEF DecayEdit, Edit

-----------------------------------------------------------------------------
(* The invariant: initially, and after each action                         *)

THEOREM InitIInv == Init => IInv
<1> SUFFICES ASSUME Init PROVE IInv OBVIOUS
<1>1. IsFiniteSet(LiveNames)
  BY NamesAssumption, FS_Subset DEF LiveNames
<1>2. captured \in Nat
  BY <1>1, FS_CardinalityType DEF Init
<1>3. TypeOK
  <2>1. live \in [Names -> Document \union {None}]
    BY CorpusAssumption DEF Init
  <2>2. job \in [Procs -> Job]
    BY NoJobType DEF Init
  <2>3. QED BY <1>2, <2>1, <2>2 DEF Init, TypeOK
<1>4. \A p \in Procs : job[p].pc = "idle" /\ job[p].body = None
  BY DEF Init, NoJob
<1>5. IdsBounded
  BY <1>2 DEF Init, LiveNames, IdsBounded
<1>6. IsFiniteSet(archive)
  BY FS_EmptySet DEF Init
<1>7. QED
  BY <1>3, <1>4, <1>5, <1>6 DEF IInv, HoldsLock, JobsSound, Sound, RewriteIsolated, At

\* One process, outside the critical section, changes its local state, and
\* files are only moved away.
LEMMA MoveStep ==
    ASSUME IInv, NEW p \in Procs, NEW r \in Job, Become(p, r),
           r.pc # "locked", Sound(p, r, captured),
           live' \in [Names -> Document \union {None}],
           \A n \in Names : live'[n] = live[n] \/ live'[n] = None,
           superseded' \in [Names -> Stub \union {None}],
           archive' \subseteq [path: Paths, tag: ArchiveTags, id: Nat],
           IsFiniteSet(archive'),
           UNCHANGED <<lock, day, captured>>
    PROVE  IInv'
<1>1. /\ job' \in [Procs -> Job]
      /\ job'[p] = r
      /\ \A q \in Procs : q # p => job'[q] = job[q]
  BY DEF Become, IInv, TypeOK
<1>2. TypeOK'
  BY <1>1 DEF IInv, TypeOK
<1>3. HoldsLock'
  BY <1>1 DEF IInv, HoldsLock, At
<1>4. JobsSound'
  BY <1>1 DEF IInv, JobsSound, Sound
<1>5. IdsBounded'
  BY DEF IInv, IdsBounded
<1>6. RewriteIsolated'
  <2> SUFFICES ASSUME NEW q \in Procs, At(q, "locked")',
                      live'[job'[q].file] # None
               PROVE  \/ live'[job'[q].file].id # job'[q].body.id
                      \/ live'[job'[q].file] = job'[q].body
    BY DEF RewriteIsolated
  <2>1. q # p /\ job'[q] = job[q] /\ At(q, "locked")
    BY <1>1 DEF At
  <2>2. job[q].file \in Names
    BY <2>1 DEF IInv, JobsSound, Sound, At
  <2>3. live'[job[q].file] = live[job[q].file]
    BY <2>1, <2>2
  <2>4. QED BY <2>1, <2>3 DEF IInv, RewriteIsolated
<1>7. QED BY <1>2, <1>3, <1>4, <1>5, <1>6 DEF IInv

\* A step that changes nothing but one process's local state.
LEMMA LocalStep ==
    ASSUME IInv, NEW p \in Procs, NEW r \in Job, Become(p, r),
           r.pc # "locked", Sound(p, r, captured),
           UNCHANGED <<fileVars, lock, day>>
    PROVE  IInv'
<1>1. UNCHANGED <<live, superseded, archive, captured, lock, day>> BY DEF fileVars
<1>2. /\ live' \in [Names -> Document \union {None}]
      /\ superseded' \in [Names -> Stub \union {None}]
      /\ archive' \subseteq [path: Paths, tag: ArchiveTags, id: Nat]
      /\ IsFiniteSet(archive')
  BY <1>1 DEF IInv, TypeOK
<1>3. \A n \in Names : live'[n] = live[n] BY <1>1
<1>4. QED BY <1>1, <1>2, <1>3, MoveStep

\* What a process knows of its own local state.
LEMMA JobFacts ==
    ASSUME IInv, NEW p \in Procs
    PROVE  /\ job[p] \in Job
           /\ Sound(p, job[p], captured)
BY DEF IInv, TypeOK, JobsSound

LEMMA NoJobSound ==
    ASSUME NEW p, NEW c PROVE Sound(p, NoJob, c)
BY DEF Sound, NoJob

LEMMA EndRewriteStep ==
    ASSUME IInv, NEW p \in Procs, EndRewrite(p)
    PROVE  \E r \in Job : Become(p, r) /\ r.pc # "locked" /\ Sound(p, r, captured)
<1> DEFINE r == [job[p] EXCEPT !.pc = "decay", !.file = None, !.body = None, !.edit = NoEdit]
<1>1. CASE p \in Janitors
  <2>1. r \in Job /\ r.pc = "decay" /\ r.body = None
    BY JobFacts, NoEditType DEF Job
  <2>2. Sound(p, r, captured) BY <2>1 DEF Sound
  <2>3. QED BY <1>1, <2>1, <2>2 DEF EndRewrite
<1>2. CASE p \notin Janitors
  BY <1>2, NoJobType, NoJobSound DEF EndRewrite, NoJob
<1>3. QED BY <1>1, <1>2

LEMMA CaptureCheckStep ==
    ASSUME IInv, NEW p \in Procs, NEW n \in Names, CaptureCheck(p, n)
    PROVE  IInv'
<1> DEFINE r == [job[p] EXCEPT !.pc = "writing", !.file = n]
<1>1. r \in Job /\ r.pc = "writing" /\ r.file = n /\ r.body = job[p].body
  BY JobFacts DEF Job
<1>2. Sound(p, r, captured) BY <1>1, JobFacts DEF Sound
<1>3. QED BY <1>1, <1>2, LocalStep DEF CaptureCheck

LEMMA EditStartStep ==
    ASSUME IInv, NEW p \in Editors, NEW n \in Names, NEW e \in Edits, EditStart(p, n, e)
    PROVE  IInv'
<1> DEFINE r == [job[p] EXCEPT !.pc = "waiting", !.file = n, !.edit = e]
<1>1. p \in Procs BY DEF Procs
<1>2. r \in Job /\ r.pc = "waiting" /\ r.file = n /\ r.body = job[p].body
  BY <1>1, JobFacts, EditsAssumption DEF Job
<1>3. Sound(p, r, captured) BY <1>1, <1>2, JobFacts DEF Sound
<1>4. QED BY <1>1, <1>2, <1>3, LocalStep DEF EditStart

LEMMA RewriteMissingStep ==
    ASSUME IInv, NEW p \in Procs, RewriteMissing(p)
    PROVE  IInv'
BY EndRewriteStep, LocalStep DEF RewriteMissing

LEMMA HygieneStartStep ==
    ASSUME IInv, NEW p \in Procs, HygieneStart(p)
    PROVE  IInv'
<1> DEFINE r == [job[p] EXCEPT !.pc = "decay", !.todo = LiveNames, !.runDate = day]
<1>1. day \in Nat /\ LiveNames \subseteq Names BY DEF IInv, TypeOK, LiveNames
<1>2. r \in Job /\ r.pc = "decay" /\ r.body = job[p].body
  BY <1>1, JobFacts DEF Job
<1>3. Sound(p, r, captured) BY <1>2, JobFacts DEF Sound
<1>4. QED BY <1>2, <1>3, LocalStep DEF HygieneStart

LEMMA DecayReadStep ==
    ASSUME IInv, NEW p \in Procs, DecayRead(p)
    PROVE  IInv'
<1>1. PICK n \in Names :
        LET d == live[n]
            rest == [job[p] EXCEPT !.todo = @ \ {n}]
            found == [rest EXCEPT !.file = n, !.body = d]
        IN Become(p, IF Skipped(d, job[p].runDate) THEN rest
                     ELSE IF Decayed(d) < ArchiveThreshold
                     THEN [found EXCEPT !.pc = "archiving"]
                     ELSE [found EXCEPT !.pc = "waiting",
                                        !.edit = DecayEdit(d, job[p].runDate)])
  BY DEF DecayRead
<1> DEFINE d == live[n]
           rest == [job[p] EXCEPT !.todo = @ \ {n}]
           found == [rest EXCEPT !.file = n, !.body = d]
           moving == [found EXCEPT !.pc = "archiving"]
           editing == [found EXCEPT !.pc = "waiting", !.edit = DecayEdit(d, job[p].runDate)]
<1>2. UNCHANGED <<fileVars, lock, day>> /\ job[p].pc = "decay"
  BY DEF DecayRead, At
<1>3. CASE Skipped(d, job[p].runDate)
  <2>1. rest \in Job /\ rest.pc = "decay" /\ rest.body = job[p].body
    BY <1>2, JobFacts DEF Job
  <2>2. Sound(p, rest, captured) BY <2>1, JobFacts DEF Sound
  <2>3. QED BY <1>1, <1>2, <1>3, <2>1, <2>2, LocalStep
<1>4. CASE ~Skipped(d, job[p].runDate)
  <2>1. d \in Document /\ d # None /\ d.id <= captured
    BY <1>4, CorpusAssumption DEF Skipped, IInv, TypeOK, IdsBounded
  <2>2. found \in Job /\ found.file = n /\ found.body = d
    BY <2>1, JobFacts DEF Job
  <2>3. CASE Decayed(d) < ArchiveThreshold
    <3>1. moving \in Job /\ moving.pc = "archiving" /\ moving.file = n /\ moving.body = d
      BY <2>2 DEF Job
    <3>2. Sound(p, moving, captured) BY <2>1, <3>1 DEF Sound
    <3>3. QED BY <1>1, <1>2, <1>4, <2>3, <3>1, <3>2, LocalStep
  <2>4. CASE ~(Decayed(d) < ArchiveThreshold)
    <3>1. job[p].runDate \in Nat BY JobFacts DEF Job
    <3>2. DecayEdit(d, job[p].runDate) \in Edit /\ DecayEdit(d, job[p].runDate).pinned = Keep
      BY <2>1, <3>1, DecayEditType
    <3>3. /\ editing \in Job
          /\ editing.pc = "waiting" /\ editing.file = n /\ editing.body = d
          /\ editing.edit = DecayEdit(d, job[p].runDate)
      BY <2>2, <3>2 DEF Job
    <3>4. Sound(p, editing, captured) BY <2>1, <3>2, <3>3 DEF Sound
    <3>5. QED BY <1>1, <1>2, <1>4, <2>4, <3>3, <3>4, LocalStep
  <2>5. QED BY <2>3, <2>4
<1>5. QED BY <1>3, <1>4

LEMMA DecayDoneStep ==
    ASSUME IInv, NEW p \in Procs, DecayDone(p)
    PROVE  IInv'
<1> DEFINE r == [NoJob EXCEPT !.pc = "dedup", !.todo = LiveNames]
<1>1. r \in Job /\ r.pc = "dedup" /\ r.body = None
  BY NoJobType DEF Job, LiveNames, NoJob
<1>2. Sound(p, r, captured) BY <1>1 DEF Sound
<1>3. QED BY <1>1, <1>2, LocalStep DEF DecayDone

LEMMA DedupReadStep ==
    ASSUME IInv, NEW p \in Procs, DedupRead(p)
    PROVE  IInv'
<1>1. PICK n \in Names :
        LET rest == [job[p] EXCEPT !.todo = @ \ {n}]
        IN Become(p, IF Duplicates(n) = {} THEN rest
                     ELSE [rest EXCEPT !.pc = "superseding", !.file = n,
                                       !.picked = Duplicates(n) \X {"md"}])
  BY DEF DedupRead
<1> DEFINE rest == [job[p] EXCEPT !.todo = @ \ {n}]
           found == [rest EXCEPT !.pc = "superseding", !.file = n,
                                 !.picked = Duplicates(n) \X {"md"}]
<1>2. UNCHANGED <<fileVars, lock, day>> /\ job[p].pc = "dedup"
  BY DEF DedupRead, At
<1>3. rest \in Job /\ rest.pc = "dedup" /\ rest.body = job[p].body
  BY <1>2, JobFacts DEF Job
<1>4. Duplicates(n) \X {"md"} \subseteq Paths
  BY DEF Duplicates, LiveNames, Paths
<1>5. found \in Job /\ found.pc = "superseding" /\ found.file = n /\ found.body = job[p].body
  BY <1>3, <1>4 DEF Job
<1>6. Sound(p, rest, captured) /\ Sound(p, found, captured)
  BY <1>3, <1>5, JobFacts DEF Sound
<1>7. QED BY <1>1, <1>2, <1>3, <1>5, <1>6, LocalStep

LEMMA BackToIdle ==
    ASSUME IInv, NEW p \in Procs, Become(p, NoJob), UNCHANGED <<fileVars, lock, day>>
    PROVE  IInv'
BY NoJobType, NoJobSound, LocalStep DEF NoJob

LEMMA PruneIdentifyStep ==
    ASSUME IInv, NEW p \in Procs, PruneIdentify(p)
    PROVE  IInv'
<1> DEFINE r == [job[p] EXCEPT !.pc = "pruning", !.picked = {path \in Paths : IsCandidate(path)}]
<1>1. r \in Job /\ r.pc = "pruning" /\ r.body = job[p].body
  BY JobFacts DEF Job
<1>2. Sound(p, r, captured) BY <1>1, JobFacts DEF Sound
<1>3. QED BY <1>1, <1>2, LocalStep DEF PruneIdentify

-----------------------------------------------------------------------------
(* The moves                                                               *)

LEMMA DepositType ==
    ASSUME IInv, NEW path \in Paths, NEW tag \in ArchiveTags, NEW d, d.id \in Nat
    PROVE  /\ Deposit(path, tag, d) \subseteq [path: Paths, tag: ArchiveTags, id: Nat]
           /\ IsFiniteSet(Deposit(path, tag, d))
<1>1. IsFiniteSet({a \in archive : <<a.path, a.tag>> # <<path, tag>>})
  BY FS_Subset DEF IInv
<1>2. IsFiniteSet(Deposit(path, tag, d))
  BY <1>1, FS_AddElement DEF Deposit
<1>3. QED BY <1>2 DEF Deposit, IInv, TypeOK

LEMMA DecayArchiveStep ==
    ASSUME IInv, NEW p \in Procs, DecayArchive(p)
    PROVE  IInv'
<1> DEFINE n == job[p].file
           tag == IF InArchive(<<n, "md">>, Plain) THEN <<"date", day>> ELSE Plain
<1>1. PICK r \in Job : Become(p, r) /\ r.pc # "locked" /\ Sound(p, r, captured)
  BY EndRewriteStep DEF DecayArchive
<1>2. n \in Names /\ <<n, "md">> \in Paths
  BY JobFacts DEF DecayArchive, At, Sound, Paths
<1>3. tag \in ArchiveTags
  BY DEF ArchiveTags, Plain, IInv, TypeOK
<1>4. CASE live[n] = None
  BY <1>1, <1>4, LocalStep DEF DecayArchive, fileVars
<1>5. CASE live[n] # None
  <2>1. /\ archive' = Deposit(<<n, "md">>, tag, live[n])
        /\ live' = [live EXCEPT ![n] = None]
        /\ UNCHANGED <<superseded, captured, lock, day>>
    BY <1>5 DEF DecayArchive
  <2>2. live[n].id \in Nat
    BY <1>2, <1>5 DEF IInv, TypeOK, Document
  <2>3. /\ archive' \subseteq [path: Paths, tag: ArchiveTags, id: Nat]
        /\ IsFiniteSet(archive')
    BY <1>2, <1>3, <2>1, <2>2, DepositType
  <2>4. /\ live' \in [Names -> Document \union {None}]
        /\ \A m \in Names : live'[m] = live[m] \/ live'[m] = None
    BY <2>1 DEF IInv, TypeOK
  <2>5. superseded' \in [Names -> Stub \union {None}]
    BY <2>1 DEF IInv, TypeOK
  <2>6. QED BY <1>1, <2>1, <2>3, <2>4, <2>5, MoveStep
<1>6. QED BY <1>4, <1>5

LEMMA SupersedeStep ==
    ASSUME IInv, NEW p \in Procs, Supersede(p)
    PROVE  IInv'
<1>1. PICK path \in job[p].picked :
        /\ Become(p, IF job[p].picked = {path}
                     THEN [job[p] EXCEPT !.picked = {}, !.pc = "dedup", !.file = None]
                     ELSE [job[p] EXCEPT !.picked = @ \ {path}])
        /\ IF Supersedable(path[1])
           THEN /\ superseded' = [superseded EXCEPT ![path[1]] = StubOf(live[path[1]])]
                /\ live' = [live EXCEPT ![path[1]] = None]
           ELSE UNCHANGED <<live, superseded>>
  BY DEF Supersede
<1> DEFINE o == path[1]
           last == [job[p] EXCEPT !.picked = {}, !.pc = "dedup", !.file = None]
           more == [job[p] EXCEPT !.picked = @ \ {path}]
           r == IF job[p].picked = {path} THEN last ELSE more
<1>2. o \in Names /\ job[p].pc = "superseding"
  BY JobFacts DEF Job, Paths, Supersede, At
<1>3. last \in Job /\ last.pc = "dedup" /\ last.body = job[p].body
  BY JobFacts DEF Job
<1>4. more \in Job /\ more.pc = "superseding" /\ more.file = job[p].file /\ more.body = job[p].body
  BY <1>2, JobFacts DEF Job
<1>5. Sound(p, last, captured) /\ Sound(p, more, captured)
  BY <1>2, <1>3, <1>4, JobFacts DEF Sound
<1>6. r \in Job /\ Become(p, r) /\ r.pc # "locked" /\ Sound(p, r, captured)
  BY <1>1, <1>3, <1>4, <1>5
<1>7. /\ live' \in [Names -> Document \union {None}]
      /\ \A m \in Names : live'[m] = live[m] \/ live'[m] = None
      /\ superseded' \in [Names -> Stub \union {None}]
  <2>1. CASE ~Supersedable(o)
    BY <1>1, <2>1 DEF IInv, TypeOK
  <2>2. CASE Supersedable(o)
    <3>1. live[o] \in Document
      BY <1>2, <2>2 DEF Supersedable, IInv, TypeOK
    <3>2. StubOf(live[o]) \in Stub
      BY <3>1 DEF Document, Stub, StubOf
    <3>3. QED BY <1>1, <1>2, <2>2, <3>2 DEF IInv, TypeOK
  <2>3. QED BY <2>1, <2>2
<1>8. UNCHANGED <<archive, captured, lock, day>>
  BY DEF Supersede
<1>9. archive' \subseteq [path: Paths, tag: ArchiveTags, id: Nat] /\ IsFiniteSet(archive')
  BY <1>8 DEF IInv, TypeOK
<1> HIDE DEF r
<1>10. QED BY <1>6, <1>7, <1>8, <1>9, MoveStep

LEMMA PruneMoveStep ==
    ASSUME IInv, NEW p \in Procs, PruneMove(p)
    PROVE  IInv'
<1>1. PICK path \in job[p].picked :
        LET tag == IF InArchive(path, Plain) THEN <<"time", Cardinality(archive)>> ELSE Plain
        IN /\ Become(p, [job[p] EXCEPT !.picked = @ \ {path}])
           /\ IF AtPath(path) = None THEN UNCHANGED <<live, superseded, archive>>
              ELSE /\ archive' = Deposit(path, tag, AtPath(path))
                   /\ IF path[2] = "md"
                      THEN /\ live' = [live EXCEPT ![path[1]] = None]
                           /\ UNCHANGED superseded
                      ELSE /\ superseded' = [superseded EXCEPT ![path[1]] = None]
                           /\ UNCHANGED live
  BY DEF PruneMove
<1> DEFINE tag == IF InArchive(path, Plain) THEN <<"time", Cardinality(archive)>> ELSE Plain
           r == [job[p] EXCEPT !.picked = @ \ {path}]
<1>2. path \in Paths /\ path[1] \in Names /\ job[p].pc = "pruning"
  BY JobFacts DEF Job, Paths, PruneMove, At
<1>3. Cardinality(archive) \in Nat
  BY FS_CardinalityType DEF IInv
<1>4. tag \in ArchiveTags
  BY <1>3 DEF ArchiveTags, Plain
<1>5. r \in Job /\ r.pc = "pruning" /\ r.body = job[p].body
  BY <1>2, JobFacts DEF Job
<1>6. Sound(p, r, captured) BY <1>5, JobFacts DEF Sound
<1>7. UNCHANGED <<captured, lock, day>> BY DEF PruneMove
<1>8. CASE AtPath(path) = None
  BY <1>1, <1>5, <1>6, <1>7, <1>8, LocalStep DEF fileVars
<1>9. CASE AtPath(path) # None
  <2>1. AtPath(path).id \in Nat
    BY <1>2, <1>9 DEF AtPath, IInv, TypeOK, Document, Stub
  <2>2. archive' = Deposit(path, tag, AtPath(path))
    BY <1>1, <1>9
  <2>3. /\ archive' \subseteq [path: Paths, tag: ArchiveTags, id: Nat]
        /\ IsFiniteSet(archive')
    BY <1>2, <1>4, <2>1, <2>2, DepositType
  <2>4. /\ live' \in [Names -> Document \union {None}]
        /\ \A m \in Names : live'[m] = live[m] \/ live'[m] = None
        /\ superseded' \in [Names -> Stub \union {None}]
    BY <1>1, <1>2, <1>9 DEF IInv, TypeOK
  <2>5. QED BY <1>1, <1>5, <1>6, <1>7, <2>3, <2>4, MoveStep
<1>10. QED BY <1>8, <1>9

-----------------------------------------------------------------------------
(* The writes                                                              *)

LEMMA CaptureWriteStep ==
    ASSUME IInv, NEW p \in Procs, NEW topic \in Topics, NEW importance \in Importances,
           CaptureWrite(p, topic, importance)
    PROVE  IInv'
<1> DEFINE f == job[p].file
           new == [id |-> captured + 1, topic |-> topic, importance |-> importance,
                   salience |-> DefaultSalience, pinned |-> FALSE, decayed |-> 0,
                   mtime |-> day]
           after == [NoJob EXCEPT !.pc = "dedup", !.todo = {f}]
           r == IF CaptureDedups THEN after ELSE NoJob
<1>1. f \in Names /\ captured \in Nat /\ day \in Nat
  BY JobFacts DEF CaptureWrite, At, Sound, IInv, TypeOK
<1>2. new \in Document /\ new.id = captured + 1
  BY <1>1, ImportancesAssumption DEF Document, DefaultSalience, MaxSalience
<1>3. after \in Job /\ after.pc = "dedup" /\ after.body = None
  BY <1>1, NoJobType DEF Job, NoJob
<1>4. r \in Job /\ r.pc # "locked" /\ Sound(p, r, captured + 1)
  BY <1>3, NoJobType, NoJobSound DEF NoJob, Sound
<1>5. /\ live' = [live EXCEPT ![f] = new]
      /\ captured' = captured + 1
      /\ Become(p, r)
      /\ UNCHANGED <<superseded, archive, lock, day>>
  BY DEF CaptureWrite
<1> HIDE DEF new, r, after
<1>6. /\ job' \in [Procs -> Job]
      /\ job'[p] = r
      /\ \A q \in Procs : q # p => job'[q] = job[q]
  BY <1>4, <1>5 DEF Become, IInv, TypeOK
<1>7. TypeOK'
  BY <1>1, <1>2, <1>5, <1>6 DEF IInv, TypeOK
<1>8. JobsSound'
  <2> SUFFICES ASSUME NEW q \in Procs PROVE Sound(q, job'[q], captured + 1)
    BY <1>5 DEF JobsSound, Sound
  <2>1. CASE q = p BY <1>4, <1>6, <2>1
  <2>2. CASE q # p
    <3>1. job[q].body # None => job[q].body.id \in Nat
      BY JobFacts DEF Job, Document
    <3>2. QED BY <1>1, <1>6, <2>2, <3>1, JobFacts DEF Sound
  <2>3. QED BY <2>1, <2>2
<1>9. HoldsLock'
  BY <1>4, <1>5, <1>6 DEF IInv, HoldsLock, At
<1>10. IdsBounded'
  <2> SUFFICES ASSUME NEW n \in Names, live'[n] # None PROVE live'[n].id <= captured + 1
    BY <1>5 DEF IdsBounded
  <2>1. CASE n = f
    BY <1>1, <1>2, <1>5, <2>1 DEF IInv, TypeOK
  <2>2. CASE n # f
    <3>1. live'[n] = live[n] BY <1>5, <2>2 DEF IInv, TypeOK
    <3>2. live[n].id \in Nat /\ live[n].id <= captured
      BY <3>1 DEF IInv, TypeOK, IdsBounded, Document
    <3>3. QED BY <1>1, <3>1, <3>2
  <2>3. QED BY <2>1, <2>2
<1>11. RewriteIsolated'
  <2> SUFFICES ASSUME NEW q \in Procs, At(q, "locked")',
                      live'[job'[q].file] # None
               PROVE  \/ live'[job'[q].file].id # job'[q].body.id
                      \/ live'[job'[q].file] = job'[q].body
    BY DEF RewriteIsolated
  <2>1. q # p /\ job'[q] = job[q] /\ At(q, "locked")
    BY <1>4, <1>6 DEF At
  <2>2. job[q].file \in Names /\ job[q].body \in Document /\ job[q].body.id <= captured
    BY <2>1, JobFacts, CorpusAssumption DEF Sound, At
  <2>3. CASE job[q].file = f
    <3>1. live'[f].id = captured + 1
      BY <1>1, <1>2, <1>5 DEF IInv, TypeOK
    <3>2. job[q].body.id \in Nat BY <2>2 DEF Document
    <3>3. QED BY <1>1, <2>1, <2>2, <2>3, <3>1, <3>2
  <2>4. CASE job[q].file # f
    <3>1. live'[job[q].file] = live[job[q].file]
      BY <1>5, <2>2, <2>4 DEF IInv, TypeOK
    <3>2. QED BY <2>1, <3>1 DEF IInv, RewriteIsolated
  <2>5. QED BY <2>3, <2>4
<1>12. QED BY <1>5, <1>7, <1>8, <1>9, <1>10, <1>11 DEF IInv

LEMMA LockAndReadStep ==
    ASSUME IInv, NEW p \in Procs, LockAndRead(p)
    PROVE  IInv'
<1> DEFINE f == job[p].file
           r == [job[p] EXCEPT !.pc = "locked", !.body = live[f]]
<1>1. /\ job[p].pc = "waiting" /\ lock[f] = None /\ live[f] # None
      /\ lock' = [lock EXCEPT ![f] = p]
      /\ Become(p, r)
      /\ UNCHANGED <<live, superseded, archive, captured, day>>
  BY DEF LockAndRead, At, Free, ReadUnderLock, fileVars
<1>2. f \in Names /\ live[f] \in Document /\ live[f].id <= captured
  BY <1>1, JobFacts DEF Sound, IInv, TypeOK, IdsBounded
<1>3. /\ r \in Job /\ r.pc = "locked" /\ r.file = f /\ r.body = live[f]
      /\ r.edit = job[p].edit
  BY <1>2, JobFacts DEF Job
<1>4. Sound(p, r, captured)
  BY <1>1, <1>2, <1>3, JobFacts DEF Sound
<1> HIDE DEF r
<1>5. /\ job' \in [Procs -> Job]
      /\ job'[p] = r
      /\ \A q \in Procs : q # p => job'[q] = job[q]
  BY <1>1, <1>3 DEF Become, IInv, TypeOK
<1>6. TypeOK'
  BY <1>1, <1>2, <1>5 DEF IInv, TypeOK
<1>7. JobsSound' /\ IdsBounded' /\ IsFiniteSet(archive')
  BY <1>1, <1>4, <1>5 DEF IInv, JobsSound, Sound, IdsBounded
<1>8. \A q \in Procs : q # p /\ At(q, "locked") => job[q].file \in Names /\ job[q].file # f
  BY <1>1, <1>2, ProcsAssumption, JobFacts DEF IInv, HoldsLock, Sound, At
<1>9. HoldsLock'
  BY <1>1, <1>2, <1>3, <1>5, <1>8 DEF IInv, TypeOK, HoldsLock, At
<1>10. RewriteIsolated'
  BY <1>1, <1>3, <1>5 DEF IInv, RewriteIsolated, At
<1>11. QED BY <1>6, <1>7, <1>9, <1>10 DEF IInv

LEMMA ReplaceStep ==
    ASSUME IInv, NEW p \in Procs, Replace(p)
    PROVE  IInv'
<1> DEFINE f == job[p].file
           new == Splice(job[p].body, job[p].edit)
<1>1. /\ At(p, "locked")
      /\ live' = [live EXCEPT ![f] = new]
      /\ lock' = [lock EXCEPT ![f] = None]
      /\ UNCHANGED <<superseded, archive, captured, day>>
  BY DEF Replace
<1>2. PICK r \in Job : Become(p, r) /\ r.pc # "locked" /\ Sound(p, r, captured)
  BY EndRewriteStep DEF Replace
<1>3. /\ f \in Names /\ job[p].body \in Document /\ job[p].body # None
      /\ job[p].body.id <= captured /\ job[p].edit \in Edit /\ day \in Nat
  BY <1>1, JobFacts, CorpusAssumption DEF Sound, At, Job, IInv, TypeOK
<1>4. new \in Document /\ new.id <= captured
  BY <1>3, SpliceType
<1> HIDE DEF new
<1>5. /\ job' \in [Procs -> Job]
      /\ job'[p] = r
      /\ \A q \in Procs : q # p => job'[q] = job[q]
  BY <1>2 DEF Become, IInv, TypeOK
<1>6. TypeOK'
  BY <1>1, <1>3, <1>4, <1>5 DEF IInv, TypeOK
<1>7. JobsSound' /\ IsFiniteSet(archive')
  BY <1>1, <1>2, <1>5 DEF IInv, JobsSound, Sound
<1>8. IdsBounded'
  BY <1>1, <1>4 DEF IInv, TypeOK, IdsBounded
<1>9. \A q \in Procs : q # p /\ At(q, "locked") => job[q].file \in Names /\ job[q].file # f
  BY <1>1, <1>3, JobFacts DEF IInv, HoldsLock, Sound, At
<1>10. HoldsLock'
  BY <1>1, <1>2, <1>5, <1>9 DEF IInv, TypeOK, HoldsLock, At
<1>11. RewriteIsolated'
  BY <1>1, <1>2, <1>5, <1>9 DEF IInv, TypeOK, RewriteIsolated, At
<1>12. QED BY <1>6, <1>7, <1>8, <1>10, <1>11 DEF IInv

LEMMA KillStep ==
    ASSUME IInv, NEW p \in Procs, Kill(p)
    PROVE  IInv'
<1>1. /\ Become(p, NoJob)
      /\ lock' = [n \in Names |-> IF lock[n] = p THEN None ELSE lock[n]]
      /\ UNCHANGED <<live, superseded, archive, captured, day>>
  BY DEF Kill, fileVars
<1>2. /\ job' \in [Procs -> Job]
      /\ job'[p] = NoJob
      /\ \A q \in Procs : q # p => job'[q] = job[q]
  BY <1>1, NoJobType DEF Become, IInv, TypeOK
<1>3. TypeOK' BY <1>1, <1>2 DEF IInv, TypeOK
<1>4. JobsSound'
  BY <1>1, <1>2, NoJobSound DEF IInv, JobsSound, Sound
<1>5. HoldsLock'
  <2> SUFFICES ASSUME NEW q \in Procs, At(q, "locked")'
               PROVE  lock'[job'[q].file] = q
    BY DEF HoldsLock
  <2>1. q # p /\ job'[q] = job[q] /\ At(q, "locked")
    BY <1>2 DEF At, NoJob
  <2>2. job[q].file \in Names /\ lock[job[q].file] = q
    BY <2>1, JobFacts DEF IInv, HoldsLock, Sound, At
  <2>3. QED BY <1>1, <2>1, <2>2
<1>6. RewriteIsolated'
  BY <1>1, <1>2 DEF IInv, RewriteIsolated, At, NoJob
<1>7. QED BY <1>1, <1>3, <1>4, <1>5, <1>6 DEF IInv, IdsBounded

LEMMA NewDayStep ==
    ASSUME IInv, NewDay
    PROVE  IInv'
<1>1. day' \in Nat /\ UNCHANGED <<live, superseded, archive, captured, lock, job>>
  BY DEF NewDay, fileVars, IInv, TypeOK
<1>2. QED
  BY <1>1 DEF IInv, TypeOK, JobsSound, Sound, HoldsLock, IdsBounded, RewriteIsolated, At

-----------------------------------------------------------------------------
(* The theorems                                                            *)

\* Every action of DiscoveryStore, taken from a state that satisfies the
\* invariant, leads to one that does.
THEOREM StepIInv == IInv /\ [Next]_vars => IInv'
<1> SUFFICES ASSUME IInv, [Next]_vars PROVE IInv' OBVIOUS
<1>1. CASE UNCHANGED vars
  BY <1>1 DEF vars, IInv, TypeOK, JobsSound, Sound, HoldsLock, IdsBounded, RewriteIsolated, At
<1>2. ASSUME NEW p \in Procs, RewriteStep(p) PROVE IInv'
  BY <1>2, RewriteMissingStep, LockAndReadStep, ReplaceStep DEF RewriteStep
<1>3. ASSUME NEW p \in Procs, DedupStep(p) PROVE IInv'
  <2>1. CASE DedupDone(p) BY <2>1, BackToIdle DEF DedupDone
  <2>2. QED BY <1>3, <2>1, DedupReadStep, SupersedeStep DEF DedupStep
<1>4. ASSUME NEW p \in Editors, EditorStep(p) PROVE IInv'
  BY <1>4, EditStartStep DEF EditorStep
<1>5. ASSUME NEW p \in Procs, DecayStep(p) PROVE IInv'
  BY <1>5, DecayReadStep, DecayArchiveStep, DecayDoneStep DEF DecayStep
<1>6. ASSUME NEW p \in Procs, PruneStep(p) PROVE IInv'
  <2>1. CASE PruneDone(p) BY <2>1, BackToIdle DEF PruneDone
  <2>2. QED BY <1>6, <2>1, PruneIdentifyStep, PruneMoveStep DEF PruneStep
<1>7. ASSUME NEW p \in Procs, CaptureStep(p) PROVE IInv'
  BY <1>7, CaptureCheckStep, CaptureWriteStep DEF CaptureStep
<1>8. Editors \subseteq Procs /\ Janitors \subseteq Procs /\ Pruners \subseteq Procs /\ Writers \subseteq Procs
  BY DEF Procs
<1>9. QED
  BY <1>1, <1>2, <1>3, <1>4, <1>5, <1>6, <1>7, <1>8, HygieneStartStep, KillStep, NewDayStep DEF Next

THEOREM Invariance == Spec => []IInv
BY InitIInv, StepIInv, PTL DEF Spec

\* Every variable and every process's local state keeps its type, whatever the
\* processes and however their steps interleave.
THEOREM TypeCorrect == Spec => []TypeOK
<1>1. IInv => TypeOK BY DEF IInv
<1>2. QED BY <1>1, Invariance, PTL

\* atomic_frontmatter_rewrite is isolated: nobody edits a document between the
\* read and the os.replace of another process's rewrite.
THEOREM Isolation == Spec => []RewriteIsolated
<1>1. IInv => RewriteIsolated BY DEF IInv
<1>2. QED BY <1>1, Invariance, PTL

\* Replace and CaptureWrite are the only actions that put a document at a path.
LEMMA MovesOnly ==
    ASSUME IInv, [Next]_vars, NEW n \in Names,
           \A p \in Procs : /\ ~Replace(p)
                            /\ \A t \in Topics, i \in Importances : ~CaptureWrite(p, t, i)
    PROVE  live'[n] = live[n] \/ live'[n] = None
<1>1. live \in [Names -> Document \union {None}] BY DEF IInv, TypeOK
<1>2. ASSUME NEW p \in Procs, RewriteStep(p) PROVE live' = live
  BY <1>2 DEF RewriteStep, RewriteMissing, LockAndRead, fileVars
<1>3. ASSUME NEW p \in Procs, DedupStep(p) PROVE live'[n] = live[n] \/ live'[n] = None
  BY <1>1, <1>3 DEF DedupStep, DedupRead, DedupDone, Supersede, fileVars
<1>4. ASSUME NEW p \in Procs, DecayStep(p) PROVE live'[n] = live[n] \/ live'[n] = None
  BY <1>1, <1>4 DEF DecayStep, DecayRead, DecayDone, DecayArchive, fileVars
<1>5. ASSUME NEW p \in Procs, PruneStep(p) PROVE live'[n] = live[n] \/ live'[n] = None
  BY <1>1, <1>5 DEF PruneStep, PruneIdentify, PruneDone, PruneMove, fileVars
<1>6. ASSUME NEW p \in Procs, CaptureStep(p) PROVE live' = live
  BY <1>6 DEF CaptureStep, CaptureCheck, fileVars
<1>7. ASSUME NEW p \in Procs, EditorStep(p) \/ HygieneStart(p) \/ Kill(p) \/ NewDay
      PROVE  live' = live
  BY <1>7 DEF EditorStep, EditStart, HygieneStart, Kill, NewDay, fileVars
<1>8. Editors \subseteq Procs /\ Janitors \subseteq Procs /\ Pruners \subseteq Procs /\ Writers \subseteq Procs
  BY DEF Procs
<1>9. CASE NewDay BY <1>9 DEF NewDay, fileVars
<1>10. QED
  BY <1>2, <1>3, <1>4, <1>5, <1>6, <1>7, <1>8, <1>9 DEF Next, vars

\* Only a pin_discovery call that unpins takes a pin away: decay, dedup,
\* prune, captures and concurrent edits of other fields never do.
THEOREM PinsPersist == Spec => PinSticky
<1>1. ASSUME IInv, [Next]_vars PROVE PinStep
  <2> SUFFICES ASSUME NEW n \in Names, live[n] # None, live'[n] # None,
                      live'[n].id = live[n].id, live[n].pinned, ~live'[n].pinned
               PROVE  \E p \in Editors : /\ At(p, "locked")
                                         /\ job[p].file = n
                                         /\ job[p].edit.pinned = FALSE
    BY DEF PinStep, Stays
  <2>1. live'[n] # live[n]
    OBVIOUS
  <2>2. CASE \E p \in Procs : Replace(p)
    <3>1. PICK p \in Procs : Replace(p) BY <2>2
    <3> DEFINE b == job[p].body
               e == job[p].edit
    <3>2. job[p].pc = "locked" /\ live' = [live EXCEPT ![job[p].file] = Splice(b, e)]
      BY <3>1 DEF Replace, At
    <3>3. job[p].file = n /\ live'[n] = Splice(b, e)
      BY <1>1, <2>1, <3>2 DEF IInv, TypeOK
    <3>4. b \in Document /\ e \in Edit /\ day \in Nat /\ (p \notin Editors => e.pinned = Keep)
      BY <1>1, <3>2, JobFacts DEF Sound, Job, IInv, TypeOK
    <3>5. /\ Splice(b, e).id = b.id
          /\ e.pinned = Keep => Splice(b, e).pinned = b.pinned
      BY <3>4, SpliceType
    <3>6. live[n] = b
      BY <1>1, <3>2, <3>3, <3>5 DEF IInv, RewriteIsolated, At
    <3>7. e.pinned # Keep
      BY <3>3, <3>5, <3>6
    <3>8. Splice(b, e).pinned = e.pinned
      BY <3>7 DEF Splice
    <3>9. e.pinned \in BOOLEAN
      BY <3>4, <3>7 DEF Edit
    <3>10. e.pinned = FALSE
      BY <3>3, <3>8, <3>9
    <3>11. QED BY <3>2, <3>3, <3>4, <3>7, <3>10 DEF At
  <2>3. CASE \E p \in Procs, t \in Topics, i \in Importances : CaptureWrite(p, t, i)
    <3>1. PICK p \in Procs, t \in Topics, i \in Importances : CaptureWrite(p, t, i) BY <2>3
    <3>2. job[p].file = n /\ live'[n].id = captured + 1
      BY <1>1, <2>1, <3>1 DEF CaptureWrite, IInv, TypeOK
    <3>3. live[n].id \in Nat /\ live[n].id <= captured /\ captured \in Nat
      BY <1>1 DEF IInv, TypeOK, IdsBounded, Document
    <3>4. QED BY <3>2, <3>3
  <2>4. CASE \A p \in Procs : /\ ~Replace(p)
                              /\ \A t \in Topics, i \in Importances : ~CaptureWrite(p, t, i)
    <3>1. live'[n] = live[n] \/ live'[n] = None
      BY <1>1, <2>4, MovesOnly
    <3>2. QED BY <2>1, <3>1
  <2>5. QED BY <2>2, <2>3, <2>4
<1>2. IInv /\ [Next]_vars => [PinStep]_vars
  BY <1>1
<1>3. QED BY <1>2, Invariance, PTL DEF Spec, PinSticky

-----------------------------------------------------------------------------
(* Who does what                                                           *)

\* Each process does its own job only.
Roles ==
    /\ \A p \in Editors : job[p].pc \in {"idle", "waiting", "locked"}
    /\ \A p \in Janitors : job[p].pc \in {"idle", "decay", "archiving", "waiting", "locked",
                                         "dedup", "superseding"}
    /\ \A p \in Pruners : job[p].pc \in {"idle", "pruning"}
    /\ \A p \in Writers : job[p].pc \in {"idle", "writing", "dedup", "superseding"}

LEMMA OwnJob ==
    ASSUME IInv, NEW p \in Procs, NEW r, Become(p, r)
    PROVE  job'[p] = r /\ \A q \in Procs : q # p => job'[q] = job[q]
BY DEF Become, IInv, TypeOK

LEMMA EndRewritePc ==
    ASSUME IInv, NEW p \in Procs, EndRewrite(p)
    PROVE  job'[p].pc = (IF p \in Janitors THEN "decay" ELSE "idle")
<1>1. job \in [Procs -> Job] /\ job[p] \in Job BY DEF IInv, TypeOK
<1>2. NoJob.pc = "idle" BY DEF NoJob
<1>3. [job[p] EXCEPT !.pc = "decay", !.file = None, !.body = None, !.edit = NoEdit].pc = "decay"
  BY <1>1 DEF Job
<1>4. QED BY <1>1, <1>2, <1>3 DEF EndRewrite, Become

\* Where a process gets with each step of its own.
LEMMA PcSteps ==
    ASSUME IInv, NEW p \in Procs
    PROVE  /\ EditorStep(p) => job'[p].pc = "waiting"
           /\ RewriteStep(p) => job'[p].pc \in {"locked", IF p \in Janitors THEN "decay" ELSE "idle"}
           /\ HygieneStart(p) => job'[p].pc = "decay"
           /\ DecayStep(p) /\ p \in Janitors =>
                 job'[p].pc \in {"decay", "archiving", "waiting", "dedup"}
           /\ DedupStep(p) => job'[p].pc \in {"idle", "dedup", "superseding"}
           /\ PruneStep(p) => job'[p].pc \in {"idle", "pruning"}
           /\ CaptureStep(p) => job'[p].pc \in {"idle", "writing", "dedup"}
           /\ Kill(p) => job'[p].pc = "idle"
<1> job \in [Procs -> Job] /\ job[p] \in Job BY DEF IInv, TypeOK
<1>1. NoJob.pc = "idle" /\ \A S : [NoJob EXCEPT !.pc = "dedup", !.todo = S].pc = "dedup"
  BY DEF NoJob
<1>2. EditorStep(p) => job'[p].pc = "waiting" BY DEF Become, EditorStep, EditStart, Job
<1>3. RewriteStep(p) => job'[p].pc \in {"locked", IF p \in Janitors THEN "decay" ELSE "idle"}
  <2>1. RewriteMissing(p) \/ Replace(p) => job'[p].pc = (IF p \in Janitors THEN "decay" ELSE "idle")
    BY EndRewritePc DEF RewriteMissing, Replace
  <2>2. LockAndRead(p) => job'[p].pc = "locked" BY DEF LockAndRead, Become, Job
  <2>3. QED BY <2>1, <2>2 DEF RewriteStep
<1>4. HygieneStart(p) => job'[p].pc = "decay" BY DEF Become, HygieneStart, Job
<1>5. DecayStep(p) /\ p \in Janitors => job'[p].pc \in {"decay", "archiving", "waiting", "dedup"}
  <2>1. DecayDone(p) => job'[p].pc = "dedup" BY <1>1 DEF Become, DecayDone
  <2>2. DecayArchive(p) /\ p \in Janitors => job'[p].pc = "decay"
    BY EndRewritePc DEF DecayArchive
  <2>3. DecayRead(p) => job'[p].pc \in {"decay", "archiving", "waiting"}
    BY DEF Become, DecayRead, At, Job
  <2>4. QED BY <2>1, <2>2, <2>3 DEF DecayStep
<1>6. DedupStep(p) => job'[p].pc \in {"idle", "dedup", "superseding"}
  <2>1. DedupDone(p) => job'[p].pc = "idle" BY <1>1 DEF DedupDone, Become
  <2>2. DedupRead(p) => job'[p].pc \in {"dedup", "superseding"}
    BY DEF DedupRead, Become, At, Job
  <2>3. Supersede(p) => job'[p].pc \in {"dedup", "superseding"}
    BY DEF Supersede, Become, At, Job
  <2>4. QED BY <2>1, <2>2, <2>3 DEF DedupStep
<1>7. PruneStep(p) => job'[p].pc \in {"idle", "pruning"}
  <2>1. PruneDone(p) => job'[p].pc = "idle" BY <1>1 DEF PruneDone, Become
  <2>2. PruneIdentify(p) => job'[p].pc = "pruning" BY DEF PruneIdentify, Become, Job
  <2>3. PruneMove(p) => job'[p].pc = "pruning" BY DEF PruneMove, Become, At, Job
  <2>4. QED BY <2>1, <2>2, <2>3 DEF PruneStep
<1>8. CaptureStep(p) => job'[p].pc \in {"idle", "writing", "dedup"}
  <2>1. ASSUME NEW n \in Names, CaptureCheck(p, n) PROVE job'[p].pc = "writing"
    BY <2>1 DEF CaptureCheck, Become, Job
  <2>2. ASSUME NEW t \in Topics, NEW i \in Importances, CaptureWrite(p, t, i)
        PROVE  job'[p].pc \in {"idle", "dedup"}
    BY <1>1, <2>2 DEF CaptureWrite, Become
  <2>3. QED BY <2>1, <2>2 DEF CaptureStep
<1>9. Kill(p) => job'[p].pc = "idle" BY <1>1 DEF Become, Kill
<1>10. QED BY <1>2, <1>3, <1>4, <1>5, <1>6, <1>7, <1>8, <1>9

\* A step is one of these, and the jobs of the others stay.
HygieneStep(p) ==
    HygieneStart(p) \/ DecayStep(p) \/ RewriteStep(p) \/ DedupStep(p) \/ Kill(p)
StepOf(p) ==
    \/ p \in Editors /\ (EditorStep(p) \/ RewriteStep(p) \/ Kill(p))
    \/ p \in Janitors /\ HygieneStep(p)
    \/ p \in Pruners /\ (PruneStep(p) \/ Kill(p))
    \/ p \in Writers /\ (CaptureStep(p) \/ DedupStep(p) \/ Kill(p))

LEMMA NextIs == Next <=> NewDay \/ \E p \in Procs : StepOf(p)
BY DEF Next, StepOf, HygieneStep, Procs

LEMMA OthersStay ==
    ASSUME IInv, NEW p \in Procs, StepOf(p)
    PROVE  \A q \in Procs : q # p => job'[q] = job[q]
<1> DEFINE Stay == \A q \in Procs : q # p => job'[q] = job[q]
<1>1. ASSUME NEW r, Become(p, r) PROVE Stay BY <1>1, OwnJob
<1> HIDE DEF Stay
<1>2. EndRewrite(p) => Stay BY <1>1 DEF EndRewrite
<1>3. EditorStep(p) \/ HygieneStart(p) \/ PruneStep(p) \/ CaptureStep(p) \/ Kill(p) => Stay
  BY <1>1 DEF EditorStep, EditStart, HygieneStart, PruneStep, PruneIdentify, PruneMove,
             PruneDone, CaptureStep, CaptureCheck, CaptureWrite, Kill
<1>4. RewriteStep(p) \/ DecayStep(p) \/ DedupStep(p) => Stay
  BY <1>1, <1>2 DEF RewriteStep, RewriteMissing, LockAndRead, Replace, DecayStep, DecayRead,
             DecayArchive, DecayDone, DedupStep, DedupRead, Supersede, DedupDone
<1>5. Stay BY <1>3, <1>4 DEF StepOf, HygieneStep
<1>6. QED BY <1>5 DEF Stay

LEMMA RolesStep == IInv /\ Roles /\ [Next]_vars => Roles'
<1> SUFFICES ASSUME IInv, Roles, [Next]_vars PROVE Roles' OBVIOUS
<1>1. CASE UNCHANGED vars BY <1>1 DEF vars, Roles
<1>2. CASE NewDay BY <1>2 DEF NewDay, Roles
<1>3. ASSUME NEW p \in Procs, StepOf(p) PROVE Roles'
  <2>1. \A q \in Procs : q # p => job'[q] = job[q] BY <1>3, OthersStay
  <2>2. /\ p \in Editors => job'[p].pc \in {"idle", "waiting", "locked"}
        /\ p \in Janitors => job'[p].pc \in {"idle", "decay", "archiving", "waiting", "locked",
                                             "dedup", "superseding"}
        /\ p \in Pruners => job'[p].pc \in {"idle", "pruning"}
        /\ p \in Writers => job'[p].pc \in {"idle", "writing", "dedup", "superseding"}
    BY <1>3, PcSteps, RolesAssumption DEF StepOf, HygieneStep
  <2>3. QED BY <2>1, <2>2 DEF Roles, Procs
<1>4. QED BY <1>1, <1>2, <1>3, NextIs

\* An idle process that steps is not idle any more.
LEMMA IdleStarts ==
    ASSUME IInv, NEW p \in Procs, job[p].pc = "idle", StepOf(p)
    PROVE  job'[p].pc # "idle"
<1>1. /\ ~RewriteStep(p) /\ ~DecayStep(p) /\ ~DedupStep(p) /\ ~Kill(p)
      /\ ~PruneMove(p) /\ ~PruneDone(p)
      /\ \A t \in Topics, i \in Importances : ~CaptureWrite(p, t, i)
  BY DEF RewriteStep, RewriteMissing, LockAndRead, Replace, DecayStep, DecayRead, DecayArchive,
         DecayDone, DedupStep, DedupRead, Supersede, DedupDone, Kill, PruneMove, PruneDone,
         CaptureWrite, At
<1>2. EditorStep(p) \/ HygieneStart(p) => job'[p].pc # "idle" BY PcSteps
<1>3. PruneIdentify(p) => job'[p].pc # "idle" BY DEF PruneIdentify, Become, IInv, TypeOK, Job
<1>4. ASSUME NEW n \in Names, CaptureCheck(p, n) PROVE job'[p].pc # "idle"
  BY <1>4 DEF CaptureCheck, Become, IInv, TypeOK, Job
<1>5. QED BY <1>1, <1>2, <1>3, <1>4 DEF StepOf, HygieneStep, PruneStep, CaptureStep

\* A process that is inside the critical section after a step was there, or has just read.
LEMMA LockedFrom ==
    ASSUME IInv, NEW p \in Procs, StepOf(p), NEW q \in Procs, job'[q].pc = "locked"
    PROVE  \/ q # p /\ job'[q] = job[q]
           \/ /\ q = p /\ job[p].pc = "waiting" /\ live[job[p].file] # None
              /\ job[p].file \in Names
              /\ job'[p].file = job[p].file /\ job'[p].body = live[job[p].file]
              /\ job'[p].edit = job[p].edit /\ job'[p].runDate = job[p].runDate
              /\ UNCHANGED <<live, superseded, archive, captured, day>>
<1>1. CASE q # p BY <1>1, OthersStay
<1>2. CASE q = p
  <2>1. job \in [Procs -> Job] /\ job[p] \in Job BY DEF IInv, TypeOK
  <2>2. RewriteStep(p) BY <1>2, PcSteps DEF StepOf, HygieneStep
  <2>3. ~RewriteMissing(p) /\ ~Replace(p)
    BY <1>2, EndRewritePc DEF RewriteMissing, Replace
  <2>4. LockAndRead(p) BY <2>2, <2>3 DEF RewriteStep
  <2>5. job[p].file \in Names BY <2>4, JobFacts DEF LockAndRead, At, Sound
  <2>6. QED BY <1>2, <2>1, <2>4, <2>5 DEF LockAndRead, ReadUnderLock, Become, At, Job, fileVars
<1>3. QED BY <1>1, <1>2

\* A document that is at a path after a step was there, was spliced or was captured.
Captured(p, n) ==
    /\ job[p].pc = "writing" /\ job[p].file = n /\ captured' = captured + 1
    /\ live'[n].id = captured + 1 /\ live'[n].decayed = 0 /\ ~live'[n].pinned
    /\ UNCHANGED <<superseded, archive, day>>

LEMMA LiveFrom ==
    ASSUME IInv, NEW p \in Procs, StepOf(p), NEW n \in Names, live'[n] # None
    PROVE  \/ live'[n] = live[n]
           \/ Replace(p) /\ job[p].file = n /\ live'[n] = Splice(job[p].body, job[p].edit)
           \/ Captured(p, n)
<1>1. live \in [Names -> Document \union {None}] BY DEF IInv, TypeOK
<1>2. EditorStep(p) \/ HygieneStart(p) \/ Kill(p) => live' = live
  BY DEF EditorStep, EditStart, HygieneStart, Kill, fileVars
<1>3. RewriteMissing(p) \/ LockAndRead(p) => live' = live
  BY DEF RewriteMissing, LockAndRead, fileVars
<1>4. Replace(p) => \/ live'[n] = live[n]
                    \/ job[p].file = n /\ live'[n] = Splice(job[p].body, job[p].edit)
  BY <1>1 DEF Replace
<1>5. DecayStep(p) => live'[n] = live[n]
  BY <1>1 DEF DecayStep, DecayRead, DecayDone, DecayArchive, fileVars
<1>6. DedupStep(p) => live'[n] = live[n]
  BY <1>1 DEF DedupStep, DedupRead, DedupDone, Supersede, fileVars
<1>7. PruneStep(p) => live'[n] = live[n]
  BY <1>1 DEF PruneStep, PruneIdentify, PruneDone, PruneMove, fileVars
<1>8. CaptureStep(p) => live'[n] = live[n] \/ Captured(p, n)
  <2>1. ASSUME NEW m \in Names, CaptureCheck(p, m) PROVE live' = live
    BY <2>1 DEF CaptureCheck, fileVars
  <2>2. ASSUME NEW t \in Topics, NEW i \in Importances, CaptureWrite(p, t, i)
        PROVE  live'[n] = live[n] \/ Captured(p, n)
    BY <1>1, <2>2 DEF CaptureWrite, Captured, At
  <2>3. QED BY <2>1, <2>2 DEF CaptureStep
<1>9. QED BY <1>2, <1>3, <1>4, <1>5, <1>6, <1>7, <1>8 DEF StepOf, HygieneStep, RewriteStep

LEMMA ReplaceFacts ==
    ASSUME IInv, NEW p \in Procs, Replace(p)
    PROVE  /\ job[p].pc = "locked" /\ job[p].file \in Names /\ lock[job[p].file] = p
           /\ job[p].body \in Document /\ job[p].edit \in Edit /\ day \in Nat
           /\ live' = [live EXCEPT ![job[p].file] = Splice(job[p].body, job[p].edit)]
           /\ UNCHANGED <<superseded, archive, captured, day>>
BY JobFacts DEF Replace, Sound, Job, At, IInv, TypeOK, HoldsLock

-----------------------------------------------------------------------------
(* The marks of the decay pass                                             *)

OneJanitor == \A i, j \in Janitors : i = j

\* No document is marked with a day that is still to come when the files are first looked at.
PastMarks == \A d \in Corpus : d.decayed <= 1

\* Nothing is marked later than t, of the files and of what was read under a lock.
Dated(t) ==
    /\ \A n \in Names : live[n] # None => live[n].decayed <= t
    /\ \A p \in Procs : job[p].pc = "locked" => job[p].body.decayed <= t

\* No mark is later than today, or than the day on which a pass began that is under way.
Marking == {"decay", "archiving", "waiting", "locked"}
DatesIInv ==
    /\ IInv /\ Roles
    /\ Dated(day)
    /\ \A p \in Editors : job[p].pc \in {"waiting", "locked"} => job[p].edit.decayed = Keep
    /\ \A j \in Janitors : job[j].pc \in Marking =>
          /\ job[j].runDate <= day /\ Dated(job[j].runDate)
          /\ job[j].pc \in {"waiting", "locked"} => job[j].edit.decayed = job[j].runDate

LEMMA SpliceMark ==
    ASSUME NEW b \in Document, NEW e \in Edit
    PROVE  /\ e.decayed = Keep => Splice(b, e).decayed = b.decayed
           /\ e.decayed # Keep => Splice(b, e).decayed = e.decayed
BY DEF Splice

LEMMA DatedStep ==
    ASSUME IInv, NEW p \in Procs, StepOf(p), NEW t \in Nat, Dated(t),
           Replace(p) => job[p].edit.decayed \in {Keep} \union 0..t
    PROVE  Dated(t)'
<1>1. ASSUME NEW n \in Names, live'[n] # None PROVE live'[n].decayed <= t
  <2>1. CASE live'[n] = live[n] BY <1>1, <2>1 DEF Dated
  <2>2. CASE Replace(p) /\ live'[n] = Splice(job[p].body, job[p].edit)
    <3>1. /\ job[p].pc = "locked" /\ job[p].body \in Document /\ job[p].edit \in Edit
      BY <2>2, ReplaceFacts
    <3>2. job[p].body.decayed <= t BY <3>1 DEF Dated
    <3>3. QED BY <2>2, <3>1, <3>2, SpliceMark
  <2>3. CASE Captured(p, n) BY <2>3 DEF Captured
  <2>4. QED BY <1>1, <2>1, <2>2, <2>3, LiveFrom
<1>2. ASSUME NEW q \in Procs, job'[q].pc = "locked" PROVE job'[q].body.decayed <= t
  BY <1>2, LockedFrom DEF Dated
<1>3. QED BY <1>1, <1>2 DEF Dated

\* An editing tool call does not mark.
LEMMA EditorMarks ==
    ASSUME IInv, NEW p \in Editors, StepOf(p), job'[p].pc \in {"waiting", "locked"}
    PROVE  \/ job'[p].edit.decayed = Keep
           \/ job[p].pc \in {"waiting", "locked"} /\ job'[p].edit = job[p].edit
<1>1. p \in Procs /\ job \in [Procs -> Job] /\ job[p] \in Job BY DEF Procs, IInv, TypeOK
<1>2. EditorStep(p) \/ RewriteStep(p) \/ Kill(p) BY RolesAssumption DEF StepOf
<1>3. CASE EditorStep(p)
  BY <1>1, <1>3, EditsAssumption DEF EditorStep, EditStart, Become, Job
<1>4. CASE job'[p].pc = "locked" BY <1>1, <1>4, LockedFrom
<1>5. CASE job'[p].pc = "waiting" /\ ~EditorStep(p) BY <1>1, <1>2, <1>5, PcSteps
<1>6. QED BY <1>3, <1>4, <1>5

\* The pass marks with the day on which it began.
LEMMA JanitorMarks ==
    ASSUME IInv, NEW j \in Janitors, StepOf(j), job'[j].pc \in Marking
    PROVE  \/ job'[j].pc = "decay" /\ job'[j].runDate = day
           \/ /\ job[j].pc \in Marking /\ job'[j].runDate = job[j].runDate
              /\ job'[j].pc \in {"waiting", "locked"} =>
                    \/ job'[j].edit.decayed = job[j].runDate
                    \/ job[j].pc \in {"waiting", "locked"} /\ job'[j].edit = job[j].edit
<1>1. j \in Procs /\ job \in [Procs -> Job] /\ job[j] \in Job BY DEF Procs, IInv, TypeOK
<1>2. HygieneStep(j) BY RolesAssumption DEF StepOf
<1>3. CASE HygieneStart(j) BY <1>1, <1>3 DEF HygieneStart, Become, Job
<1>4. CASE RewriteStep(j)
  <2>1. CASE job'[j].pc = "locked" BY <1>1, <2>1, LockedFrom DEF Marking
  <2>2. CASE job'[j].pc # "locked"
    <3>1. ~LockAndRead(j) BY <1>1, <2>2 DEF LockAndRead, Become, Job
    <3>2. job[j].pc \in {"waiting", "locked"} /\ EndRewrite(j)
      BY <1>4, <3>1 DEF RewriteStep, RewriteMissing, Replace, At
    <3>3. job'[j].pc = "decay" /\ job'[j].runDate = job[j].runDate
      BY <1>1, <3>2 DEF EndRewrite, Become, Job
    <3>4. QED BY <3>2, <3>3 DEF Marking
  <2>3. QED BY <2>1, <2>2
<1>5. CASE DecayStep(j)
  <2>1. ~DecayDone(j) BY <1>1, PcSteps DEF DecayDone, Become, NoJob, Marking
  <2>2. CASE DecayArchive(j)
    <3>1. job[j].pc = "archiving" /\ EndRewrite(j) BY <2>2 DEF DecayArchive, At
    <3>2. job'[j].pc = "decay" /\ job'[j].runDate = job[j].runDate
      BY <1>1, <3>1 DEF EndRewrite, Become, Job
    <3>3. QED BY <3>1, <3>2 DEF Marking
  <2>3. CASE DecayRead(j)
    <3>1. job[j].pc = "decay" BY <2>3 DEF DecayRead, At
    <3>2. job'[j].runDate = job[j].runDate BY <1>1, <2>3 DEF DecayRead, Become, Job
    <3>3. job'[j].pc = "waiting" => job'[j].edit.decayed = job[j].runDate
      BY <1>1, <2>3, <3>1 DEF DecayRead, DecayEdit, Become, Job
    <3>4. job'[j].pc # "locked" BY <1>1, <2>3, PcSteps DEF DecayStep
    <3>5. QED BY <3>1, <3>2, <3>3, <3>4 DEF Marking
  <2>4. QED BY <1>5, <2>1, <2>2, <2>3 DEF DecayStep
<1>6. ~DedupStep(j) /\ ~Kill(j) BY <1>1, PcSteps DEF Marking
<1>7. QED BY <1>2, <1>3, <1>4, <1>5, <1>6 DEF HygieneStep

LEMMA DatesSteps == OneJanitor /\ DatesIInv /\ [Next]_vars => DatesIInv'
<1> SUFFICES ASSUME OneJanitor, DatesIInv, [Next]_vars PROVE DatesIInv' OBVIOUS
<1>1. IInv /\ IInv' /\ Roles' /\ day \in Nat BY StepIInv, RolesStep DEF DatesIInv, IInv, TypeOK
<1>2. CASE UNCHANGED vars BY <1>1, <1>2 DEF vars, DatesIInv, Dated
<1>3. CASE NewDay
  <2>1. day' = day + 1 /\ UNCHANGED <<live, job>> BY <1>3 DEF NewDay, fileVars
  <2>2. \A n \in Names : live[n] # None => live[n].decayed \in Nat
    BY <1>1 DEF IInv, TypeOK, Document
  <2>3. \A p \in Procs : job[p].pc = "locked" => job[p].body.decayed \in Nat
    BY <1>1, JobFacts DEF Sound, Document
  <2>4. Dated(day)' BY <1>1, <2>1, <2>2, <2>3 DEF DatesIInv, Dated
  <2>5. \A j \in Janitors : job[j].runDate \in Nat BY <1>1 DEF IInv, TypeOK, Job, Procs
  <2>6. \A j \in Janitors : job[j].pc \in Marking =>
           job'[j].runDate <= day' /\ Dated(job[j].runDate)'
    BY <1>1, <2>1, <2>5 DEF DatesIInv, Dated
  <2>7. QED BY <1>1, <2>1, <2>4, <2>6 DEF DatesIInv
<1>4. ASSUME NEW p \in Procs, StepOf(p) PROVE DatesIInv'
  <2>1. \A q \in Procs : q # p => job'[q] = job[q] BY <1>1, <1>4, OthersStay
  <2>2. day' = day
    BY <1>4 DEF StepOf, HygieneStep, EditorStep, EditStart, RewriteStep, RewriteMissing,
       LockAndRead, Replace, HygieneStart, DecayStep, DecayRead, DecayArchive, DecayDone,
       DedupStep, DedupRead, Supersede, DedupDone, PruneStep, PruneIdentify, PruneMove,
       PruneDone, CaptureStep, CaptureCheck, CaptureWrite, Kill
  <2>3. ASSUME Replace(p)
        PROVE  \/ p \in Editors /\ job[p].edit.decayed = Keep
               \/ p \in Janitors /\ job[p].pc \in Marking /\ job[p].edit.decayed = job[p].runDate
    <3>1. job[p].pc = "locked" BY <1>1, <2>3, ReplaceFacts
    <3>2. p \in Editors \union Janitors BY <3>1 DEF DatesIInv, Roles, Procs
    <3>3. QED BY <3>1, <3>2 DEF DatesIInv, Marking
  <2>4. \A j \in Janitors : job[j].runDate \in Nat BY <1>1 DEF IInv, TypeOK, Job, Procs
  <2>5. Dated(day)'
    <3>1. Replace(p) => job[p].edit.decayed \in {Keep} \union 0..day
      BY <1>1, <2>3, <2>4 DEF DatesIInv
    <3>2. QED BY <1>1, <1>4, <2>2, <3>1, DatedStep DEF DatesIInv
  <2>6. ASSUME NEW e \in Editors, job'[e].pc \in {"waiting", "locked"}
        PROVE  job'[e].edit.decayed = Keep
    <3>1. CASE e = p BY <1>1, <1>4, <2>6, <3>1, EditorMarks DEF DatesIInv
    <3>2. CASE e # p BY <2>1, <2>6, <3>2 DEF DatesIInv, Procs
    <3>3. QED BY <3>1, <3>2
  <2>7. ASSUME NEW j \in Janitors, job'[j].pc \in Marking
        PROVE  /\ job'[j].runDate <= day' /\ (Dated(job[j].runDate))'
               /\ job'[j].pc \in {"waiting", "locked"} => job'[j].edit.decayed = job'[j].runDate
    <3>1. ASSUME j = p => \/ job'[j].pc = "decay" /\ job'[j].runDate = day
                          \/ job[j].pc \in Marking /\ job'[j].runDate = job[j].runDate
          PROVE  job'[j].runDate <= day' /\ (Dated(job[j].runDate))'
      <4>1. CASE job'[j].runDate = day BY <1>1, <2>2, <2>5, <4>1 DEF Dated
      <4>2. CASE job[j].pc \in Marking /\ job'[j].runDate = job[j].runDate
        <5> PICK t \in Nat : t = job[j].runDate BY <2>4
        <5>1. Dated(t) /\ t <= day BY <4>2 DEF DatesIInv, Dated
        <5>2. Replace(p) => job[p].edit.decayed \in {Keep} \union 0..t
          BY <2>3, <2>4 DEF OneJanitor
        <5>3. Dated(t)' BY <1>1, <1>4, <5>1, <5>2, DatedStep
        <5>4. QED BY <2>2, <4>2, <5>1, <5>3 DEF Dated
      <4>3. CASE j # p BY <2>1, <2>7, <4>2, <4>3 DEF Procs
      <4>4. QED BY <3>1, <4>1, <4>2, <4>3
    <3>2. CASE j # p
      <4>1. job'[j] = job[j] BY <2>1, <3>2 DEF Procs
      <4>2. QED BY <2>7, <3>1, <3>2, <4>1 DEF DatesIInv
    <3>3. CASE j = p
      <4>1. \/ job'[j].pc = "decay" /\ job'[j].runDate = day
            \/ /\ job[j].pc \in Marking /\ job'[j].runDate = job[j].runDate
               /\ job'[j].pc \in {"waiting", "locked"} =>
                     \/ job'[j].edit.decayed = job[j].runDate
                     \/ job[j].pc \in {"waiting", "locked"} /\ job'[j].edit = job[j].edit
        BY <1>1, <1>4, <2>7, <3>3, JanitorMarks
      <4>2. job'[j].runDate <= day' /\ (Dated(job[j].runDate))' BY <3>1, <4>1
      <4>3. QED BY <4>1, <4>2 DEF DatesIInv
    <3>4. QED BY <3>2, <3>3
  <2>8. QED BY <1>1, <2>2, <2>5, <2>6, <2>7 DEF DatesIInv
<1>5. QED BY <1>2, <1>3, <1>4, NextIs

LEMMA DatesInit == PastMarks /\ Init => DatesIInv
<1> SUFFICES ASSUME PastMarks, Init PROVE DatesIInv OBVIOUS
<1>1. IInv BY InitIInv
<1>2. \A p \in Procs : job[p].pc = "idle" BY DEF Init, NoJob
<1>3. \A n \in Names : live[n] # None => live[n].decayed <= 1 BY DEF Init, PastMarks
<1>4. day = 1 BY DEF Init
<1>5. QED BY <1>1, <1>2, <1>3, <1>4 DEF DatesIInv, Roles, Dated, Marking, Procs

\* With one nightly job at a time the mark of a document that stays where it is never goes
\* back, across midnights, kills and edits by others (apply_decay; the edits that it makes
\* are atomic_frontmatter_rewrite's).
THEOREM MarksRise ==
    ASSUME OneJanitor, PastMarks PROVE Spec => DecayDateMonotone
<1>1. DatesIInv /\ [Next]_vars =>
         \A n \in Names : Stays(n) => live'[n].decayed >= live[n].decayed
  <2> SUFFICES ASSUME DatesIInv, [Next]_vars, NEW n \in Names, Stays(n)
               PROVE  live'[n].decayed >= live[n].decayed
    OBVIOUS
  <2>1. IInv /\ live[n] # None /\ live'[n] # None /\ live'[n].id = live[n].id
    BY DEF DatesIInv, Stays
  <2>2. live[n] \in Document /\ live[n].decayed \in Nat /\ live[n].id <= captured
        /\ live[n].id \in Nat /\ captured \in Nat
    BY <2>1 DEF IInv, TypeOK, Document, IdsBounded
  <2>3. CASE live' = live BY <2>2, <2>3
  <2>4. ASSUME NEW p \in Procs, StepOf(p) PROVE live'[n].decayed >= live[n].decayed
    <3>1. CASE live'[n] = live[n] BY <2>2, <3>1
    <3>2. CASE Captured(p, n) BY <2>1, <2>2, <3>2 DEF Captured
    <3>3. CASE Replace(p) /\ job[p].file = n /\ live'[n] = Splice(job[p].body, job[p].edit)
      <4>1. /\ job[p].pc = "locked" /\ job[p].body \in Document /\ job[p].edit \in Edit
            /\ day \in Nat
        BY <2>1, <3>3, ReplaceFacts
      <4>2. live'[n].id = job[p].body.id BY <3>3, <4>1, SpliceType
      <4>3. live[n] = job[p].body BY <2>1, <3>3, <4>1, <4>2 DEF IInv, RewriteIsolated, At
      <4>4. CASE job[p].edit.decayed = Keep BY <2>2, <3>3, <4>1, <4>3, <4>4, SpliceMark
      <4>5. CASE job[p].edit.decayed # Keep
        <5>1. p \in Janitors BY <4>1, <4>5 DEF DatesIInv, Roles, Procs
        <5>2. Dated(job[p].runDate) /\ job[p].edit.decayed = job[p].runDate
              /\ job[p].runDate \in Nat
          BY <2>1, <4>1, <5>1, JobFacts DEF DatesIInv, Marking, Job
        <5>3. live'[n].decayed = job[p].runDate BY <3>3, <4>1, <4>5, <5>2, SpliceMark
        <5>4. live[n].decayed <= job[p].runDate BY <2>1, <5>2 DEF Dated
        <5>5. QED BY <2>2, <5>2, <5>3, <5>4
      <4>6. QED BY <4>4, <4>5
    <3>4. QED BY <2>1, <2>4, <3>1, <3>2, <3>3, LiveFrom
  <2>5. NewDay => live' = live BY DEF NewDay, fileVars
  <2>6. UNCHANGED vars => live' = live BY DEF vars
  <2>7. QED BY <2>3, <2>4, <2>5, <2>6, NextIs
<1>2. Init => DatesIInv BY DatesInit
<1>3. DatesIInv /\ [Next]_vars => DatesIInv' BY DatesSteps
<1>4. DatesIInv /\ [Next]_vars =>
         [\A n \in Names : Stays(n) => live'[n].decayed >= live[n].decayed]_vars
  BY <1>1
<1>5. QED BY <1>2, <1>3, <1>4, PTL DEF Spec, DecayDateMonotone

-----------------------------------------------------------------------------
(* The scenarios of MCDiscoveryStore                                       *)

OneWriter == \A v, w \in Writers : v = w
OnePruner == \A p, q \in Pruners : p = q

\* Without captures a path has one document only: what a rewrite has read is still what is
\* there, or nothing is there, and what was archived from there is the same.
SameDocument ==
    /\ \A p \in Procs : job[p].pc = "locked" => live[job[p].file] \in {None, job[p].body}
    /\ \A a \in archive, n \in Names : a.path = <<n, "md">> =>
          /\ live[n] # None => live[n].id = a.id
          /\ \A p \in Procs : job[p].pc = "locked" /\ job[p].file = n => job[p].body.id = a.id

\* What a hygiene pass is about to move is there: a duplicate next to the file that stays,
\* or a file that is archived and was not pinned from the start of the pass on.
Moving(j) ==
    /\ job[j].pc = "superseding" =>
          /\ live[job[j].file] # None
          /\ job[j].picked \subseteq (Names \ {job[j].file}) \X {"md"}
          /\ \A path \in job[j].picked : /\ live[path[1]] # None
                                         /\ live[path[1]].topic = live[job[j].file].topic
    /\ job[j].pc = "archiving" =>
          live[job[j].file] # None /\ live[job[j].file].id \notin guarded[j]

\* The archive has one file of a name, and the names that a prune gives after a collision
\* are in order.
OneEach == \A a, b \in archive : a.path = b.path /\ a.tag = b.tag => a = b
Timed == \A a \in archive : a.tag[1] = "time" => a.tag[2] < Cardinality(archive)

\* Nothing that is about to be pruned was pinned from the start of the prune on.
Pruning(p) ==
    job[p].pc = "pruning" => \A path \in job[p].picked :
        /\ AtPath(path) # None => AtPath(path).id \notin guarded[p]
        /\ path[2] = "superseded" => superseded[path[1]] # None

Idles == \A p \in Procs \ Active(scenario) : job[p].pc = "idle"

\* A document that is moved away, or displaced: there it stays.
Elsewhere(i) ==
    \/ \E n \in Names : superseded[n] # None /\ superseded[n].id = i
    \/ \E a \in archive : a.id = i
    \/ i \in displaced

\* What a rewrite is about to put back is at its place or was moved away.
PutsBack ==
    \A p \in Procs : job[p].pc = "locked" =>
        \/ live[job[p].file] # None /\ live[job[p].file].id = job[p].body.id
        \/ Elsewhere(job[p].body.id)

\* A capture is about to write where nothing is, or over what a rewrite put back there.
WritesFree ==
    \A w \in Writers : job[w].pc = "writing" =>
        live[job[w].file] = None \/ Elsewhere(live[job[w].file].id)

\* Every document is live or elsewhere.
AllKept ==
    \A i \in 1..captured : (\E n \in Names : live[n] # None /\ live[n].id = i) \/ Elsewhere(i)

FilesIInv ==
    /\ IInv /\ Roles /\ Idles
    /\ OneEach /\ Timed
    /\ scenario = "hygiene" =>
          /\ SameDocument
          /\ OneJanitor => \A j \in Janitors : Moving(j)
    /\ scenario \notin {"hygiene", "crossing"} /\ OnePruner => \A p \in Pruners : Pruning(p)
    /\ scenario # "crossing" => displaced = {}
    /\ OneWriter => PutsBack /\ WritesFree /\ AllKept

\* Only those of the scenario do something.
LEMMA ActiveOnly ==
    ASSUME IInv, Idles, MCNext, NEW p \in Procs, StepOf(p)
    PROVE  p \in Active(scenario)
<1> SUFFICES ASSUME p \notin Active(scenario) PROVE FALSE OBVIOUS
<1>1. job[p].pc = "idle" /\ job'[p] = job[p] BY DEF Idles, MCNext
<1>2. QED BY <1>1, IdleStarts

LEMMA IdlesStep == IInv /\ Idles /\ [MCNext]_mcVars => Idles'
<1> SUFFICES ASSUME IInv, Idles, [MCNext]_mcVars PROVE Idles' OBVIOUS
<1>1. CASE UNCHANGED mcVars BY <1>1 DEF mcVars, vars, Idles
<1>2. CASE MCNext BY <1>2 DEF MCNext, Idles
<1>3. QED BY <1>1, <1>2

\* A rewrite and an editor leave each document where it is.
LEMMA ReplaceKeeps ==
    ASSUME IInv, SameDocument, NEW p \in Procs, Replace(p), NEW n \in Names, live[n] # None
    PROVE  live'[n] # None /\ live'[n].id = live[n].id /\ live'[n].topic = live[n].topic
<1>1. /\ job[p].pc = "locked" /\ job[p].file \in Names /\ job[p].body \in Document
      /\ job[p].edit \in Edit /\ day \in Nat
      /\ live' = [live EXCEPT ![job[p].file] = Splice(job[p].body, job[p].edit)]
  BY ReplaceFacts
<1>2. Splice(job[p].body, job[p].edit) \in Document
      /\ Splice(job[p].body, job[p].edit).id = job[p].body.id
  BY <1>1, SpliceType
<1>3. Splice(job[p].body, job[p].edit).topic = job[p].body.topic BY DEF Splice
<1>4. live \in [Names -> Document \union {None}] BY DEF IInv, TypeOK
<1>5. CASE job[p].file = n
  <2>1. live[n] = job[p].body BY <1>1, <1>5 DEF SameDocument
  <2>2. live'[n] = Splice(job[p].body, job[p].edit) BY <1>1, <1>4, <1>5
  <2>3. QED BY <1>2, <1>3, <2>1, <2>2, CorpusAssumption
<1>6. CASE job[p].file # n BY <1>1, <1>4, <1>6
<1>7. QED BY <1>5, <1>6

LEMMA EditorsKeep ==
    ASSUME IInv, SameDocument, NEW p \in Editors, StepOf(p), NEW n \in Names, live[n] # None
    PROVE  live'[n] # None /\ live'[n].id = live[n].id /\ live'[n].topic = live[n].topic
<1>1. p \in Procs BY DEF Procs
<1>2. EditorStep(p) \/ RewriteStep(p) \/ Kill(p) BY RolesAssumption DEF StepOf
<1>3. CASE Replace(p) BY <1>1, <1>3, ReplaceKeeps
<1>4. CASE ~Replace(p)
  BY <1>2, <1>4 DEF EditorStep, EditStart, RewriteStep, RewriteMissing, LockAndRead, Kill, fileVars
<1>5. QED BY <1>3, <1>4

\* What is in the archive after a step was there, or was live where it says.
LEMMA ArchiveFrom ==
    ASSUME IInv, NEW p \in Procs, StepOf(p), NEW a \in archive', a \notin archive
    PROVE  \/ /\ DecayArchive(p) /\ job[p].pc = "archiving" /\ job[p].file \in Names
              /\ a.path = <<job[p].file, "md">> /\ a.tag[1] \in {"plain", "date"}
              /\ live[job[p].file] # None /\ a.id = live[job[p].file].id
              /\ live' = [live EXCEPT ![job[p].file] = None]
           \/ \E path \in job[p].picked :
                 /\ PruneMove(p) /\ job[p].pc = "pruning"
                 /\ a.path = path /\ AtPath(path) # None /\ a.id = AtPath(path).id
<1>1. ~UNCHANGED archive OBVIOUS
<1>2. CASE DecayArchive(p)
  <2>1. job[p].pc = "archiving" /\ job[p].file \in Names
    BY <1>2, JobFacts DEF DecayArchive, At, Sound
  <2>2. live[job[p].file] # None /\ live' = [live EXCEPT ![job[p].file] = None]
        /\ \E tag \in {Plain, <<"date", day>>} :
              archive' = Deposit(<<job[p].file, "md">>, tag, live[job[p].file])
    BY <1>1, <1>2 DEF DecayArchive
  <2>3. PICK tag \in {Plain, <<"date", day>>} :
           a = [path |-> <<job[p].file, "md">>, tag |-> tag, id |-> live[job[p].file].id]
    BY <2>2 DEF Deposit
  <2>4. QED BY <1>2, <2>1, <2>2, <2>3 DEF Plain
<1>3. CASE PruneMove(p)
  <2>1. PICK path \in job[p].picked : /\ AtPath(path) # None
           /\ \E tag : archive' = Deposit(path, tag, AtPath(path))
    BY <1>1, <1>3 DEF PruneMove
  <2>2. a.path = path /\ a.id = AtPath(path).id BY <2>1 DEF Deposit
  <2>3. QED BY <1>3, <2>1, <2>2 DEF PruneMove, At
<1>4. CASE ~DecayArchive(p) /\ ~PruneMove(p)
  BY <1>1, <1>4 DEF StepOf, HygieneStep, EditorStep, EditStart, RewriteStep, RewriteMissing,
     LockAndRead, Replace, HygieneStart, DecayStep, DecayRead, DecayDone, DedupStep, DedupRead,
     Supersede, DedupDone, PruneStep, PruneIdentify, PruneDone, CaptureStep, CaptureCheck,
     CaptureWrite, Kill, fileVars
<1>5. QED BY <1>2, <1>3, <1>4

LEMMA SameDocumentStep ==
    ASSUME IInv, Roles, SameDocument, NEW p \in Editors \union Janitors, StepOf(p)
    PROVE  SameDocument'
<1>1. p \in Procs /\ job[p].pc \notin {"writing", "pruning"} BY DEF Roles, Procs
<1>2. ASSUME NEW q \in Procs, job'[q].pc = "locked"
      PROVE  live'[job'[q].file] \in {None, job'[q].body}
  <2>1. CASE q # p /\ job'[q] = job[q]
    <3>1. job[q].pc = "locked" BY <1>2, <2>1
    <3>2. job[q].file \in Names /\ lock[job[q].file] = q
      BY <3>1, JobFacts DEF Sound, IInv, HoldsLock, At
    <3>3. live[job[q].file] \in {None, job[q].body} BY <3>1 DEF SameDocument
    <3>4. CASE Replace(p) /\ job[p].file = job[q].file BY <1>1, <2>1, <3>2, <3>4, ReplaceFacts
    <3>5. ~Captured(p, job[q].file) BY <1>1 DEF Captured
    <3>6. QED BY <1>1, <2>1, <3>2, <3>3, <3>4, <3>5, LiveFrom
  <2>2. CASE q = p BY <1>1, <1>2, <2>2, LockedFrom
  <2>3. QED BY <1>1, <1>2, <2>1, <2>2, LockedFrom
<1>3. ASSUME NEW a \in archive, NEW n \in Names, a.path = <<n, "md">>
      PROVE  /\ live'[n] # None => live'[n].id = a.id
             /\ \A q \in Procs : job'[q].pc = "locked" /\ job'[q].file = n
                   => job'[q].body.id = a.id
  <2>1. live[n] # None => live[n].id = a.id BY <1>3 DEF SameDocument
  <2>2. \A q \in Procs : job[q].pc = "locked" /\ job[q].file = n => job[q].body.id = a.id
    BY <1>3 DEF SameDocument
  <2>3. ASSUME live'[n] # None PROVE live'[n].id = a.id
    <3>1. CASE Replace(p) /\ job[p].file = n /\ live'[n] = Splice(job[p].body, job[p].edit)
      <4>1. /\ job[p].pc = "locked" /\ job[p].body \in Document /\ job[p].edit \in Edit
            /\ day \in Nat
        BY <1>1, <3>1, ReplaceFacts
      <4>2. QED BY <1>1, <2>2, <3>1, <4>1, SpliceType
    <3>2. ~Captured(p, n) BY <1>1 DEF Captured
    <3>3. QED BY <1>1, <2>1, <2>3, <3>1, <3>2, LiveFrom
  <2>4. ASSUME NEW q \in Procs, job'[q].pc = "locked", job'[q].file = n
        PROVE  job'[q].body.id = a.id
    BY <1>1, <2>1, <2>2, <2>4, LockedFrom
  <2>5. QED BY <2>3, <2>4
<1>4. ASSUME NEW a \in archive', a \notin archive, NEW n \in Names, a.path = <<n, "md">>
      PROVE  /\ live'[n] = None
             /\ \A q \in Procs : job'[q].pc = "locked" /\ job'[q].file = n
                   => job'[q].body.id = a.id
  <2>1. /\ job[p].pc = "archiving" /\ job[p].file = n /\ live[n] # None /\ a.id = live[n].id
        /\ live' = [live EXCEPT ![n] = None]
    BY <1>1, <1>4, ArchiveFrom
  <2>2. live'[n] = None BY <2>1 DEF IInv, TypeOK
  <2>3. ASSUME NEW q \in Procs, job'[q].pc = "locked", job'[q].file = n
        PROVE  job'[q].body.id = a.id
    <3>1. job'[q] = job[q] BY <1>1, <2>1, <2>3, LockedFrom
    <3>2. live[n] = job[q].body BY <2>1, <2>3, <3>1 DEF SameDocument
    <3>3. QED BY <2>1, <3>1, <3>2
  <2>4. QED BY <2>2, <2>3
<1>5. QED BY <1>2, <1>3, <1>4 DEF SameDocument

\* What a process guards only gets less while it works, and is pinned wherever it is.
LEMMA GuardedShrinks ==
    ASSUME MCNext, NEW p \in Procs, job'[p].pc # "idle"
    PROVE  /\ guarded'[p] \subseteq Pinned'
           /\ job[p].pc # "idle" => guarded'[p] \subseteq guarded[p]
BY DEF MCNext

\* A document or stub at a path is not pinned everywhere unless it is pinned there.
LEMMA PinnedThere ==
    ASSUME NEW path \in Paths, AtPath(path) # None, ~AtPath(path).pinned
    PROVE  AtPath(path).id \notin Pinned
<1>1. path[1] \in Names /\ path[2] \in {"md", "superseded"} BY DEF Paths
<1>2. AtPath(path) \in {e \in {live[path[1]], superseded[path[1]]} \ {None} : e.pinned = FALSE}
  BY <1>1 DEF AtPath
<1>3. AtPath(path).id \in CopyIds(FALSE) BY <1>1, <1>2 DEF CopyIds
<1>4. QED BY <1>3 DEF Pinned

\* The janitor itself gets to a move by reading what it is about to move.
LEMMA MovingOwnStep ==
    ASSUME IInv, Roles, NEW j \in Janitors, StepOf(j), Moving(j), MCNext
    PROVE  Moving(j)'
<1>1. j \in Procs /\ job \in [Procs -> Job] /\ job[j] \in Job
      /\ live \in [Names -> Document \union {None}] /\ superseded \in [Names -> Stub \union {None}]
  BY DEF Procs, IInv, TypeOK
<1>2. HygieneStep(j) BY RolesAssumption DEF StepOf
<1>3. ASSUME job'[j].pc = "superseding"
      PROVE  /\ live'[job'[j].file] # None
             /\ job'[j].picked \subseteq (Names \ {job'[j].file}) \X {"md"}
             /\ \A path \in job'[j].picked : /\ live'[path[1]] # None
                                             /\ live'[path[1]].topic = live'[job'[j].file].topic
  <2>1. DedupStep(j) /\ ~DedupDone(j)
    <3>1. DedupStep(j) BY <1>1, <1>2, <1>3, PcSteps DEF HygieneStep
    <3>2. ~DedupDone(j) BY <1>1, <1>3 DEF DedupDone, Become, NoJob
    <3>3. QED BY <3>1, <3>2
  <2>2. CASE DedupRead(j)
    <3>1. PICK n \in Names :
             LET rest == [job[j] EXCEPT !.todo = @ \ {n}]
             IN Become(j, IF Duplicates(n) = {} THEN rest
                          ELSE [rest EXCEPT !.pc = "superseding", !.file = n,
                                            !.picked = Duplicates(n) \X {"md"}])
      BY <2>2 DEF DedupRead
    <3>2. job[j].pc = "dedup" /\ live' = live BY <2>2 DEF DedupRead, At, fileVars
    <3>3. Duplicates(n) # {} BY <1>1, <1>3, <3>1, <3>2 DEF Become, Job
    <3>4. job'[j].file = n /\ job'[j].picked = Duplicates(n) \X {"md"}
      BY <1>1, <3>1, <3>3 DEF Become, Job
    <3>5. live[n] # None /\ Duplicates(n) = {o \in LiveNames \ {n} : live[o].topic = live[n].topic}
      BY <3>3 DEF Duplicates
    <3>6. QED BY <3>2, <3>4, <3>5 DEF LiveNames
  <2>3. CASE Supersede(j)
    <3>1. PICK path \in job[j].picked :
             /\ Become(j, IF job[j].picked = {path}
                          THEN [job[j] EXCEPT !.picked = {}, !.pc = "dedup", !.file = None]
                          ELSE [job[j] EXCEPT !.picked = @ \ {path}])
             /\ IF Supersedable(path[1])
                THEN /\ superseded' = [superseded EXCEPT ![path[1]] = StubOf(live[path[1]])]
                     /\ live' = [live EXCEPT ![path[1]] = None]
                ELSE UNCHANGED <<live, superseded>>
      BY <2>3 DEF Supersede
    <3>2. job[j].pc = "superseding" BY <2>3 DEF Supersede, At
    <3>3. job[j].picked # {path} BY <1>1, <1>3, <3>1 DEF Become, Job
    <3>4. job'[j].file = job[j].file /\ job'[j].picked = job[j].picked \ {path}
      BY <1>1, <3>1, <3>3 DEF Become, Job
    <3>5. /\ live[job[j].file] # None
          /\ job[j].picked \subseteq (Names \ {job[j].file}) \X {"md"}
          /\ \A other \in job[j].picked : /\ live[other[1]] # None
                                          /\ live[other[1]].topic = live[job[j].file].topic
      BY <3>2 DEF Moving
    <3>6. \A m \in Names : m # path[1] => live'[m] = live[m] BY <1>1, <3>1
    <3>7. job[j].file \in Names BY <1>1, <3>2, JobFacts DEF Sound
    <3>8. \A other \in job'[j].picked : other[1] # path[1] /\ other[1] \in Names
      BY <3>1, <3>4, <3>5
    <3>9. job[j].file # path[1] BY <3>1, <3>5
    <3>10. live'[job[j].file] = live[job[j].file] BY <3>6, <3>7, <3>9
    <3>11. QED BY <3>4, <3>5, <3>6, <3>8, <3>10
  <2>4. QED BY <2>1, <2>2, <2>3 DEF DedupStep
<1>4. ASSUME job'[j].pc = "archiving"
      PROVE  live'[job'[j].file] # None /\ live'[job'[j].file].id \notin guarded'[j]
  <2>1. DecayRead(j)
    <3>1. DecayStep(j) BY <1>1, <1>2, <1>4, PcSteps DEF HygieneStep
    <3>2. ~DecayDone(j) BY <1>1, <1>4 DEF DecayDone, Become, NoJob
    <3>3. ~DecayArchive(j) BY <1>1, <1>4, EndRewritePc DEF DecayArchive
    <3>4. QED BY <3>1, <3>2, <3>3 DEF DecayStep
  <2>2. PICK n \in Names :
           LET d == live[n]
               rest == [job[j] EXCEPT !.todo = @ \ {n}]
               found == [rest EXCEPT !.file = n, !.body = d]
           IN Become(j, IF Skipped(d, job[j].runDate) THEN rest
                        ELSE IF Decayed(d) < ArchiveThreshold
                        THEN [found EXCEPT !.pc = "archiving"]
                        ELSE [found EXCEPT !.pc = "waiting",
                                           !.edit = DecayEdit(d, job[j].runDate)])
    BY <2>1 DEF DecayRead
  <2>3. job[j].pc = "decay" /\ UNCHANGED <<live, superseded>> BY <2>1 DEF DecayRead, At, fileVars
  <2>4. ~Skipped(live[n], job[j].runDate) BY <1>1, <1>4, <2>2, <2>3 DEF Become, Job
  <2>5. live[n] # None /\ ~live[n].pinned BY <2>4 DEF Skipped
  <2>6. job'[j].file = n BY <1>1, <1>4, <2>2, <2>4 DEF Become, Job
  <2>7. live[n].id \notin Pinned
    <3>1. <<n, "md">> \in Paths /\ AtPath(<<n, "md">>) = live[n] BY DEF Paths, AtPath
    <3>2. QED BY <2>5, <3>1, PinnedThere
  <2>8. Pinned' = Pinned BY <2>3 DEF Pinned, CopyIds
  <2>9. QED BY <1>1, <1>4, <2>3, <2>5, <2>6, <2>7, <2>8, GuardedShrinks
<1>5. QED BY <1>3, <1>4 DEF Moving

LEMMA MovingStep ==
    ASSUME IInv, Roles, SameDocument, MCNext, OneJanitor, NEW j \in Janitors, Moving(j),
           NewDay \/ \E p \in Editors \union Janitors : StepOf(p)
    PROVE  Moving(j)'
<1>1. ASSUME job'[j] = job[j],
             \A n \in Names : live[n] # None => /\ live'[n] # None /\ live'[n].id = live[n].id
                                                /\ live'[n].topic = live[n].topic
      PROVE  Moving(j)'
  <2>1. job[j] \in Job /\ j \in Procs BY DEF Procs, IInv, TypeOK
  <2>2. job[j].pc \in {"superseding", "archiving"} => job[j].file \in Names
    BY <2>1, JobFacts DEF Sound
  <2>3. job[j].pc = "archiving" => guarded'[j] \subseteq guarded[j]
    BY <1>1, <2>1, GuardedShrinks
  <2>4. job[j].pc = "superseding" => \A path \in job[j].picked : path[1] \in Names
    BY DEF Moving
  <2>5. QED BY <1>1, <2>2, <2>3, <2>4 DEF Moving
<1>2. CASE NewDay BY <1>1, <1>2 DEF NewDay, fileVars
<1>3. ASSUME NEW p \in Editors, StepOf(p) PROVE Moving(j)'
  <2>1. job'[j] = job[j] BY <1>3, OthersStay, RolesAssumption DEF Procs
  <2>2. QED BY <1>1, <1>3, <2>1, EditorsKeep
<1>4. ASSUME NEW p \in Janitors, StepOf(p) PROVE Moving(j)'
  BY <1>4, MovingOwnStep DEF OneJanitor
<1>5. QED BY <1>2, <1>3, <1>4

\* A prune moves the document of one path, under an archive name that is not taken, or
\* finds nothing there.
LEMMA PruneMoves ==
    ASSUME IInv, Timed, NEW p \in Procs, PruneMove(p)
    PROVE  \E path \in job[p].picked :
              /\ path \in Paths /\ job[p].pc = "pruning" /\ job'[p].pc = "pruning"
              /\ job'[p].picked = job[p].picked \ {path} /\ captured' = captured
              /\ \/ AtPath(path) = None /\ UNCHANGED <<live, superseded, archive>>
                 \/ \E a : /\ AtPath(path) # None /\ a \notin archive
                           /\ archive' = archive \union {a} /\ a.id = AtPath(path).id
                           /\ a.tag[1] = "time" => a.tag[2] = Cardinality(archive)
                           /\ \/ path[2] = "md" /\ live' = [live EXCEPT ![path[1]] = None]
                                                /\ superseded' = superseded
                              \/ /\ path[2] = "superseded" /\ live' = live
                                 /\ superseded' = [superseded EXCEPT ![path[1]] = None]
<1>1. job \in [Procs -> Job] /\ job[p] \in Job BY DEF IInv, TypeOK
<1>2. PICK path \in job[p].picked :
        LET tag == IF InArchive(path, Plain) THEN <<"time", Cardinality(archive)>> ELSE Plain
        IN /\ Become(p, [job[p] EXCEPT !.picked = @ \ {path}])
           /\ IF AtPath(path) = None THEN UNCHANGED <<live, superseded, archive>>
              ELSE /\ archive' = Deposit(path, tag, AtPath(path))
                   /\ IF path[2] = "md"
                      THEN /\ live' = [live EXCEPT ![path[1]] = None]
                           /\ UNCHANGED superseded
                      ELSE /\ superseded' = [superseded EXCEPT ![path[1]] = None]
                           /\ UNCHANGED live
  BY DEF PruneMove
<1>3. path \in Paths /\ path[2] \in {"md", "superseded"} BY <1>1 DEF Job, Paths
<1>4. /\ job[p].pc = "pruning" /\ captured' = captured
      /\ job'[p].pc = "pruning" /\ job'[p].picked = job[p].picked \ {path}
  BY <1>1, <1>2 DEF PruneMove, At, Become, Job
<1>5. CASE AtPath(path) = None BY <1>2, <1>3, <1>4, <1>5
<1>6. CASE AtPath(path) # None
  <2>1. PICK tag : /\ tag = IF InArchive(path, Plain) THEN <<"time", Cardinality(archive)>>
                            ELSE Plain
                   /\ archive' = Deposit(path, tag, AtPath(path))
    BY <1>2, <1>6
  <2>2. tag[1] = "time" => tag[2] = Cardinality(archive) /\ tag = <<"time", Cardinality(archive)>>
    BY <2>1 DEF Plain
  <2>3. Cardinality(archive) \in Nat BY FS_CardinalityType DEF IInv
  <2>4. \A a \in archive : <<a.path, a.tag>> # <<path, tag>>
    <3>1. CASE InArchive(path, Plain)
      <4>1. tag[1] = "time" /\ tag[2] = Cardinality(archive) BY <2>1, <3>1
      <4>2. \A a \in archive : a.tag # tag BY <2>3, <4>1 DEF Timed
      <4>3. QED BY <4>2
    <3>2. CASE ~InArchive(path, Plain) BY <2>1, <3>2 DEF InArchive
    <3>3. QED BY <3>1, <3>2
  <2> DEFINE a == [path |-> path, tag |-> tag, id |-> AtPath(path).id]
  <2>5. archive' = archive \union {a} /\ a \notin archive BY <2>1, <2>4 DEF Deposit
  <2>6. a.id = AtPath(path).id /\ (a.tag[1] = "time" => a.tag[2] = Cardinality(archive))
    BY <2>2
  <2> HIDE DEF a
  <2>7. QED BY <1>2, <1>3, <1>4, <1>6, <2>5, <2>6
<1>7. QED BY <1>5, <1>6

\* A file that is put into the archive replaces one of its name at most.
LEMMA DepositOne ==
    ASSUME OneEach, IsFiniteSet(archive), NEW path, NEW tag, NEW d,
           archive' = Deposit(path, tag, d)
    PROVE  /\ OneEach'
           /\ Cardinality(archive') \in Nat /\ Cardinality(archive) \in Nat
           /\ Cardinality(archive') >= Cardinality(archive)
<1> DEFINE new == [path |-> path, tag |-> tag, id |-> d.id]
           others == {a \in archive : <<a.path, a.tag>> # <<path, tag>>}
<1>1. archive' = others \union {new} /\ new \notin others BY DEF Deposit
<1>2. new.path = path /\ new.tag = tag OBVIOUS
<1>3. \A a \in others : a \in archive /\ (a.path # path \/ a.tag # tag) OBVIOUS
<1>4. OneEach'
  <2> HIDE DEF new, others
  <2>1. SUFFICES ASSUME NEW a \in archive', NEW b \in archive', a.path = b.path, a.tag = b.tag
                 PROVE  a = b
    BY DEF OneEach
  <2>2. CASE a \in others /\ b \in others BY <1>3, <2>1, <2>2 DEF OneEach
  <2>3. CASE a = new /\ b = new BY <2>3
  <2>4. QED BY <1>1, <1>2, <1>3, <2>1, <2>2, <2>3
<1>5. IsFiniteSet(others) /\ others \subseteq archive BY FS_Subset
<1>6. Cardinality(archive') = Cardinality(others) + 1 /\ Cardinality(others) \in Nat
      /\ Cardinality(archive) \in Nat
  BY <1>1, <1>5, FS_AddElement, FS_CardinalityType
<1>7. Cardinality(archive) <= Cardinality(others) + 1
  <2>1. CASE archive = others
    <3> HIDE DEF others
    <3>1. QED BY <1>6, <2>1
  <2>2. CASE \E b \in archive : b \notin others
    <3>1. PICK b \in archive : b \notin others BY <2>2
    <3>2. b.path = path /\ b.tag = tag BY <3>1
    <3>3. archive = others \union {b} BY <1>5, <3>1, <3>2 DEF OneEach
    <3>4. Cardinality(archive) = Cardinality(others) + 1 BY <1>5, <3>1, <3>3, FS_AddElement
    <3>5. QED BY <1>6, <3>4
  <2>3. QED BY <1>5, <2>1, <2>2
<1>8. QED BY <1>4, <1>6, <1>7

LEMMA TimedStep ==
    ASSUME IInv, OneEach, Timed, NEW p \in Procs, StepOf(p)
    PROVE  OneEach' /\ Timed'
<1>1. IsFiniteSet(archive) BY DEF IInv
<1>2. CASE UNCHANGED archive BY <1>2 DEF Timed, OneEach
<1>3. CASE PruneMove(p) /\ archive' # archive
  <2>1. PICK a : a \notin archive /\ archive' = archive \union {a}
                 /\ (a.tag[1] = "time" => a.tag[2] = Cardinality(archive))
    BY <1>1, <1>3, PruneMoves
  <2>2. Cardinality(archive') = Cardinality(archive) + 1 /\ Cardinality(archive) \in Nat
    BY <1>1, <2>1, FS_AddElement, FS_CardinalityType
  <2>3. \A b \in archive : b.tag[1] = "time" => b.tag[2] \in Nat
    BY DEF IInv, TypeOK, ArchiveTags
  <2>4. Timed' BY <2>1, <2>2, <2>3 DEF Timed
  <2>5. PICK path \in job[p].picked : \E tag : archive' = Deposit(path, tag, AtPath(path))
    BY <1>3 DEF PruneMove
  <2>6. QED BY <1>1, <2>4, <2>5, DepositOne
<1>4. CASE DecayArchive(p) /\ archive' # archive
  <2>1. PICK tag \in {Plain, <<"date", day>>} :
           archive' = Deposit(<<job[p].file, "md">>, tag, live[job[p].file])
    BY <1>4 DEF DecayArchive
  <2>2. OneEach' /\ Cardinality(archive') \in Nat /\ Cardinality(archive) \in Nat
        /\ Cardinality(archive') >= Cardinality(archive)
    BY <1>1, <2>1, DepositOne
  <2>3. tag[1] # "time" BY <2>1 DEF Plain
  <2>4. \A a \in archive' : a.tag[1] = "time" => a \in archive BY <2>1, <2>3 DEF Deposit
  <2>5. \A b \in archive : b.tag[1] = "time" => b.tag[2] \in Nat
    BY DEF IInv, TypeOK, ArchiveTags
  <2>6. QED BY <2>2, <2>4, <2>5 DEF Timed
<1>5. CASE archive' # archive /\ ~PruneMove(p) /\ ~DecayArchive(p)
  BY <1>5 DEF StepOf, HygieneStep, EditorStep, EditStart, RewriteStep, RewriteMissing,
     LockAndRead, Replace, HygieneStart, DecayStep, DecayRead, DecayDone, DedupStep, DedupRead,
     Supersede, DedupDone, PruneStep, PruneIdentify, PruneDone, CaptureStep, CaptureCheck,
     CaptureWrite, Kill, fileVars
<1>6. QED BY <1>2, <1>3, <1>4, <1>5

\* What is about to be pruned: the pruner has just found it, or nobody else touches it.
LEMMA PruningStep ==
    ASSUME IInv, Roles, Timed, OnePruner, MCNext, NEW p \in Pruners, Pruning(p),
           NewDay \/ \E q \in Pruners \union Writers : StepOf(q)
    PROVE  Pruning(p)'
<1>1. p \in Procs /\ job \in [Procs -> Job] /\ job[p] \in Job
      /\ live \in [Names -> Document \union {None}]
      /\ superseded \in [Names -> Stub \union {None}]
  BY DEF Procs, IInv, TypeOK
<1>2. SUFFICES ASSUME job'[p].pc = "pruning", NEW path \in job'[p].picked
               PROVE  /\ AtPath(path)' # None => AtPath(path)'.id \notin guarded'[p]
                      /\ path[2] = "superseded" => superseded'[path[1]] # None
  BY DEF Pruning, AtPath
<1>3. guarded'[p] \subseteq Pinned' /\ (job[p].pc # "idle" => guarded'[p] \subseteq guarded[p])
  BY <1>1, <1>2, GuardedShrinks
<1>4. ASSUME job[p].pc = "pruning", path \in job[p].picked, AtPath(path)' = AtPath(path),
             path[2] = "superseded" => superseded'[path[1]] = superseded[path[1]]
      PROVE  /\ AtPath(path)' # None => AtPath(path)'.id \notin guarded'[p]
             /\ path[2] = "superseded" => superseded'[path[1]] # None
  BY <1>3, <1>4 DEF Pruning
<1>5. CASE NewDay
  <2>1. UNCHANGED <<live, superseded, job>> BY <1>5 DEF NewDay, fileVars
  <2>2. QED BY <1>2, <1>4, <2>1 DEF AtPath
<1>6. ASSUME NEW q \in Writers, StepOf(q)
      PROVE  /\ AtPath(path)' # None => AtPath(path)'.id \notin guarded'[p]
             /\ path[2] = "superseded" => superseded'[path[1]] # None
  <2>1. q \in Procs /\ q # p /\ job'[p] = job[p]
    BY <1>6, OthersStay, RolesAssumption DEF Procs
  <2>2. job[p].pc = "pruning" /\ path \in job[p].picked BY <1>2, <2>1
  <2>3. path \in Paths /\ path[1] \in Names /\ path[2] \in {"md", "superseded"}
    BY <1>1, <2>2 DEF Job, Paths
  <2>4. CASE path[2] = "md"
    <3>1. AtPath(path) = live[path[1]] /\ AtPath(path)' = live'[path[1]]
      BY <2>4 DEF AtPath
    <3>2. CASE live'[path[1]] = live[path[1]] BY <1>4, <2>2, <2>4, <3>1, <3>2
    <3>3. CASE Captured(q, path[1]) /\ live'[path[1]] # None
      <4>1. ~AtPath(path)'.pinned BY <3>1, <3>3 DEF Captured
      <4>2. AtPath(path)'.id \notin Pinned'
        <5>1. live'[path[1]] \in {e \in {live'[path[1]], superseded'[path[1]]} \ {None} :
                                    e.pinned = FALSE}
          BY <3>1, <3>3, <4>1
        <5>2. live'[path[1]].id \in CopyIds(FALSE)' BY <2>3, <5>1 DEF CopyIds
        <5>3. QED BY <3>1, <5>2 DEF Pinned
      <4>3. QED BY <1>3, <2>4, <4>2
    <3>4. ~Replace(q)
      <4>1. job[q].pc # "locked" BY <1>6 DEF Roles
      <4>2. QED BY <4>1 DEF Replace, At
    <3>5. QED BY <1>6, <2>1, <2>3, <2>4, <3>1, <3>2, <3>3, <3>4, LiveFrom
  <2>5. CASE path[2] = "superseded"
    <3>1. AtPath(path) = superseded[path[1]] /\ AtPath(path)' = superseded'[path[1]]
      BY <2>5 DEF AtPath
    <3>2. superseded[path[1]] # None BY <2>2, <2>5 DEF Pruning
    <3>3. superseded'[path[1]] = superseded[path[1]]
      <4>1. CaptureStep(q) \/ DedupStep(q) \/ Kill(q) BY <1>6, RolesAssumption DEF StepOf
      <4>2. CASE ~Supersede(q)
        BY <4>1, <4>2 DEF CaptureStep, CaptureCheck, CaptureWrite, DedupStep, DedupRead,
                          DedupDone, Kill, fileVars
      <4>3. CASE Supersede(q) BY <1>1, <2>3, <3>2, <4>3 DEF Supersede, Supersedable
      <4>4. QED BY <4>2, <4>3
    <3>4. QED BY <1>4, <2>2, <3>1, <3>3
  <2>6. QED BY <2>3, <2>4, <2>5
<1>7. CASE StepOf(p)
  <2>1. PruneStep(p) BY <1>1, <1>2, <1>7, PcSteps, RolesAssumption DEF StepOf
  <2>2. ~PruneDone(p) BY <1>1, <1>2 DEF PruneDone, Become, NoJob
  <2>3. CASE PruneIdentify(p)
    <3>1. path \in Paths /\ IsCandidate(path) /\ UNCHANGED <<live, superseded>>
      BY <1>1, <1>2, <2>3 DEF PruneIdentify, Become, Job, fileVars
    <3>2. AtPath(path) # None /\ ~AtPath(path).pinned BY <3>1 DEF IsCandidate
    <3>3. AtPath(path).id \notin Pinned BY <3>1, <3>2, PinnedThere
    <3>4. AtPath(path)' = AtPath(path) /\ Pinned' = Pinned
      BY <3>1 DEF AtPath, Pinned, CopyIds
    <3>5. path[2] = "superseded" => superseded'[path[1]] # None BY <3>1, <3>2 DEF AtPath
    <3>6. QED BY <1>3, <3>3, <3>4, <3>5
  <2>4. CASE PruneMove(p)
    <3>1. PICK moved \in job[p].picked :
              /\ moved \in Paths /\ job[p].pc = "pruning"
              /\ job'[p].picked = job[p].picked \ {moved}
              /\ \/ UNCHANGED <<live, superseded>>
                 \/ moved[2] = "md" /\ live' = [live EXCEPT ![moved[1]] = None]
                       /\ superseded' = superseded
                 \/ moved[2] = "superseded" /\ live' = live
                       /\ superseded' = [superseded EXCEPT ![moved[1]] = None]
      BY <1>1, <2>4, PruneMoves
    <3>2. path \in job[p].picked /\ path # moved /\ path \in Paths
      BY <1>1, <1>2, <3>1 DEF Job
    <3>3. path[1] # moved[1] \/ path[2] # moved[2] BY <3>1, <3>2 DEF Paths
    <3>4. AtPath(path)' = AtPath(path) BY <1>1, <3>1, <3>2, <3>3 DEF AtPath, Paths
    <3>5. path[2] = "superseded" => superseded'[path[1]] = superseded[path[1]]
      BY <1>1, <3>1, <3>2, <3>3 DEF Paths
    <3>6. QED BY <1>4, <3>1, <3>2, <3>4, <3>5
  <2>5. QED BY <2>1, <2>2, <2>3, <2>4 DEF PruneStep
<1>8. QED BY <1>5, <1>6, <1>7 DEF OnePruner

-----------------------------------------------------------------------------
(* Nothing is lost                                                         *)

\* Document i is moved away, or displaced, after the step.
ElsewhereNext(i) ==
    \/ \E n \in Names : superseded'[n] # None /\ superseded'[n].id = i
    \/ \E a \in archive' : a.id = i
    \/ i \in displaced'

\* What no other action touches.
LEMMA FilesAsTheyAre ==
    ASSUME NEW p \in Procs, StepOf(p), ~Replace(p), ~DecayArchive(p), ~Supersede(p),
           ~PruneMove(p), \A t \in Topics, i \in Importances : ~CaptureWrite(p, t, i)
    PROVE  UNCHANGED <<live, superseded, archive, captured>>
BY DEF StepOf, HygieneStep, EditorStep, EditStart, RewriteStep, RewriteMissing,
   LockAndRead, HygieneStart, DecayStep, DecayRead, DecayDone, DedupStep, DedupRead,
   DedupDone, PruneStep, PruneIdentify, PruneDone, CaptureStep, CaptureCheck, Kill, fileVars

\* Only a prune takes a superseded file, and it puts it into the archive.
LEMMA SupersededStays ==
    ASSUME IInv, Timed, NEW p \in Procs, StepOf(p), NEW n \in Names, superseded[n] # None
    PROVE  superseded'[n] = superseded[n] \/ \E a \in archive' : a.id = superseded[n].id
<1>1. superseded \in [Names -> Stub \union {None}] BY DEF IInv, TypeOK
<1>2. CASE PruneMove(p)
  <2>1. PICK path \in job[p].picked :
           /\ path \in Paths
           /\ \/ UNCHANGED <<live, superseded, archive>>
              \/ \E a : /\ archive' = archive \union {a} /\ a.id = AtPath(path).id
                        /\ \/ path[2] = "md" /\ superseded' = superseded
                           \/ /\ path[2] = "superseded"
                              /\ superseded' = [superseded EXCEPT ![path[1]] = None]
    BY <1>2, PruneMoves
  <2>2. CASE superseded' = superseded BY <2>2
  <2>3. CASE superseded' # superseded
    <3>1. PICK a : /\ archive' = archive \union {a} /\ a.id = AtPath(path).id
                   /\ path[2] = "superseded"
                   /\ superseded' = [superseded EXCEPT ![path[1]] = None]
      BY <2>1, <2>3
    <3>2. AtPath(path) = superseded[path[1]] BY <3>1 DEF AtPath
    <3>3. CASE path[1] = n
      <4>1. a \in archive' /\ a.id = superseded[n].id BY <3>1, <3>2, <3>3
      <4>2. QED BY <4>1
    <3>4. CASE path[1] # n BY <1>1, <3>1, <3>4
    <3>5. QED BY <3>3, <3>4
  <2>4. QED BY <2>2, <2>3
<1>3. CASE Supersede(p) BY <1>1, <1>3 DEF Supersede, Supersedable
<1>4. CASE ~PruneMove(p) /\ ~Supersede(p)
  <2>1. Replace(p) \/ DecayArchive(p) => superseded' = superseded BY DEF Replace, DecayArchive
  <2>2. \A t \in Topics, i \in Importances : CaptureWrite(p, t, i) => superseded' = superseded
    BY DEF CaptureWrite
  <2>3. QED BY <1>4, <2>1, <2>2, FilesAsTheyAre
<1>5. QED BY <1>2, <1>3, <1>4

\* What is elsewhere stays elsewhere.
LEMMA ElsewhereStays ==
    ASSUME IInv, Timed, MCNext, NEW p \in Procs, StepOf(p), NEW i, Elsewhere(i)
    PROVE  ElsewhereNext(i)
<1>1. displaced' = displaced \union Displaced BY DEF MCNext
<1>2. CASE \E n \in Names : superseded[n] # None /\ superseded[n].id = i
  BY <1>2, SupersededStays DEF Elsewhere, ElsewhereNext
<1>3. CASE \E a \in archive : a.id = i
  <2>1. CASE \E a \in archive' : a.id = i BY <2>1 DEF ElsewhereNext
  <2>2. CASE ~\E a \in archive' : a.id = i
    <3>1. i \in {a.id : a \in archive} \ {a.id : a \in archive'} BY <1>3, <2>2
    <3>2. i \in displaced' BY <1>1, <3>1 DEF Displaced
    <3>3. QED BY <3>2 DEF Elsewhere, ElsewhereNext
  <2>3. QED BY <2>1, <2>2
<1>4. CASE i \in displaced BY <1>1, <1>4 DEF Elsewhere, ElsewhereNext
<1>5. QED BY <1>2, <1>3, <1>4 DEF Elsewhere, ElsewhereNext

\* A live document stays, is moved away or displaced, or a capture writes over it.
LEMMA LiveGoes ==
    ASSUME IInv, Timed, MCNext, NEW p \in Procs, StepOf(p), NEW n \in Names, live[n] # None
    PROVE  \/ live'[n] # None /\ live'[n].id = live[n].id
           \/ ElsewhereNext(live[n].id)
           \/ Captured(p, n)
<1>1. /\ live \in [Names -> Document \union {None}] /\ job[p] \in Job
      /\ superseded \in [Names -> Stub \union {None}]
  BY DEF IInv, TypeOK
<1>2. displaced' = displaced \union Displaced BY DEF MCNext
<1>3. CASE live'[n] # None /\ Replace(p) /\ job[p].file = n
                           /\ live'[n] = Splice(job[p].body, job[p].edit)
  <2>1. job[p].pc = "locked" /\ job[p].body \in Document /\ job[p].edit \in Edit /\ day \in Nat
    BY <1>3, ReplaceFacts
  <2>2. live'[n].id = job[p].body.id BY <1>3, <2>1, SpliceType
  <2>3. CASE job[p].body.id = live[n].id BY <1>3, <2>2, <2>3
  <2>4. CASE job[p].body.id # live[n].id
    <3>1. n \in LiveNames /\ At(p, "locked") BY <2>1 DEF LiveNames, At
    <3>2. live[n].id \in Displaced BY <1>3, <2>2, <2>4, <3>1 DEF Displaced
    <3>3. QED BY <1>2, <3>2 DEF ElsewhereNext
  <2>5. QED BY <2>3, <2>4
<1>4. CASE live'[n] = None
  <2>1. CASE Supersede(p)
    <3>1. PICK path \in job[p].picked :
             /\ superseded' = [superseded EXCEPT ![path[1]] = StubOf(live[path[1]])]
             /\ live' = [live EXCEPT ![path[1]] = None]
      BY <1>4, <2>1 DEF Supersede
    <3>2. path[1] = n BY <1>1, <1>4, <3>1
    <3>3. superseded'[n] = StubOf(live[n]) /\ StubOf(live[n]).id = live[n].id
      BY <1>1, <3>1, <3>2 DEF StubOf
    <3>4. superseded'[n] # None
      <4>1. live[n] \in Document BY <1>1
      <4>2. StubOf(live[n]) \in Stub BY <4>1 DEF Document, Stub, StubOf
      <4>3. QED BY <3>3, <4>2, CorpusAssumption
    <3>5. QED BY <3>3, <3>4 DEF ElsewhereNext
  <2>2. CASE DecayArchive(p)
    <3>1. PICK tag : archive' = Deposit(<<job[p].file, "md">>, tag, live[job[p].file])
                     /\ live' = [live EXCEPT ![job[p].file] = None]
      BY <1>4, <2>2 DEF DecayArchive
    <3>2. job[p].file = n BY <1>1, <1>4, <3>1
    <3>3. [path |-> <<n, "md">>, tag |-> tag, id |-> live[n].id] \in archive'
      BY <3>1, <3>2 DEF Deposit
    <3>4. \E a \in archive' : a.id = live[n].id BY <3>3
    <3>5. QED BY <3>4 DEF ElsewhereNext
  <2>3. CASE PruneMove(p)
    <3>1. PICK path \in job[p].picked :
             \E a : /\ archive' = archive \union {a} /\ a.id = AtPath(path).id
                    /\ path[2] = "md" /\ live' = [live EXCEPT ![path[1]] = None]
      BY <1>4, <2>3, PruneMoves
    <3>2. path[1] = n BY <1>1, <1>4, <3>1
    <3>3. AtPath(path) = live[n] BY <3>1, <3>2 DEF AtPath
    <3>4. \E a \in archive' : a.id = live[n].id BY <3>1, <3>3
    <3>5. QED BY <3>4 DEF ElsewhereNext
  <2>4. ~Replace(p)
    <3>1. SUFFICES ASSUME Replace(p) PROVE FALSE OBVIOUS
    <3>2. /\ job[p].body \in Document /\ job[p].edit \in Edit /\ day \in Nat
          /\ live' = [live EXCEPT ![job[p].file] = Splice(job[p].body, job[p].edit)]
      BY <3>1, ReplaceFacts
    <3>3. Splice(job[p].body, job[p].edit) # None BY <3>2, SpliceType, CorpusAssumption
    <3>4. QED BY <1>1, <1>4, <3>2, <3>3
  <2>5. ASSUME NEW t \in Topics, NEW i \in Importances, CaptureWrite(p, t, i) PROVE FALSE
    <3>1. live' \in [Names -> Document \union {None}] /\ job[p].file = n
      BY <1>1, <1>4, <2>5, CaptureWriteStep DEF CaptureWrite, IInv, TypeOK
    <3>2. live'[n] = [id |-> captured + 1, topic |-> t, importance |-> i,
                      salience |-> DefaultSalience, pinned |-> FALSE, decayed |-> 0, mtime |-> day]
      BY <1>1, <2>5, <3>1 DEF CaptureWrite
    <3>3. captured + 1 \in Nat /\ day \in Nat BY DEF IInv, TypeOK
    <3>4. live'[n] \in Document
      BY <3>2, <3>3, ImportancesAssumption DEF Document, DefaultSalience, MaxSalience
    <3>5. QED BY <1>4, <3>4, CorpusAssumption
  <2>6. QED BY <1>4, <2>1, <2>2, <2>3, <2>4, <2>5, FilesAsTheyAre
<1>5. QED BY <1>3, <1>4, LiveFrom

\* The number of a capture is that of the document it has written.
LEMMA CapturedOne ==
    ASSUME IInv, NEW p \in Procs, StepOf(p), captured' # captured
    PROVE  /\ captured' = captured + 1
           /\ \E n \in Names : live'[n] # None /\ live'[n].id = captured + 1
<1>1. PICK t \in Topics, i \in Importances : CaptureWrite(p, t, i)
  <2>1. Replace(p) \/ DecayArchive(p) \/ Supersede(p) \/ PruneMove(p) => captured' = captured
    BY DEF Replace, DecayArchive, Supersede, PruneMove
  <2>2. QED BY <2>1, FilesAsTheyAre
<1>2. /\ live \in [Names -> Document \union {None}] /\ captured \in Nat /\ day \in Nat
      /\ job[p].file \in Names
  BY <1>1, JobFacts DEF IInv, TypeOK, CaptureWrite, At, Sound
<1>3. live'[job[p].file] = [id |-> captured + 1, topic |-> t, importance |-> i,
                            salience |-> DefaultSalience, pinned |-> FALSE, decayed |-> 0,
                            mtime |-> day]
  BY <1>1, <1>2 DEF CaptureWrite
<1>4. live'[job[p].file] \in Document
  BY <1>2, <1>3, ImportancesAssumption DEF Document, DefaultSalience, MaxSalience
<1>5. live'[job[p].file] # None /\ live'[job[p].file].id = captured + 1
  <2>1. live'[job[p].file] # None BY <1>4, CorpusAssumption
  <2>2. QED BY <1>3, <2>1
<1>6. QED BY <1>1, <1>2, <1>5 DEF CaptureWrite

\* With one capture at a time, what a rewrite puts back and what a capture writes over is
\* elsewhere, or there, and no document gets lost.
LEMMA KeptStep ==
    ASSUME IInv, Roles, Timed, MCNext, OneWriter, PutsBack, WritesFree, AllKept,
           NEW p \in Procs, StepOf(p)
    PROVE  PutsBack' /\ WritesFree' /\ AllKept'
<1>1. captured \in Nat /\ job \in [Procs -> Job] BY DEF IInv, TypeOK
<1>2. ASSUME NEW n \in Names, live[n] # None
      PROVE  (live'[n] # None /\ live'[n].id = live[n].id) \/ ElsewhereNext(live[n].id)
  <2>1. CASE Captured(p, n)
    <3>1. job[p].pc = "writing" /\ job[p].file = n BY <2>1 DEF Captured
    <3>2. p \in Writers BY <3>1 DEF Roles, Procs
    <3>3. Elsewhere(live[n].id) BY <1>2, <3>1, <3>2 DEF WritesFree
    <3>4. QED BY <3>3, ElsewhereStays
  <2>2. QED BY <1>2, <2>1, LiveGoes
<1>3. PutsBack'
  <2>1. SUFFICES ASSUME NEW q \in Procs, job'[q].pc = "locked"
                 PROVE  \/ live'[job'[q].file] # None /\ live'[job'[q].file].id = job'[q].body.id
                        \/ ElsewhereNext(job'[q].body.id)
    BY DEF PutsBack, Elsewhere, ElsewhereNext
  <2>2. CASE q # p /\ job'[q] = job[q]
    <3>1. job[q].pc = "locked" /\ job[q].file \in Names BY <2>1, <2>2, JobFacts DEF Sound
    <3>2. CASE Elsewhere(job[q].body.id) BY <2>2, <3>2, ElsewhereStays
    <3>3. CASE live[job[q].file] # None /\ live[job[q].file].id = job[q].body.id
      BY <1>2, <2>2, <3>1, <3>3
    <3>4. QED BY <3>1, <3>2, <3>3 DEF PutsBack
  <2>3. QED BY <2>1, <2>2, LockedFrom
<1>4. WritesFree'
  <2>1. SUFFICES ASSUME NEW w \in Writers, job'[w].pc = "writing", live'[job'[w].file] # None
                 PROVE  ElsewhereNext(live'[job'[w].file].id)
    BY DEF WritesFree, Elsewhere, ElsewhereNext
  <2>2. w \in Procs BY DEF Procs
  <2>3. CASE p = w
    <3>1. CaptureStep(p) BY <2>1, <2>2, <2>3, PcSteps, RolesAssumption DEF StepOf
    <3>2. ASSUME NEW t \in Topics, NEW i \in Importances, CaptureWrite(p, t, i) PROVE FALSE
      BY <1>1, <2>1, <2>3, <3>2 DEF CaptureWrite, Become, NoJob
    <3>3. PICK n \in Names : CaptureCheck(p, n) BY <3>1, <3>2 DEF CaptureStep
    <3>4. job'[w].file = n /\ live'[n] = None
      BY <1>1, <2>3, <3>3 DEF CaptureCheck, Become, Job, fileVars
    <3>5. QED BY <2>1, <3>4
  <2>4. CASE p # w
    <3>1. job'[w] = job[w] BY <2>2, <2>4, OthersStay
    <3>2. job[w].pc = "writing" /\ job[w].file \in Names
      BY <2>1, <2>2, <3>1, JobFacts DEF Sound
    <3> DEFINE f == job[w].file
    <3>3. live[f] = None \/ Elsewhere(live[f].id) BY <3>2 DEF WritesFree
    <3>4. p \notin Writers BY <2>4 DEF OneWriter
    <3>5. ~Captured(p, f) BY <3>4 DEF Captured, Roles, Procs
    <3>6. live'[f] # None /\ f \in Names BY <2>1, <3>1, <3>2
    <3>7. CASE live'[f] = live[f] BY <3>1, <3>3, <3>6, <3>7, ElsewhereStays
    <3>8. CASE Replace(p) /\ job[p].file = f /\ live'[f] = Splice(job[p].body, job[p].edit)
      <4>1. /\ job[p].pc = "locked" /\ job[p].body \in Document /\ job[p].edit \in Edit
            /\ day \in Nat
        BY <3>8, ReplaceFacts
      <4>2. live'[f].id = job[p].body.id BY <3>8, <4>1, SpliceType
      <4>3. (live[f] # None /\ live[f].id = job[p].body.id) \/ Elsewhere(job[p].body.id)
        BY <3>8, <4>1 DEF PutsBack
      <4>4. Elsewhere(job[p].body.id) BY <3>3, <4>3
      <4>5. ElsewhereNext(job[p].body.id) BY <4>4, ElsewhereStays
      <4>6. QED BY <3>1, <4>2, <4>5
    <3>9. QED BY <3>5, <3>6, <3>7, <3>8, LiveFrom
  <2>5. QED BY <2>3, <2>4
<1>5. AllKept'
  <2>1. SUFFICES ASSUME NEW i \in 1..captured'
                 PROVE  (\E n \in Names : live'[n] # None /\ live'[n].id = i) \/ ElsewhereNext(i)
    BY DEF AllKept, Elsewhere, ElsewhereNext
  <2>2. CASE i \in 1..captured
    <3>1. CASE Elsewhere(i) BY <3>1, ElsewhereStays
    <3>2. CASE \E n \in Names : live[n] # None /\ live[n].id = i BY <1>2, <3>2
    <3>3. QED BY <2>2, <3>1, <3>2 DEF AllKept
  <2>3. CASE i \notin 1..captured
    <3>1. captured' # captured BY <2>1, <2>3
    <3>2. captured' = captured + 1 /\ \E n \in Names : live'[n] # None /\ live'[n].id = captured + 1
      BY <3>1, CapturedOne
    <3>3. i = captured + 1 BY <1>1, <2>1, <2>3, <3>2
    <3>4. QED BY <3>2, <3>3
  <2>4. QED BY <2>2, <2>3
<1>6. QED BY <1>3, <1>4, <1>5

\* Unless all cross, nothing is displaced: a path has one document while the hygiene job
\* runs, and while captures and prunes run nothing is rewritten.
LEMMA NoneDisplaced ==
    ASSUME IInv, Roles, Idles, OneEach, Timed, MCNext, scenario # "crossing",
           scenario = "hygiene" => SameDocument, displaced = {},
           NEW p \in Procs, StepOf(p), p \in Active(scenario)
    PROVE  displaced' = {}
<1>1. displaced' = displaced \union Displaced BY DEF MCNext
<1>2. job \in [Procs -> Job] /\ live \in [Names -> Document \union {None}]
  BY DEF IInv, TypeOK
<1>3. ASSUME NEW m \in LiveNames, NEW q \in Procs, live'[m] # None, live'[m].id # live[m].id,
             At(q, "locked"), job[q].file = m, live'[m].id = job[q].body.id
      PROVE  FALSE
  <2>1. CASE scenario = "hygiene" BY <1>3, <2>1 DEF SameDocument, At, LiveNames
  <2>2. CASE scenario # "hygiene"
    <3>1. q \in Pruners \union Writers BY <1>3, <2>2 DEF Idles, Active, At
    <3>2. QED BY <1>3, <3>1 DEF Roles, At
  <2>3. QED BY <2>1, <2>2
<1>4. ASSUME NEW a \in archive PROVE \E b \in archive' : b.id = a.id
  <2>1. CASE a \in archive' BY <2>1
  <2>2. CASE a \notin archive' /\ DecayArchive(p)
    <3>1. PICK tag : archive' = Deposit(<<job[p].file, "md">>, tag, live[job[p].file])
      BY <1>4, <2>2 DEF DecayArchive
    <3>2. a.path = <<job[p].file, "md">> BY <2>2, <3>1 DEF Deposit
    <3>3. p \in Janitors /\ job[p].file \in Names
      BY <2>2, JobFacts DEF Roles, Procs, DecayArchive, At, Sound
    <3>4. scenario = "hygiene" BY <3>3, RolesAssumption DEF Active
    <3>5. live[job[p].file] # None BY <1>4, <2>2 DEF DecayArchive
    <3>6. live[job[p].file].id = a.id BY <1>4, <3>2, <3>3, <3>4, <3>5 DEF SameDocument
    <3> DEFINE new == [path |-> <<job[p].file, "md">>, tag |-> tag, id |-> live[job[p].file].id]
    <3>7. new \in archive' /\ new.id = a.id BY <3>1, <3>6 DEF Deposit
    <3>8. QED BY <3>7
  <2>3. CASE a \notin archive' /\ PruneMove(p)
    <3>1. archive \subseteq archive' BY <2>3, PruneMoves
    <3>2. QED BY <1>4, <2>3, <3>1
  <2>4. CASE ~DecayArchive(p) /\ ~PruneMove(p)
    <3>1. Replace(p) \/ Supersede(p) => archive' = archive BY DEF Replace, Supersede
    <3>2. \A t \in Topics, i \in Importances : CaptureWrite(p, t, i) => archive' = archive
      BY DEF CaptureWrite
    <3>3. QED BY <1>4, <2>4, <3>1, <3>2, FilesAsTheyAre
  <2>5. QED BY <2>1, <2>2, <2>3, <2>4
<1>5. Displaced = {} BY <1>3, <1>4 DEF Displaced
<1>6. QED BY <1>1, <1>5

\* At first the live documents are the captured ones: each has a number of its own, and
\* there are as many as numbers.
LEMMA AllKeptAtFirst == Init => AllKept
<1> SUFFICES ASSUME Init PROVE AllKept OBVIOUS
<1> DEFINE ids == [n \in LiveNames |-> live[n].id]
<1>1. IsFiniteSet(LiveNames) BY NamesAssumption, FS_Subset DEF LiveNames
<1>2. captured = Cardinality(LiveNames) /\ captured \in Nat
  BY <1>1, FS_CardinalityType DEF Init
<1>3. IsFiniteSet(1..captured) /\ Cardinality(1..captured) = captured BY <1>2, FS_Interval
<1>4. ids \in [LiveNames -> 1..captured] BY DEF Init
<1>5. \A m, n \in LiveNames : ids[m] = ids[n] => m = n BY DEF Init
<1>6. ids \in Injection(LiveNames, 1..captured) BY <1>4, <1>5 DEF Injection, IsInjective
<1>7. ids \in Surjection(LiveNames, 1..captured) BY <1>2, <1>3, <1>6, FS_Injection
<1>8. \A i \in 1..captured : \E n \in LiveNames : ids[n] = i BY <1>7 DEF Surjection
<1>9. QED BY <1>8 DEF AllKept, LiveNames

LEMMA FilesInit == MCInit => FilesIInv
<1> SUFFICES ASSUME MCInit PROVE FilesIInv OBVIOUS
<1>1. Init /\ displaced = {} BY DEF MCInit
<1>2. IInv /\ AllKept BY <1>1, InitIInv, AllKeptAtFirst
<1>3. archive = {} /\ \A p \in Procs : job[p].pc = "idle" BY <1>1 DEF Init, NoJob
<1>4. Roles /\ Idles BY <1>3 DEF Roles, Idles, Procs
<1>5. SameDocument /\ Timed /\ OneEach BY <1>3 DEF SameDocument, Timed, OneEach
<1>6. PutsBack /\ WritesFree BY <1>3 DEF PutsBack, WritesFree, Procs
<1>7. /\ \A j \in Janitors : Moving(j)
      /\ \A p \in Pruners : Pruning(p)
  BY <1>3 DEF Moving, Pruning, Procs
<1>8. QED BY <1>1, <1>2, <1>4, <1>5, <1>6, <1>7 DEF FilesIInv

LEMMA FilesStep == FilesIInv /\ [MCNext]_mcVars => FilesIInv'
<1> SUFFICES ASSUME FilesIInv, [MCNext]_mcVars PROVE FilesIInv' OBVIOUS
<1>1. IInv /\ Roles /\ Idles /\ OneEach /\ Timed BY DEF FilesIInv
<1>2. [Next]_vars BY DEF MCNext, mcVars
<1>3. IInv' /\ Roles' /\ Idles' BY <1>1, <1>2, StepIInv, RolesStep, IdlesStep
<1>4. CASE UNCHANGED mcVars
  <2>1. UNCHANGED <<live, superseded, archive, captured, job, scenario, guarded, displaced>>
    BY <1>4 DEF mcVars, vars
  <2>2. /\ SameDocument <=> SameDocument'
        /\ OneEach <=> OneEach'
        /\ Timed <=> Timed'
        /\ PutsBack <=> PutsBack'
        /\ WritesFree <=> WritesFree'
        /\ AllKept <=> AllKept'
    BY <2>1 DEF SameDocument, OneEach, Timed, PutsBack, WritesFree, AllKept, Elsewhere
  <2>3. /\ \A j \in Janitors : Moving(j) <=> Moving(j)'
        /\ \A p \in Pruners : Pruning(p) <=> Pruning(p)'
    BY <2>1 DEF Moving, Pruning, AtPath
  <2>4. QED BY <1>3, <2>1, <2>2, <2>3 DEF FilesIInv
<1>5. CASE MCNext /\ NewDay
  <2>1. UNCHANGED <<live, superseded, archive, captured, job, scenario>>
    BY <1>5 DEF MCNext, NewDay, fileVars
  <2>2. Displaced = {}
    <3>1. \A n \in LiveNames : live'[n] = live[n] BY <2>1
    <3>2. {a.id : a \in archive} \ {a.id : a \in archive'} = {} BY <2>1
    <3>3. QED BY <3>1, <3>2 DEF Displaced
  <2>3. displaced' = displaced BY <1>5, <2>2 DEF MCNext
  <2>4. /\ SameDocument <=> SameDocument'
        /\ OneEach <=> OneEach'
        /\ Timed <=> Timed'
        /\ PutsBack <=> PutsBack'
        /\ WritesFree <=> WritesFree'
        /\ AllKept <=> AllKept'
    BY <2>1, <2>3 DEF SameDocument, OneEach, Timed, PutsBack, WritesFree, AllKept, Elsewhere
  <2>5. scenario = "hygiene" => (OneJanitor => \A j \in Janitors : Moving(j)')
    BY <1>1, <1>5, MovingStep DEF FilesIInv
  <2>6. scenario \notin {"hygiene", "crossing"} => (OnePruner => \A p \in Pruners : Pruning(p)')
    BY <1>1, <1>5, PruningStep DEF FilesIInv
  <2>7. QED BY <1>3, <2>1, <2>3, <2>4, <2>5, <2>6 DEF FilesIInv
<1>6. ASSUME MCNext, NEW p \in Procs, StepOf(p) PROVE FilesIInv'
  <2>1. scenario' = scenario /\ p \in Active(scenario) BY <1>1, <1>6, ActiveOnly DEF MCNext
  <2>2. OneEach' /\ Timed' BY <1>1, <1>6, TimedStep
  <2>3. OneWriter => PutsBack' /\ WritesFree' /\ AllKept' BY <1>1, <1>6, KeptStep DEF FilesIInv
  <2>4. scenario # "crossing" => displaced' = {}
    BY <1>1, <1>6, <2>1, NoneDisplaced DEF FilesIInv
  <2>5. CASE scenario = "hygiene"
    <3>1. p \in Editors \union Janitors BY <2>1, <2>5 DEF Active
    <3>2. SameDocument' BY <1>1, <1>6, <2>5, <3>1, SameDocumentStep DEF FilesIInv
    <3>3. OneJanitor => \A j \in Janitors : Moving(j)'
      BY <1>1, <1>6, <2>5, <3>1, MovingStep DEF FilesIInv
    <3>4. QED BY <1>3, <2>1, <2>2, <2>3, <2>4, <2>5, <3>2, <3>3 DEF FilesIInv
  <2>6. CASE scenario \notin {"hygiene", "crossing"}
    <3>1. p \in Pruners \union Writers BY <2>1, <2>6 DEF Active
    <3>2. OnePruner => \A q \in Pruners : Pruning(q)'
      BY <1>1, <1>6, <2>6, <3>1, PruningStep DEF FilesIInv
    <3>3. QED BY <1>3, <2>1, <2>2, <2>3, <2>4, <2>6, <3>2 DEF FilesIInv
  <2>7. CASE scenario = "crossing"
    BY <1>3, <2>1, <2>2, <2>3, <2>4, <2>7 DEF FilesIInv
  <2>8. QED BY <2>5, <2>6, <2>7
<1>7. QED BY <1>4, <1>5, <1>6, NextIs DEF MCNext

\* Whatever the names, the documents, the processes and the interleaving: what a pass, a
\* prune or a capture is about to do is still right when it does it.
THEOREM FilesInvariance == MCSpec => []FilesIInv
BY FilesInit, FilesStep, PTL DEF MCSpec

\* With one capture at a time no document is lost, to no move, prune or capture, however
\* many of each and of edits cross, but one whose own file an edit or a dated archive file
\* took; and neither happens while only edits and the hygiene job, or only captures and
\* prunes, are at work (apply_decay, supersede, prune_discoveries,
\* atomic_frontmatter_rewrite; "NEVER deletes; moves only", pruner.py).
THEOREM NothingIsLost == ASSUME OneWriter PROVE MCSpec => []NothingLost
<1>1. FilesIInv => NothingLost
  BY DEF FilesIInv, AllKept, Elsewhere, NothingLost, Kept, LiveNames
<1>2. QED BY <1>1, FilesInvariance, PTL

\* With one hygiene job at a time each superseded file leaves a live near-duplicate, which
\* is the one that the pass holds for new (dedup_against_corpus, supersede).
THEOREM SurvivorStays == ASSUME OneJanitor PROVE MCSpec => OneSurvivor
<1>1. ASSUME FilesIInv, MCNext, scenario = "hygiene" PROVE SurvivorStep
  <2> SUFFICES ASSUME NEW o \in Names, superseded[o] = None, superseded'[o] # None
               PROVE  \E n \in Names \ {o} : live'[n] # None
                                            /\ live'[n].topic = superseded'[o].topic
    BY DEF SurvivorStep
  <2>1. /\ IInv /\ Roles /\ Idles /\ \A j \in Janitors : Moving(j)
        /\ live \in [Names -> Document \union {None}]
        /\ superseded \in [Names -> Stub \union {None}] /\ job \in [Procs -> Job]
    BY <1>1 DEF FilesIInv, IInv, TypeOK
  <2>2. ~NewDay BY DEF NewDay, fileVars
  <2>3. PICK p \in Editors \union Janitors : StepOf(p)
    BY <1>1, <2>1, <2>2, ActiveOnly, NextIs DEF MCNext, Active
  <2>4. p \in Procs /\ job[p].pc \notin {"writing", "pruning"} BY <2>1 DEF Procs, Roles
  <2>5. Supersede(p)
    <3>1. ~PruneMove(p) /\ \A t \in Topics, i \in Importances : ~CaptureWrite(p, t, i)
      BY <2>4 DEF PruneMove, CaptureWrite, At
    <3>2. ~Replace(p) /\ ~DecayArchive(p) BY <2>1, <2>4 DEF Replace, DecayArchive
    <3>3. QED BY <2>3, <2>4, <3>1, <3>2, FilesAsTheyAre
  <2>6. job[p].pc = "superseding" /\ p \in Janitors BY <2>1, <2>3, <2>5 DEF Supersede, At, Roles
  <2>7. PICK path \in job[p].picked :
           /\ live[path[1]] # None
           /\ superseded' = [superseded EXCEPT ![path[1]] = StubOf(live[path[1]])]
           /\ live' = [live EXCEPT ![path[1]] = None]
    BY <2>5 DEF Supersede, Supersedable
  <2>8. path[1] = o BY <2>1, <2>7
  <2>9. superseded'[o].topic = live[o].topic
    <3>1. superseded'[o] = StubOf(live[o]) BY <2>1, <2>7, <2>8
    <3>2. QED BY <3>1 DEF StubOf
  <2>10. /\ job[p].file \in Names \ {o} /\ live[job[p].file] # None
         /\ live[o].topic = live[job[p].file].topic
    <3>1. job[p].file \in Names BY <2>1, <2>4, <2>6, JobFacts DEF Sound
    <3>2. QED BY <2>1, <2>6, <2>7, <2>8, <3>1 DEF Moving
  <2>11. live'[job[p].file] = live[job[p].file] BY <2>1, <2>7, <2>8, <2>10
  <2>12. QED BY <2>9, <2>10, <2>11
<1>2. FilesIInv /\ [MCNext]_mcVars => [scenario = "hygiene" => SurvivorStep]_mcVars
  BY <1>1
<1>3. QED BY <1>2, FilesInvariance, PTL DEF MCSpec, OneSurvivor

\* With one hygiene job and one prune at a time nothing that was pinned when a pass or a
\* prune began, and has been since, goes to the archive by it: a pin between the check and
\* the move is the only one that can be missed (apply_decay, prune_discoveries).
THEOREM GuardedRemain == ASSUME OneJanitor, OnePruner PROVE MCSpec => GuardedStays
<1>1. ASSUME FilesIInv, MCNext, scenario # "crossing",
             NEW a \in archive' \ archive, NEW p \in Procs, job'[p] # job[p]
      PROVE  a.id \notin guarded[p]
  <2>1. IInv /\ Roles /\ Idles /\ job \in [Procs -> Job] BY <1>1 DEF FilesIInv, IInv, TypeOK
  <2>2. PICK q \in Procs : StepOf(q) /\ q \in Active(scenario)
    <3>1. ~NewDay BY <1>1 DEF NewDay, fileVars
    <3>2. QED BY <1>1, <2>1, <3>1, ActiveOnly, NextIs DEF MCNext
  <2>3. q = p BY <1>1, <2>1, <2>2, OthersStay
  <2>4. CASE /\ job[p].pc = "archiving" /\ live[job[p].file] # None
             /\ a.id = live[job[p].file].id
    <3>1. p \in Janitors BY <2>1, <2>4 DEF Roles, Procs
    <3>2. scenario = "hygiene" BY <1>1, <2>2, <2>3, <3>1, RolesAssumption DEF Active
    <3>3. Moving(p) BY <1>1, <3>1, <3>2 DEF FilesIInv
    <3>4. QED BY <2>4, <3>3 DEF Moving
  <2>5. CASE \E path \in job[p].picked :
                 job[p].pc = "pruning" /\ AtPath(path) # None /\ a.id = AtPath(path).id
    <3>1. p \in Pruners BY <2>1, <2>5 DEF Roles, Procs
    <3>2. scenario # "hygiene" BY <2>2, <2>3, <3>1, RolesAssumption DEF Active
    <3>3. Pruning(p) BY <1>1, <3>1, <3>2 DEF FilesIInv
    <3>4. QED BY <2>5, <3>3 DEF Pruning
  <2>6. QED BY <1>1, <2>1, <2>2, <2>3, <2>4, <2>5, ArchiveFrom
<1>2. FilesIInv /\ [MCNext]_mcVars =>
         [scenario # "crossing" =>
             \A a \in archive' \ archive : \A p \in Procs :
                 job'[p] # job[p] => a.id \notin guarded[p]]_mcVars
  BY <1>1
<1>3. QED BY <1>2, FilesInvariance, PTL DEF MCSpec, GuardedStays
=============================================================================
