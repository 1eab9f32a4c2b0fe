---------------------------- MODULE Services_proofs ---------------------------
EXTENDS AuditTrail, Migration, Backends, CheckpointHistory, FiniteSetTheorems, SequenceTheorems,
        WellFoundedInduction, NaturalsInduction, TLAPS
(***************************************************************************)
(* The services around the stores, one after the other: an inductive       *)
(* invariant of each, and the safety property it carries.                  *)
(***************************************************************************)

-----------------------------------------------------------------------------
(* Least elements                                                          *)

LEMMA LeastNatural ==
    ASSUME NEW S \in SUBSET Nat, S # {}
    PROVE  \E x \in S : \A y \in S : x <= y
<1>1. PICK x \in S : \A y \in S : ~(<<y, x>> \in OpToRel(<, Nat))
  BY NatLessThanWellFounded, WFMin
<1>2. \A y \in S : ~(y < x) BY <1>1 DEF OpToRel
<1>3. QED BY <1>2

LEMMA MinOfNaturals ==
    ASSUME NEW S \in SUBSET Nat, S # {}
    PROVE  Min(S) \in S /\ \A y \in S : Min(S) <= y
BY LeastNatural DEF Min

LEMMA MaxOfBounded ==
    ASSUME NEW m \in Nat, NEW S \in SUBSET (0..m), S # {}
    PROVE  Max(S) \in S /\ \A y \in S : Max(S) >= y
<1> DEFINE mirrored == {m - x : x \in S}
<1>1. \A x \in S : x \in Nat /\ x <= m /\ m - x \in Nat OBVIOUS
<1>2a. \A z \in mirrored : z \in Nat BY <1>1
<1>2b. mirrored \subseteq Nat /\ mirrored # {} BY <1>2a
<1>2. PICK z \in mirrored : \A y \in mirrored : z <= y BY <1>2b, LeastNatural
<1>3. PICK x \in S : z = m - x BY <1>2
<1>4. \A y \in S : x >= y BY <1>1, <1>2, <1>3
<1>5. QED BY <1>4 DEF Max

-----------------------------------------------------------------------------
(* Migration                                                               *)

\* The stages of a run.
RunStates ==
    [tool : {"migrate"}, pc : {"copy", "apply", "promote", "rename"}, at : DOMAIN Databases,
     step : 1..(Len(Steps) + 1), failed : BOOLEAN]
    \union [tool : {"backfill"}, pc : {"acl_allow", "classification"},
            at : DOMAIN Databases, step : 1..(Len(Steps) + 1), failed : BOOLEAN]

ToolsTyped ==
    /\ MigrationTypeOK
    /\ run = Idle \/ run \in RunStates
    /\ \A n \in Names : staged[n].kind = "db" /\ ~staged[n].rows => staged[n].columns = {}

\* Unless a run staged a torn file, a database is whole, cut short, or was never there.
WholeOrCut ==
    ~overTorn => \A n \in Names : live[n] \in {NoFile, Broken, Empty} \/ Intact(live[n])

CopyReady(n) ==
    IF live[n].kind = "missing" THEN staged[n].kind = "missing"
    ELSE staged[n].kind = "db" /\ (overTorn \/ staged[n].rows)
Whole(f) == f.kind = "db" => f.applied = StepIds
Migrated(n) == live[n].kind # "broken" /\ Whole(live[n])

Preceding(i) == {Databases[j] : j \in 1..(i - 1)}

InCopy == InPhase("migrate", "copy") => \A n \in Preceding(run.at) : CopyReady(n)
InApply ==
    InPhase("migrate", "apply") =>
        /\ \A n \in Names : CopyReady(n)
        /\ run.failed \/ /\ \A n \in Preceding(run.at) : Whole(staged[n])
                         /\ staged[Here].kind = "db" =>
                               \A k \in 1..(run.step - 1) : Steps[k] \in staged[Here].applied
InPromote ==
    InPhase("migrate", "promote") =>
        /\ \A n \in Names : CopyReady(n) /\ Whole(staged[n])
        /\ \A n \in Preceding(run.at) : Migrated(n)
InRename == InPhase("migrate", "rename") => \A n \in Names : Migrated(n)
Usable == run.tool = "migrate" => ~Unreadable
CopiesLead == \A n \in Names : staged[n].kind # "missing" => live[n].kind # "missing"

BothOrNone(f) == f.kind = "db" /\ "acl_allow" \in f.columns => f.columns = Columns
Stamped(n) == n \in skipped \/ (Intact(live[n]) => live[n].columns = Columns)
ColumnsPaired ==
    \A n \in Names \ skipped :
        /\ BothOrNone(staged[n])
        /\ BothOrNone(live[n]) \/ (InPhase("backfill", "classification") /\ n = Here)
InBackfill ==
    run.tool = "backfill" =>
        /\ \A n \in Preceding(run.at) : Stamped(n)
        /\ run.pc = "classification" => Intact(live[Here]) /\ "acl_allow" \in live[Here].columns
ToolsIInv ==
    /\ ToolsTyped /\ WholeOrCut /\ OneCopyIntact
    /\ Usable /\ CopiesLead /\ InCopy /\ InApply /\ InPromote /\ InRename
    /\ ColumnsPaired /\ InBackfill /\ FinishedIsDone

LEMMA FileTyped ==
    ASSUME NEW f \in Files
    PROVE  /\ f = NoFile \/ f = Broken \/ f.kind = "db"
           /\ f.kind = "db" => /\ f \in [kind : {"db"}, rows : BOOLEAN,
                                         applied : SUBSET StepIds, columns : SUBSET Columns]
                               /\ f.rows \in BOOLEAN /\ f.applied \subseteq StepIds
                               /\ f.columns \subseteq Columns
           /\ f.kind \in {"missing", "broken", "db"}
BY DEF Files, NoFile, Broken

LEMMA KindsOf ==
    /\ NoFile \in Files /\ Broken \in Files /\ Empty \in Files
    /\ NoFile.kind = "missing" /\ Broken.kind = "broken" /\ Empty.kind = "db"
    /\ ~Empty.rows /\ Empty.applied = {} /\ Empty.columns = {}
BY DEF NoFile, Broken, Empty, Db, Files

LEMMA RunTyped ==
    ASSUME ToolsTyped, run # Idle
    PROVE  /\ run \in RunStates /\ run.at \in DOMAIN Databases /\ Here \in Names
           /\ run.step \in 1..(Len(Steps) + 1) /\ run.failed \in BOOLEAN
           /\ run.tool \in {"migrate", "backfill"}
BY DEF ToolsTyped, RunStates, Here, Names

LEMMA IdleHasNoPhase ==
    ASSUME NEW kind \in {"migrate", "backfill"}, NEW pc, InPhase(kind, pc)
    PROVE  run # Idle
BY DEF InPhase, Idle

LEMMA BeforeNext ==
    ASSUME NEW i \in DOMAIN Databases
    PROVE  /\ Preceding(i + 1) = Preceding(i) \union {Databases[i]} /\ Preceding(1) = {}
           /\ ~(i < Len(Databases)) => Preceding(i) \union {Databases[i]} = Names
           /\ Preceding(i) \subseteq Names
<1>1. DOMAIN Databases = 1..Len(Databases) /\ Len(Databases) \in Nat BY MigrationBounds
<1>2. QED BY <1>1 DEF Preceding, Names

\* The next file of the phase, or the first of the next phase.
LEMMA NextInTyped ==
    ASSUME ToolsTyped, run.tool = "migrate", run # Idle,
           NEW pc \in {"copy", "apply", "promote", "rename"}, run' = NextIn(pc)
    PROVE  /\ run' \in RunStates /\ run'.tool = "migrate" /\ run' # Idle
           /\ run'.failed = run.failed /\ run'.step = 1 /\ run'.at \in DOMAIN Databases
           /\ \/ /\ run.at < Len(Databases) /\ run'.pc = run.pc /\ run'.at = run.at + 1
                 /\ Preceding(run'.at) = Preceding(run.at) \union {Here}
              \/ /\ run.at = Len(Databases) /\ run'.pc = pc /\ Preceding(run'.at) = {}
                 /\ Names = Preceding(run.at) \union {Here}
<1>1. /\ run \in RunStates /\ run.at \in 1..Len(Databases) /\ Len(Databases) \in Nat
      /\ 1 \in 1..(Len(Steps) + 1) /\ DOMAIN Databases = 1..Len(Databases)
  BY RunTyped, MigrationBounds
<1>2. run \in [tool : {"migrate"}, pc : {"copy", "apply", "promote", "rename"},
               at : DOMAIN Databases, step : 1..(Len(Steps) + 1), failed : BOOLEAN]
  BY <1>1 DEF RunStates
<1>3. CASE run.at < Len(Databases)
  <2>1. run' = [run EXCEPT !.at = @ + 1, !.step = 1] BY <1>3 DEF NextIn
  <2>2. run.at + 1 \in DOMAIN Databases BY <1>1, <1>3
  <2>3. /\ run' \in [tool : {"migrate"}, pc : {"copy", "apply", "promote", "rename"},
                     at : DOMAIN Databases, step : 1..(Len(Steps) + 1), failed : BOOLEAN]
        /\ run'.pc = run.pc /\ run'.at = run.at + 1 /\ run'.step = 1
        /\ run'.failed = run.failed /\ run'.tool = "migrate"
    BY <1>1, <1>2, <2>1, <2>2
  <2>4. QED BY <1>1, <1>3, <2>3, BeforeNext DEF RunStates, Here, Idle
<1>4. CASE ~(run.at < Len(Databases))
  <2>1. run' = [run EXCEPT !.at = 1, !.step = 1, !.pc = pc] BY <1>4 DEF NextIn
  <2>2. 1 \in DOMAIN Databases BY <1>1
  <2>3. /\ run' \in [tool : {"migrate"}, pc : {"copy", "apply", "promote", "rename"},
                     at : DOMAIN Databases, step : 1..(Len(Steps) + 1), failed : BOOLEAN]
        /\ run'.pc = pc /\ run'.at = 1 /\ run'.step = 1
        /\ run'.failed = run.failed /\ run'.tool = "migrate"
    BY <1>1, <1>2, <2>1, <2>2
  <2>4. run.at = Len(Databases) BY <1>1, <1>4
  <2>5. QED BY <1>1, <1>4, <2>3, <2>4, BeforeNext DEF RunStates, Here, Idle
<1>5. QED BY <1>3, <1>4

LEMMA NextStarts ==
    ASSUME ToolsTyped, starts < MaxStarts
    PROVE  starts + 1 \in 0..MaxStarts
<1>1. starts \in 0..MaxStarts /\ MaxStarts \in Nat
  BY MigrationBounds DEF ToolsTyped, MigrationTypeOK
<1>2. QED BY <1>1

LEMMA RunAtTyped ==
    ASSUME NEW kind \in {"migrate", "backfill"}, NEW pc,
           kind = "migrate" => pc \in {"copy", "rename"},
           kind = "backfill" => pc = "acl_allow"
    PROVE  /\ RunAt(kind, pc, 1) \in RunStates /\ RunAt(kind, pc, 1) # Idle
           /\ RunAt(kind, pc, 1).tool = kind /\ RunAt(kind, pc, 1).pc = pc
           /\ RunAt(kind, pc, 1).at = 1 /\ 1 \in DOMAIN Databases
<1>1. Len(Steps) \in Nat /\ Len(Databases) \in Nat /\ Len(Databases) > 0 BY MigrationBounds
<1>2. 1 \in DOMAIN Databases /\ 1 \in 1..(Len(Steps) + 1) BY <1>1, MigrationBounds
<1>3. QED BY <1>2 DEF RunAt, RunStates, Idle

LEMMA ToolsStart == MigrationInit => ToolsIInv
<1> SUFFICES ASSUME MigrationInit PROVE ToolsIInv OBVIOUS
<1> USE DEF MigrationInit
<1> DEFINE fresh == Db(TRUE, {}, {})
<1>1. fresh \in Files /\ fresh.kind = "db" /\ fresh.rows /\ fresh.columns = {}
      /\ Intact(fresh)
  BY DEF Db, Files, Intact
<1> HIDE DEF fresh
<1>2. \A n \in Names : live[n] = NoFile \/ live[n] = fresh BY DEF fresh
<1>3. \A n \in Names : staged[n] = NoFile OBVIOUS
<1>4. live \in [Names -> Files] /\ staged \in [Names -> Files] BY <1>1, KindsOf DEF fresh
<1>5. run = Idle /\ run.tool = "none" BY DEF Idle
<1>6. 0 \in 0..MaxStarts BY MigrationBounds
<1>7. ToolsTyped
  BY <1>1, <1>2, <1>3, <1>4, <1>5, <1>6, KindsOf DEF ToolsTyped, MigrationTypeOK
<1>8. WholeOrCut /\ OneCopyIntact BY <1>1, <1>2 DEF WholeOrCut, OneCopyIntact
<1>9. Usable /\ InCopy /\ InApply /\ InPromote /\ InRename /\ InBackfill
  BY <1>5 DEF Usable, InCopy, InApply, InPromote, InRename, InBackfill, InPhase
<1>10. CopiesLead BY <1>3, KindsOf DEF CopiesLead
<1>11. ColumnsPaired BY <1>1, <1>2, <1>3, KindsOf DEF ColumnsPaired, BothOrNone
<1>12. FinishedIsDone BY DEF FinishedIsDone
<1>13. QED BY <1>7, <1>8, <1>9, <1>10, <1>11, <1>12 DEF ToolsIInv

\* What holds of the files alone stays when they do.
LEMMA FilesStay ==
    ASSUME ToolsIInv, UNCHANGED <<live, staged, overTorn>>
    PROVE  WholeOrCut' /\ OneCopyIntact' /\ CopiesLead'
BY DEF ToolsIInv, WholeOrCut, OneCopyIntact, CopiesLead

LEMMA StartMigrateKept ==
    ASSUME ToolsIInv, StartMigrate
    PROVE  ToolsIInv'
<1> USE DEF ToolsIInv
<1>1. /\ run = Idle /\ starts < MaxStarts /\ starts' = starts + 1
      /\ UNCHANGED <<live, staged, config, overTorn, skipped>>
  BY DEF StartMigrate
<1>2. starts' \in 0..MaxStarts BY <1>1, NextStarts
<1>3. WholeOrCut' /\ OneCopyIntact' /\ CopiesLead' BY <1>1, FilesStay
<1>4. ~InPhase("backfill", "classification") BY <1>1 DEF InPhase, Idle
<1>5. \A n \in Names \ skipped : BothOrNone(staged[n]) /\ BothOrNone(live[n])
  BY <1>4 DEF ColumnsPaired
<1>6. ColumnsPaired' BY <1>1, <1>5 DEF ColumnsPaired, BothOrNone
<1>7. CASE run' = Idle
  <2>1. ~(run'.tool \in {"migrate", "backfill"}) BY <1>7 DEF Idle
  <2>2. outcome' = "raised" \/ (outcome' = "migrated" /\ Pending = {} /\ config # "old")
    BY <1>1, <1>7, RunAtTyped DEF StartMigrate, HasChanges
  <2>3. ToolsTyped' BY <1>1, <1>2, <1>7, <2>2 DEF ToolsTyped, MigrationTypeOK
  <2>4. FinishedIsDone' BY <1>1, <2>2 DEF FinishedIsDone, Pending, Present
  <2>5. Usable' /\ InCopy' /\ InApply' /\ InPromote' /\ InRename' /\ InBackfill'
    BY <2>1 DEF Usable, InCopy, InApply, InPromote, InRename, InBackfill, InPhase
  <2>6. QED BY <1>3, <1>6, <2>3, <2>4, <2>5
<1>8. CASE run' # Idle
  <2> DEFINE pc == IF Pending # {} THEN "copy" ELSE "rename"
  <2>1. ~Unreadable /\ run' = RunAt("migrate", pc, 1) /\ outcome' = outcome
    BY <1>1, <1>8 DEF StartMigrate
  <2>2. /\ run' \in RunStates /\ run'.tool = "migrate" /\ run'.pc = pc /\ run'.at = 1
        /\ 1 \in DOMAIN Databases
    BY <2>1, RunAtTyped
  <2>3. ToolsTyped' BY <1>1, <1>2, <2>1, <2>2 DEF ToolsTyped, MigrationTypeOK
  <2>4. Usable' BY <1>1, <2>1 DEF Usable, Unreadable
  <2>5. InCopy' BY <2>2, BeforeNext DEF InCopy
  <2>6. InRename'
    <3>1. SUFFICES ASSUME Pending = {}, NEW n \in Names PROVE Migrated(n)'
      BY <2>2 DEF InRename, InPhase
    <3>2. live[n] \in Files /\ live[n].kind # "broken"
      BY <2>1 DEF ToolsTyped, MigrationTypeOK, Unreadable
    <3>3. live[n].kind = "db" => StepIds \subseteq live[n].applied
      BY <3>1 DEF Pending, Present
    <3>4. live[n].kind = "db" => live[n].applied = StepIds BY <3>2, <3>3, FileTyped
    <3>5. QED BY <1>1, <3>2, <3>4 DEF Migrated, Whole
  <2>7. InApply' /\ InPromote' /\ InBackfill'
    BY <2>2 DEF InApply, InPromote, InBackfill, InPhase
  <2>8. FinishedIsDone' BY <1>8 DEF FinishedIsDone
  <2>9. QED BY <1>3, <1>6, <2>3, <2>4, <2>5, <2>6, <2>7, <2>8
<1>9. QED BY <1>7, <1>8

\* What the steps of a migration do to the stages: nothing else is under way.
LEMMA MigratingPairs ==
    ASSUME ToolsIInv, run.tool = "migrate", UNCHANGED skipped,
           \A n \in Names : BothOrNone(live[n]) => BothOrNone(live[n])',
           \A n \in Names \ skipped :
              BothOrNone(staged[n]) /\ BothOrNone(live[n]) => BothOrNone(staged[n])'
    PROVE  ColumnsPaired'
BY DEF ToolsIInv, ColumnsPaired, InPhase

LEMMA CopyOutKept ==
    ASSUME ToolsIInv, CopyOut
    PROVE  ToolsIInv'
<1> USE DEF ToolsIInv
<1>1. /\ run.tool = "migrate" /\ run.pc = "copy" /\ run # Idle
      /\ run' = NextIn("apply") /\ overTorn' = (overTorn \/ live[Here] = Empty)
      /\ UNCHANGED <<live, config, outcome, skipped, starts>>
  BY IdleHasNoPhase DEF CopyOut, InPhase
<1>2. /\ Here \in Names /\ live \in [Names -> Files] /\ staged \in [Names -> Files]
  BY <1>1, RunTyped DEF ToolsTyped, MigrationTypeOK
<1>3. live[Here].kind # "missing" => staged' = [staged EXCEPT ![Here] = live[Here]]
  BY DEF CopyOut, Copied
<1>4. live[Here].kind = "missing" => staged' = staged BY DEF CopyOut, Copied
<1>5. \A n \in Names : \/ staged'[n] = staged[n] /\ (n = Here => live[n].kind = "missing")
                       \/ staged'[n] = live[n] /\ n = Here /\ live[n].kind # "missing"
  BY <1>2, <1>3, <1>4
<1>6. live[Here].kind # "broken" BY <1>1, <1>2 DEF Usable, Unreadable
<1>7. ~overTorn' /\ live[Here].kind # "missing" => Intact(live[Here])
  <2>1. SUFFICES ASSUME ~overTorn', live[Here].kind # "missing" PROVE Intact(live[Here])
    OBVIOUS
  <2>2. ~overTorn /\ live[Here] # Empty BY <1>1, <2>1
  <2>3. live[Here] # NoFile /\ live[Here] # Broken BY <1>6, <2>1, KindsOf
  <2>4. QED BY <1>2, <2>2, <2>3 DEF WholeOrCut
<1>8. staged' \in [Names -> Files] BY <1>2, <1>3, <1>4
<1>9. /\ run' \in RunStates /\ run'.tool = "migrate" /\ run' # Idle
      /\ run'.step = 1 /\ run'.at \in DOMAIN Databases
      /\ \/ run'.pc = "copy" /\ Preceding(run'.at) = Preceding(run.at) \union {Here}
         \/ /\ run'.pc = "apply" /\ Preceding(run'.at) = {}
            /\ Names = Preceding(run.at) \union {Here}
  BY <1>1, NextInTyped
<1>10. ToolsTyped'
  <2>1. overTorn' \in BOOLEAN BY <1>1 DEF ToolsTyped, MigrationTypeOK
  <2>2. \A n \in Names : staged'[n].kind = "db" /\ ~staged'[n].rows => staged'[n].columns = {}
    BY <1>5 DEF ToolsTyped, MigrationTypeOK
  <2>3. QED BY <1>1, <1>8, <1>9, <2>1, <2>2 DEF ToolsTyped, MigrationTypeOK
<1>11. WholeOrCut' BY <1>1 DEF WholeOrCut
<1>12. OneCopyIntact'
  <2>1. SUFFICES ASSUME ~overTorn', NEW n \in Names, live[n] # NoFile
                 PROVE  Intact(live[n]) \/ Intact(staged[n])'
    BY <1>1 DEF OneCopyIntact, Intact
  <2>2. Intact(live[n]) \/ Intact(staged[n]) BY <1>1, <2>1 DEF OneCopyIntact
  <2>3. QED BY <1>5, <1>7, <2>1, <2>2 DEF Intact
<1>13. Usable' BY <1>1 DEF Usable, Unreadable
<1>14. CopiesLead' BY <1>1, <1>5 DEF CopiesLead
<1>15. ASSUME NEW n \in Names, n = Here PROVE CopyReady(n)'
  <2>1. CASE live[n].kind = "missing"
    <3>1. staged[n].kind = "missing" BY <1>2, <2>1 DEF CopiesLead
    <3>2. staged' = staged /\ live' = live BY <1>1, <1>4, <1>15, <2>1
    <3>3. QED BY <2>1, <3>1, <3>2 DEF CopyReady
  <2>2. CASE live[n].kind # "missing"
    <3>1. live[n].kind = "db" BY <1>2, <1>6, <1>15, <2>2, FileTyped
    <3>2. staged'[n] = live[n] /\ live' = live BY <1>1, <1>5, <1>15, <2>2
    <3>3. overTorn' \/ live[n].rows BY <1>7, <1>15, <2>2 DEF Intact
    <3>4. QED BY <2>2, <3>1, <3>2, <3>3 DEF CopyReady
  <2>3. QED BY <2>1, <2>2
<1>16. \A n \in Preceding(run.at) \union {Here} : CopyReady(n)'
  <2>1. SUFFICES ASSUME NEW n \in Preceding(run.at), n # Here PROVE CopyReady(n)'
    BY <1>2, <1>15
  <2>2. n \in Names BY <1>1, RunTyped, BeforeNext
  <2>3. CopyReady(n) BY <1>1 DEF InCopy, InPhase
  <2>4. staged'[n] = staged[n] BY <1>5, <2>1, <2>2
  <2>5. QED BY <1>1, <2>3, <2>4 DEF CopyReady
<1>17. InCopy' BY <1>9, <1>16 DEF InCopy, InPhase
<1>18. InApply'
  <2>1. 1..(1 - 1) = {} OBVIOUS
  <2>2. QED BY <1>9, <1>16, <2>1 DEF InApply, InPhase
<1>19. InPromote' /\ InRename' /\ InBackfill'
  BY <1>9 DEF InPromote, InRename, InBackfill, InPhase
<1>20. ColumnsPaired'
  BY <1>1, <1>5, MigratingPairs DEF BothOrNone
<1>21. FinishedIsDone' BY <1>9 DEF FinishedIsDone
<1>22. QED BY <1>10, <1>11, <1>12, <1>13, <1>14, <1>17, <1>18, <1>19, <1>20, <1>21

LEMMA StepTakenTyped ==
    ASSUME NEW f \in [kind : {"db"}, rows : BOOLEAN, applied : SUBSET StepIds,
                      columns : SUBSET Columns],
           NEW s \in StepIds
    PROVE  /\ StepTaken(f, s) \in Files /\ StepTaken(f, s).kind = "db"
           /\ StepTaken(f, s).rows = f.rows
           /\ f.applied \subseteq StepTaken(f, s).applied /\ s \in StepTaken(f, s).applied
           /\ \/ StepTaken(f, s).columns = f.columns
              \/ f.rows /\ StepTaken(f, s).columns = Columns
<1>1. Adds[s] \in {{}, Columns} BY MigrationBounds
<1> DEFINE took == f.applied \union {s}
           has == IF f.rows THEN f.columns \union Adds[s] ELSE f.columns
<1>2. took \in SUBSET StepIds OBVIOUS
<1>3. has \in SUBSET Columns /\ (has = f.columns \/ (f.rows /\ has = Columns)) BY <1>1
<1>4. StepTaken(f, s) = [f EXCEPT !.applied = took, !.columns = has] BY DEF StepTaken
<1>5. s \in took /\ f.applied \subseteq took OBVIOUS
<1> HIDE DEF took, has
<1>6. /\ StepTaken(f, s) \in [kind : {"db"}, rows : BOOLEAN, applied : SUBSET StepIds,
                          columns : SUBSET Columns]
      /\ StepTaken(f, s).kind = "db" /\ StepTaken(f, s).rows = f.rows
      /\ StepTaken(f, s).applied = took /\ StepTaken(f, s).columns = has
  BY <1>2, <1>3, <1>4
<1>7. QED BY <1>3, <1>5, <1>6 DEF Files

\* One copy takes one migration, or stays.
LEMMA AppliedTo ==
    ASSUME ToolsTyped, run # Idle, run.step <= Len(Steps), staged[Here].kind = "db",
           NEW fails \in BOOLEAN,
           staged' = IF fails THEN staged
                     ELSE [staged EXCEPT ![Here] = StepTaken(@, Steps[run.step])]
    PROVE  /\ staged' \in [Names -> Files]
           /\ \A n \in Names : n # Here => staged'[n] = staged[n]
           /\ staged'[Here].kind = "db" /\ staged'[Here].rows = staged[Here].rows
           /\ staged[Here].applied \subseteq staged'[Here].applied
           /\ ~fails => Steps[run.step] \in staged'[Here].applied
           /\ staged'[Here].columns = staged[Here].columns
              \/ (staged[Here].rows /\ staged'[Here].columns = Columns)
<1>1. Here \in Names /\ staged \in [Names -> Files] /\ staged[Here] \in Files
  BY RunTyped DEF ToolsTyped, MigrationTypeOK
<1>2. staged[Here] \in [kind : {"db"}, rows : BOOLEAN, applied : SUBSET StepIds,
                        columns : SUBSET Columns]
  BY <1>1, FileTyped
<1>3. CASE fails BY <1>1, <1>3
<1>4. CASE ~fails
  <2> DEFINE file == StepTaken(staged[Here], Steps[run.step])
  <2>1. Steps[run.step] \in StepIds
    <3>1. run.step \in 1..(Len(Steps) + 1) /\ Len(Steps) \in Nat BY RunTyped, MigrationBounds
    <3>2. run.step \in DOMAIN Steps BY <3>1, MigrationBounds
    <3>3. QED BY <3>2 DEF StepIds
  <2>2. /\ file \in Files /\ file.kind = "db" /\ file.rows = staged[Here].rows
        /\ staged[Here].applied \subseteq file.applied /\ Steps[run.step] \in file.applied
        /\ \/ file.columns = staged[Here].columns
           \/ staged[Here].rows /\ file.columns = Columns
    BY <1>2, <2>1, StepTakenTyped
  <2>3. staged' = [staged EXCEPT ![Here] = file] BY <1>4
  <2> HIDE DEF file
  <2>4. staged'[Here] = file /\ \A n \in Names : n # Here => staged'[n] = staged[n]
    BY <1>1, <2>3
  <2>5. staged' \in [Names -> Files] BY <1>1, <2>2, <2>3
  <2>6. QED BY <2>2, <2>4, <2>5
<1>5. QED BY <1>3, <1>4

LEMMA ApplyStepKept ==
    ASSUME ToolsIInv, ApplyStep
    PROVE  ToolsIInv'
<1> USE DEF ToolsIInv
<1>1. /\ run.tool = "migrate" /\ run.pc = "apply" /\ run # Idle
      /\ staged[Here].kind = "db" /\ run.step <= Len(Steps)
      /\ UNCHANGED <<live, config, outcome, overTorn, skipped, starts>>
  BY IdleHasNoPhase DEF ApplyStep, InPhase
<1>2. PICK fails \in BOOLEAN :
         /\ staged' = IF fails THEN staged
                      ELSE [staged EXCEPT ![Here] = StepTaken(@, Steps[run.step])]
         /\ run' = [run EXCEPT !.step = @ + 1, !.failed = run.failed \/ fails]
  BY DEF ApplyStep, Failed
<1>3. PICK h \in Names : h = Here BY <1>1, RunTyped
<1>4. /\ staged' \in [Names -> Files]
      /\ \A n \in Names : n # h => staged'[n] = staged[n]
      /\ staged'[h].kind = "db" /\ staged'[h].rows = staged[h].rows
      /\ staged[h].applied \subseteq staged'[h].applied
      /\ ~fails => Steps[run.step] \in staged'[h].applied
      /\ staged'[h].columns = staged[h].columns
         \/ (staged[h].rows /\ staged'[h].columns = Columns)
  BY <1>1, <1>2, <1>3, AppliedTo
<1>5. /\ run \in [tool : {"migrate"}, pc : {"copy", "apply", "promote", "rename"},
                  at : DOMAIN Databases, step : 1..(Len(Steps) + 1), failed : BOOLEAN]
      /\ run.step \in Nat /\ run.failed \in BOOLEAN /\ Len(Steps) \in Nat
      /\ run.step + 1 \in 1..(Len(Steps) + 1)
  <2>1. run \in RunStates /\ run.step \in 1..(Len(Steps) + 1) /\ run.failed \in BOOLEAN
        /\ Len(Steps) \in Nat
    BY <1>1, RunTyped, MigrationBounds
  <2>2. QED BY <1>1, <2>1 DEF RunStates
<1>6. /\ run' \in [tool : {"migrate"}, pc : {"copy", "apply", "promote", "rename"},
                   at : DOMAIN Databases, step : 1..(Len(Steps) + 1), failed : BOOLEAN]
      /\ run'.tool = "migrate" /\ run'.pc = "apply" /\ run'.at = run.at
      /\ run'.step = run.step + 1 /\ run'.failed = (run.failed \/ fails)
  BY <1>1, <1>2, <1>5
<1>7. Here' = h /\ run' # Idle /\ run' \in RunStates
  BY <1>3, <1>6 DEF Here, Idle, RunStates
<1>8. \A n \in Names : /\ staged'[n].kind = staged[n].kind
                       /\ staged[n].kind = "db" =>
                             /\ staged'[n].rows = staged[n].rows
                             /\ staged[n].applied \subseteq staged'[n].applied
                             /\ \/ staged'[n].columns = staged[n].columns
                                \/ staged[n].rows /\ staged'[n].columns = Columns
  BY <1>1, <1>3, <1>4
<1>9. ToolsTyped'
  <2>1. run'.at \in DOMAIN Databases BY <1>6
  <2>2. QED BY <1>1, <1>4, <1>6, <1>7, <1>8, <2>1 DEF ToolsTyped, MigrationTypeOK
<1>10. WholeOrCut' BY <1>1 DEF WholeOrCut
<1>11. OneCopyIntact' BY <1>1, <1>8 DEF OneCopyIntact, Intact
<1>12. Usable' /\ CopiesLead' BY <1>1, <1>8 DEF Usable, Unreadable, CopiesLead
<1>13. InCopy' /\ InPromote' /\ InRename' /\ InBackfill'
  BY <1>6 DEF InCopy, InPromote, InRename, InBackfill, InPhase
<1>14. InApply'
  <2>1. \A n \in Names : CopyReady(n)' BY <1>1, <1>8 DEF InApply, InPhase, CopyReady
  <2>2. ASSUME ~run.failed, ~fails
        PROVE  /\ \A n \in Preceding(run.at) : Whole(staged[n])'
               /\ \A k \in 1..run.step : Steps[k] \in staged'[h].applied
    <3>1. /\ \A n \in Preceding(run.at) : Whole(staged[n])
          /\ \A k \in 1..(run.step - 1) : Steps[k] \in staged[h].applied
      BY <1>1, <1>3, <2>2 DEF InApply, InPhase
    <3>2. ASSUME NEW n \in Preceding(run.at) PROVE Whole(staged[n])'
      <4>1. n \in Names BY <1>1, RunTyped, BeforeNext
      <4>2. staged'[n] \in Files BY <1>4, <4>1
      <4>3. staged'[n].kind = "db" => staged'[n].applied \subseteq StepIds
        BY <4>2, FileTyped
      <4>4. QED BY <1>8, <3>1, <4>1, <4>3 DEF Whole
    <3>3. \A k \in 1..run.step : k \in 1..(run.step - 1) \/ k = run.step BY <1>5
    <3>4. QED BY <1>4, <2>2, <3>1, <3>2, <3>3
  <2>3. run.step + 1 - 1 = run.step BY <1>5
  <2>4. \/ run'.failed
        \/ /\ \A n \in Preceding(run.at) : Whole(staged[n])'
           /\ \A k \in 1..(run'.step - 1) : Steps[k] \in staged'[h].applied
    BY <1>5, <1>6, <2>2, <2>3
  <2>5. QED BY <1>6, <1>7, <2>1, <2>4 DEF InApply
<1>15. ColumnsPaired'
  <2>1. \A n \in Names \ skipped : BothOrNone(staged[n]) => BothOrNone(staged[n])'
    BY <1>8 DEF BothOrNone
  <2>2. \A n \in Names : BothOrNone(live[n]) => BothOrNone(live[n])'
    BY <1>1 DEF BothOrNone
  <2>3. QED BY <1>1, <2>1, <2>2, MigratingPairs
<1>16. FinishedIsDone' BY <1>7 DEF FinishedIsDone
<1>17. QED BY <1>9, <1>10, <1>11, <1>12, <1>13, <1>14, <1>15, <1>16

LEMMA ApplyNextKept ==
    ASSUME ToolsIInv, ApplyNext
    PROVE  ToolsIInv'
<1> USE DEF ToolsIInv
<1>1. /\ run.tool = "migrate" /\ run.pc = "apply" /\ run # Idle
      /\ staged[Here].kind # "db" \/ run.step > Len(Steps)
      /\ UNCHANGED <<live, staged, config, overTorn, skipped, starts>>
  BY IdleHasNoPhase DEF ApplyNext, InPhase
<1>2. WholeOrCut' /\ OneCopyIntact' /\ CopiesLead' BY <1>1, FilesStay
<1>3. ColumnsPaired' BY <1>1, MigratingPairs DEF BothOrNone
<1>4. CASE run' = Idle /\ outcome' = "failed"
  <2>1. ToolsTyped' BY <1>1, <1>4 DEF ToolsTyped, MigrationTypeOK
  <2>2. run'.tool = "none" BY <1>4 DEF Idle
  <2>3. Usable' /\ InCopy' /\ InApply' /\ InPromote' /\ InRename' /\ InBackfill'
    BY <2>2 DEF Usable, InCopy, InApply, InPromote, InRename, InBackfill, InPhase
  <2>4. FinishedIsDone' BY <1>4 DEF FinishedIsDone
  <2>5. QED BY <1>2, <1>3, <2>1, <2>3, <2>4
<1>5. CASE run' = NextIn("promote") /\ outcome' = outcome
           /\ ~(run.at = Len(Databases) /\ run.failed)
  <2>1. /\ run' \in RunStates /\ run'.tool = "migrate" /\ run' # Idle
        /\ run'.failed = run.failed /\ run'.step = 1 /\ run'.at \in DOMAIN Databases
        /\ \/ /\ run'.pc = "apply" /\ Preceding(run'.at) = Preceding(run.at) \union {Here}
           \/ /\ run.at = Len(Databases) /\ run'.pc = "promote" /\ Preceding(run'.at) = {}
              /\ Names = Preceding(run.at) \union {Here}
    BY <1>1, <1>5, NextInTyped
  <2>2. ToolsTyped' BY <1>1, <1>5, <2>1 DEF ToolsTyped, MigrationTypeOK
  <2>3. Usable' BY <1>1 DEF Usable, Unreadable
  <2>4. \A n \in Names : CopyReady(n)' BY <1>1 DEF InApply, InPhase, CopyReady
  <2>5. ASSUME ~run.failed PROVE \A n \in Preceding(run.at) \union {Here} : Whole(staged[n])'
    <3>1. /\ \A n \in Preceding(run.at) : Whole(staged[n])
          /\ staged[Here].kind = "db" =>
                \A k \in 1..(run.step - 1) : Steps[k] \in staged[Here].applied
      BY <1>1, <2>5 DEF InApply, InPhase
    <3>2. Whole(staged[Here])
      <4>1. SUFFICES ASSUME staged[Here].kind = "db" PROVE staged[Here].applied = StepIds
        BY DEF Whole
      <4>2. run.step \in 1..(Len(Steps) + 1) /\ Len(Steps) \in Nat
        BY <1>1, RunTyped, MigrationBounds
      <4>3. run.step - 1 = Len(Steps) BY <1>1, <4>1, <4>2
      <4>4. DOMAIN Steps = 1..(run.step - 1) BY <4>3, MigrationBounds
      <4>5. StepIds \subseteq staged[Here].applied BY <3>1, <4>1, <4>4 DEF StepIds
      <4>6. staged[Here] \in Files BY <1>1, RunTyped DEF ToolsTyped, MigrationTypeOK
      <4>7. QED BY <4>1, <4>5, <4>6, FileTyped
    <3>3. \A n \in Preceding(run.at) \union {Here} : Whole(staged[n]) BY <3>1, <3>2
    <3>4. QED BY <1>1, <3>3 DEF Whole
  <2>6. InApply'
    <3>1. 1..(1 - 1) = {} OBVIOUS
    <3>2. run.failed \in BOOLEAN BY <1>1, RunTyped
    <3>3. QED BY <2>1, <2>4, <2>5, <3>1, <3>2 DEF InApply, InPhase
  <2>7. InPromote' BY <1>5, <2>1, <2>4, <2>5 DEF InPromote, InPhase
  <2>8. InCopy' /\ InRename' /\ InBackfill'
    BY <2>1 DEF InCopy, InRename, InBackfill, InPhase
  <2>9. FinishedIsDone' BY <2>1 DEF FinishedIsDone
  <2>10. QED BY <1>2, <1>3, <2>2, <2>3, <2>6, <2>7, <2>8, <2>9
<1>6. QED BY <1>4, <1>5 DEF ApplyNext, End

LEMMA PromoteKept ==
    ASSUME ToolsIInv, Promote
    PROVE  ToolsIInv'
<1> USE DEF ToolsIInv
<1>1. /\ run.tool = "migrate" /\ run.pc = "promote" /\ run # Idle
      /\ run' = NextIn("rename")
      /\ live' = IF staged[Here].kind = "missing" THEN live
                 ELSE [live EXCEPT ![Here] = staged[Here]]
      /\ UNCHANGED <<staged, config, outcome, overTorn, skipped, starts>>
  BY IdleHasNoPhase DEF Promote, InPhase
<1>2. Here \in Names /\ live \in [Names -> Files] /\ staged \in [Names -> Files]
  BY <1>1, RunTyped DEF ToolsTyped, MigrationTypeOK
<1>3. \A n \in Names : \/ live'[n] = live[n] /\ (n = Here => staged[n].kind = "missing")
                       \/ live'[n] = staged[n] /\ n = Here /\ staged[n].kind # "missing"
  BY <1>1, <1>2
<1>4. live' \in [Names -> Files] BY <1>1, <1>2
<1>5. \A n \in Names : CopyReady(n) /\ Whole(staged[n]) BY <1>1 DEF InPromote, InPhase
<1>6. \A n \in Names : staged[n].kind # "missing" =>
                          live[n].kind # "missing" /\ staged[n].kind = "db"
                          /\ (overTorn \/ staged[n].rows)
  BY <1>5 DEF CopiesLead, CopyReady
<1>7. \A n \in Names : live[n].kind # "broken" BY <1>1 DEF Usable, Unreadable
<1>8. /\ run' \in RunStates /\ run'.tool = "migrate" /\ run' # Idle
      /\ run'.at \in DOMAIN Databases
      /\ \/ run'.pc = "promote" /\ Preceding(run'.at) = Preceding(run.at) \union {Here}
         \/ run'.pc = "rename" /\ Names = Preceding(run.at) \union {Here}
  BY <1>1, NextInTyped
<1>9. ToolsTyped'
  <2>1. \A n \in Names : live'[n].kind = "db" /\ ~live'[n].rows => live'[n].columns = {}
    BY <1>3 DEF ToolsTyped, MigrationTypeOK
  <2>2. QED BY <1>1, <1>4, <1>8, <2>1 DEF ToolsTyped, MigrationTypeOK
<1>10. WholeOrCut' BY <1>1, <1>3, <1>6 DEF WholeOrCut, Intact
<1>11. OneCopyIntact' BY <1>1, <1>3, <1>6 DEF OneCopyIntact, Intact
<1>12. Usable'
  <2>1. \A n \in Names : live'[n].kind # "broken" BY <1>3, <1>6, <1>7
  <2>2. QED BY <2>1 DEF Usable, Unreadable
<1>13. CopiesLead' BY <1>1, <1>3 DEF CopiesLead
<1>14. \A n \in Names : CopyReady(n)' /\ Whole(staged[n])'
  BY <1>1, <1>3, <1>5, <1>6 DEF CopyReady, Whole
<1>15. ASSUME NEW n \in Preceding(run.at) \union {Here} PROVE Migrated(n)'
  <2>1. n \in Names BY <1>1, <1>2, RunTyped, BeforeNext
  <2>2. CASE n = Here /\ staged[n].kind # "missing"
    <3>1. live'[n] = staged[n] BY <1>3, <2>1, <2>2
    <3>2. staged[n].kind # "broken" /\ Whole(staged[n]) BY <1>5, <1>6, <2>1, <2>2
    <3>3. QED BY <3>1, <3>2 DEF Migrated, Whole
  <2>3. CASE n = Here /\ staged[n].kind = "missing"
    <3>1. live'[n] = live[n] BY <1>3, <2>1, <2>3
    <3>2. live[n].kind = "missing" BY <1>5, <2>1, <2>3 DEF CopyReady
    <3>3. QED BY <3>1, <3>2 DEF Migrated, Whole
  <2>4. CASE n # Here
    <3>1. live'[n] = live[n] BY <1>3, <2>1, <2>4
    <3>2. Migrated(n) BY <1>1, <1>15, <2>4 DEF InPromote, InPhase
    <3>3. QED BY <3>1, <3>2 DEF Migrated, Whole
  <2>5. QED BY <2>2, <2>3, <2>4
<1>16. InPromote' BY <1>8, <1>14, <1>15 DEF InPromote, InPhase
<1>17. InRename' BY <1>8, <1>15 DEF InRename, InPhase
<1>18. InCopy' /\ InApply' /\ InBackfill'
  BY <1>8 DEF InCopy, InApply, InBackfill, InPhase
<1>19. ColumnsPaired'
  <2>1. ~InPhase("backfill", "classification") BY <1>1 DEF InPhase
  <2>2. \A n \in Names \ skipped : BothOrNone(staged[n]) /\ BothOrNone(live[n])
    BY <2>1 DEF ColumnsPaired
  <2>3. QED BY <1>1, <1>3, <2>2 DEF ColumnsPaired, BothOrNone
<1>20. FinishedIsDone' BY <1>8 DEF FinishedIsDone
<1>21. QED BY <1>9, <1>10, <1>11, <1>12, <1>13, <1>16, <1>17, <1>18, <1>19, <1>20

LEMMA RenameKept ==
    ASSUME ToolsIInv, Rename
    PROVE  ToolsIInv'
<1> USE DEF ToolsIInv
<1>1. /\ run.tool = "migrate" /\ run.pc = "rename" /\ run # Idle
      /\ run' = Idle /\ outcome' = "migrated"
      /\ config' = IF config = "old" THEN "new" ELSE config
      /\ UNCHANGED <<live, staged, overTorn, skipped, starts>>
  BY IdleHasNoPhase DEF Rename, InPhase, End
<1>2. WholeOrCut' /\ OneCopyIntact' /\ CopiesLead' BY <1>1, FilesStay
<1>3. ColumnsPaired' BY <1>1, MigratingPairs DEF BothOrNone
<1>4. ToolsTyped' BY <1>1 DEF ToolsTyped, MigrationTypeOK
<1>5. run'.tool = "none" BY <1>1 DEF Idle
<1>6. Usable' /\ InCopy' /\ InApply' /\ InPromote' /\ InRename' /\ InBackfill'
  BY <1>5 DEF Usable, InCopy, InApply, InPromote, InRename, InBackfill, InPhase
<1>7. FinishedIsDone'
  <2>1. \A n \in Present : StepIds \subseteq live[n].applied
    <3>1. SUFFICES ASSUME NEW n \in Present PROVE StepIds \subseteq live[n].applied OBVIOUS
    <3>2. n \in Names /\ live[n].kind # "missing" BY DEF Present
    <3>3. live[n] \in Files BY <3>2 DEF ToolsTyped, MigrationTypeOK
    <3>4. Migrated(n) BY <1>1, <3>2 DEF InRename, InPhase
    <3>5. QED BY <3>2, <3>3, <3>4, FileTyped DEF Migrated, Whole
  <2>2. Pending = {} BY <2>1 DEF Pending
  <2>3. Pending' = {} BY <1>1, <2>2 DEF Pending, Present
  <2>4. QED BY <1>1, <2>3 DEF FinishedIsDone
<1>8. QED BY <1>2, <1>3, <1>4, <1>6, <1>7

LEMMA StartBackfillKept ==
    ASSUME ToolsIInv, StartBackfill
    PROVE  ToolsIInv'
<1> USE DEF ToolsIInv
<1>1. /\ run = Idle /\ starts < MaxStarts /\ starts' = starts + 1
      /\ run' = RunAt("backfill", "acl_allow", 1)
      /\ UNCHANGED <<live, staged, config, outcome, overTorn, skipped>>
  BY DEF StartBackfill
<1>2. starts' \in 0..MaxStarts BY <1>1, NextStarts
<1>3. /\ run' \in RunStates /\ run' # Idle /\ run'.tool = "backfill" /\ run'.pc = "acl_allow"
      /\ run'.at = 1 /\ 1 \in DOMAIN Databases
  BY <1>1, RunAtTyped
<1>4. WholeOrCut' /\ OneCopyIntact' /\ CopiesLead' BY <1>1, FilesStay
<1>5. ~InPhase("backfill", "classification") BY <1>1 DEF InPhase, Idle
<1>6. \A n \in Names \ skipped : BothOrNone(staged[n]) /\ BothOrNone(live[n])
  BY <1>5 DEF ColumnsPaired
<1>7. ColumnsPaired' BY <1>1, <1>6 DEF ColumnsPaired, BothOrNone
<1>8. ToolsTyped' BY <1>1, <1>2, <1>3 DEF ToolsTyped, MigrationTypeOK
<1>9. Usable' /\ InCopy' /\ InApply' /\ InPromote' /\ InRename'
  BY <1>3 DEF Usable, InCopy, InApply, InPromote, InRename, InPhase
<1>10. InBackfill' BY <1>3, BeforeNext DEF InBackfill
<1>11. FinishedIsDone' BY <1>3 DEF FinishedIsDone
<1>12. QED BY <1>4, <1>7, <1>8, <1>9, <1>10, <1>11

LEMMA ColumnAdded ==
    ASSUME ToolsTyped, Here \in Names, Intact(live[Here]), NEW c \in Columns,
           live' = [live EXCEPT ![Here].columns = @ \union {c}]
    PROVE  /\ live' \in [Names -> Files]
           /\ \A n \in Names : n # Here => live'[n] = live[n]
           /\ Intact(live'[Here]) /\ live'[Here].columns = live[Here].columns \union {c}
<1>1. live \in [Names -> Files] /\ live[Here] \in Files /\ live[Here].kind = "db"
      /\ live[Here].rows
  BY DEF ToolsTyped, MigrationTypeOK, Intact
<1>2. live[Here] \in [kind : {"db"}, rows : BOOLEAN, applied : SUBSET StepIds,
                      columns : SUBSET Columns]
  BY <1>1, FileTyped
<1> DEFINE file == [live[Here] EXCEPT !.columns = @ \union {c}]
<1>3. /\ file \in [kind : {"db"}, rows : BOOLEAN, applied : SUBSET StepIds,
                   columns : SUBSET Columns]
      /\ file.kind = "db" /\ file.rows /\ file.columns = live[Here].columns \union {c}
  BY <1>1, <1>2
<1>4. live' = [live EXCEPT ![Here] = file] OBVIOUS
<1> HIDE DEF file
<1>5. file \in Files BY <1>3 DEF Files
<1>6. live'[Here] = file /\ \A n \in Names : n # Here => live'[n] = live[n] BY <1>1, <1>4
<1>7. live' \in [Names -> Files] BY <1>1, <1>4, <1>5
<1>8. QED BY <1>3, <1>6, <1>7 DEF Intact

\* The files of a backfill: the intact ones stay intact.
IntactStays ==
    \A n \in Names : live'[n] = live[n] \/ (Intact(live[n]) /\ Intact(live'[n]))

LEMMA BackfillFiles ==
    ASSUME ToolsIInv, IntactStays, live' \in [Names -> Files], UNCHANGED <<staged, overTorn>>
    PROVE  /\ WholeOrCut' /\ OneCopyIntact' /\ CopiesLead'
           /\ \A n \in Names : live'[n].kind = "db" /\ ~live'[n].rows => live'[n].columns = {}
<1> USE DEF ToolsIInv
<1>1. WholeOrCut' BY DEF IntactStays, WholeOrCut
<1>2. OneCopyIntact' BY DEF IntactStays, OneCopyIntact, Intact
<1>3. CopiesLead' BY DEF IntactStays, CopiesLead, Intact
<1>4. \A n \in Names : live'[n].kind = "db" /\ ~live'[n].rows => live'[n].columns = {}
  BY DEF IntactStays, Intact, ToolsTyped, MigrationTypeOK
<1>5. QED BY <1>1, <1>2, <1>3, <1>4

LEMMA BackfillOnKept ==
    ASSUME ToolsIInv, run.tool = "backfill", run # Idle, BackfillOn,
           UNCHANGED <<staged, config, overTorn, skipped, starts>>,
           live' \in [Names -> Files], IntactStays,
           \A n \in Preceding(run.at) \union {Here} : Stamped(n)',
           \A n \in Names \ skipped : BothOrNone(staged[n])' /\ BothOrNone(live[n])'
    PROVE  ToolsIInv'
<1> USE DEF ToolsIInv
<1>1. WholeOrCut' /\ OneCopyIntact' /\ CopiesLead'
      /\ \A n \in Names : live'[n].kind = "db" /\ ~live'[n].rows => live'[n].columns = {}
  BY BackfillFiles
<1>2. ColumnsPaired' BY DEF ColumnsPaired
<1>3. run \in RunStates /\ run.at \in 1..Len(Databases) /\ Len(Databases) \in Nat
      /\ DOMAIN Databases = 1..Len(Databases)
  BY RunTyped, MigrationBounds
<1>4. CASE run.at < Len(Databases)
  <2>1. run' = [run EXCEPT !.at = @ + 1, !.pc = "acl_allow"] /\ outcome' = outcome
    BY <1>4 DEF BackfillOn
  <2>2. run.at + 1 \in DOMAIN Databases BY <1>3, <1>4
  <2>3. run \in [tool : {"backfill"}, pc : {"acl_allow", "classification"},
                 at : DOMAIN Databases, step : 1..(Len(Steps) + 1), failed : BOOLEAN]
    BY <1>3 DEF RunStates
  <2>4. /\ run' \in [tool : {"backfill"}, pc : {"acl_allow", "classification"},
                     at : DOMAIN Databases, step : 1..(Len(Steps) + 1), failed : BOOLEAN]
        /\ run'.pc = "acl_allow" /\ run'.at = run.at + 1 /\ run'.tool = "backfill"
    BY <2>1, <2>2, <2>3
  <2>5. run' # Idle /\ run' \in RunStates BY <2>4 DEF Idle, RunStates
  <2>6. Preceding(run'.at) = Preceding(run.at) \union {Here} BY <1>3, <2>4, BeforeNext DEF Here
  <2>7. ToolsTyped' BY <1>1, <2>1, <2>2, <2>4, <2>5 DEF ToolsTyped, MigrationTypeOK
  <2>8. Usable' /\ InCopy' /\ InApply' /\ InPromote' /\ InRename'
    BY <2>4 DEF Usable, InCopy, InApply, InPromote, InRename, InPhase
  <2>9. InBackfill' BY <2>4, <2>6 DEF InBackfill
  <2>10. FinishedIsDone' BY <2>5 DEF FinishedIsDone
  <2>11. QED BY <1>1, <1>2, <2>7, <2>8, <2>9, <2>10
<1>5. CASE ~(run.at < Len(Databases))
  <2>1. run' = Idle /\ outcome' = "backfilled" BY <1>5 DEF BackfillOn, End
  <2>2. ToolsTyped' BY <1>1, <2>1 DEF ToolsTyped, MigrationTypeOK
  <2>3. run'.tool = "none" BY <2>1 DEF Idle
  <2>4. Usable' /\ InCopy' /\ InApply' /\ InPromote' /\ InRename' /\ InBackfill'
    BY <2>3 DEF Usable, InCopy, InApply, InPromote, InRename, InBackfill, InPhase
  <2>5. Preceding(run.at) \union {Here} = Names BY <1>3, <1>5, BeforeNext DEF Here
  <2>6. FinishedIsDone' BY <2>1, <2>5 DEF FinishedIsDone, Stamped
  <2>7. QED BY <1>1, <1>2, <2>2, <2>4, <2>6
<1>6. QED BY <1>4, <1>5

LEMMA AddAclKept ==
    ASSUME ToolsIInv, AddAcl
    PROVE  ToolsIInv'
<1> USE DEF ToolsIInv
<1>1. /\ run.tool = "backfill" /\ run.pc = "acl_allow" /\ run # Idle
      /\ UNCHANGED <<staged, config, overTorn, skipped, starts>>
  BY IdleHasNoPhase DEF AddAcl, InPhase
<1>2. /\ live \in [Names -> Files] /\ Here \in Names /\ run \in RunStates
      /\ run.at \in DOMAIN Databases
  BY <1>1, RunTyped DEF ToolsTyped, MigrationTypeOK
<1>3. \A n \in Names \ skipped : BothOrNone(staged[n]) /\ BothOrNone(live[n])
  BY <1>1 DEF ColumnsPaired, InPhase
<1>4. \A n \in Preceding(run.at) : n \in Names /\ Stamped(n)
  BY <1>1, <1>2, BeforeNext DEF InBackfill
<1>5. CASE run' = Idle /\ outcome' = "raised" /\ live' = live
  <2>1. WholeOrCut' /\ OneCopyIntact' /\ CopiesLead' BY <1>1, <1>5, FilesStay
  <2>2. ColumnsPaired' BY <1>1, <1>3, <1>5 DEF ColumnsPaired, BothOrNone
  <2>3. ToolsTyped' BY <1>1, <1>5 DEF ToolsTyped, MigrationTypeOK
  <2>4. run'.tool = "none" BY <1>5 DEF Idle
  <2>5. Usable' /\ InCopy' /\ InApply' /\ InPromote' /\ InRename' /\ InBackfill'
    BY <2>4 DEF Usable, InCopy, InApply, InPromote, InRename, InBackfill, InPhase
  <2>6. FinishedIsDone' BY <1>5 DEF FinishedIsDone
  <2>7. QED BY <2>1, <2>2, <2>3, <2>5, <2>6
<1>6. CASE ~ToStamp(live[Here]) /\ BackfillOn /\ live' = live
  <2>1. IntactStays BY <1>6 DEF IntactStays
  <2>2. Stamped(Here) BY <1>2, <1>3, <1>6 DEF Stamped, ToStamp, Intact, BothOrNone
  <2>3. \A n \in Preceding(run.at) \union {Here} : Stamped(n) BY <1>4, <2>2
  <2>4. \A n \in Preceding(run.at) \union {Here} : Stamped(n)' BY <1>1, <1>6, <2>3 DEF Stamped
  <2>5. \A n \in Names \ skipped : BothOrNone(staged[n])' /\ BothOrNone(live[n])'
    BY <1>1, <1>3, <1>6 DEF BothOrNone
  <2>6. QED BY <1>1, <1>2, <1>6, <2>1, <2>4, <2>5, BackfillOnKept
<1>7. CASE /\ ToStamp(live[Here]) /\ outcome' = outcome
           /\ live' = [live EXCEPT ![Here].columns = @ \union {"acl_allow"}]
           /\ run' = [run EXCEPT !.pc = "classification"]
  <2>1. PICK h \in Names : h = Here BY <1>2
  <2>2. Intact(live[Here]) BY <1>7 DEF ToStamp, Intact
  <2>3. /\ live' \in [Names -> Files] /\ \A n \in Names : n # h => live'[n] = live[n]
        /\ Intact(live'[h]) /\ live'[h].columns = live[h].columns \union {"acl_allow"}
    BY <1>2, <1>7, <2>1, <2>2, ColumnAdded DEF Columns
  <2>4. IntactStays BY <2>1, <2>2, <2>3 DEF IntactStays
  <2>5. WholeOrCut' /\ OneCopyIntact' /\ CopiesLead'
        /\ \A n \in Names : live'[n].kind = "db" /\ ~live'[n].rows => live'[n].columns = {}
    BY <1>1, <2>3, <2>4, BackfillFiles
  <2>6. run \in [tool : {"backfill"}, pc : {"acl_allow", "classification"},
                 at : DOMAIN Databases, step : 1..(Len(Steps) + 1), failed : BOOLEAN]
    BY <1>1, <1>2 DEF RunStates
  <2>7. /\ run' \in [tool : {"backfill"}, pc : {"acl_allow", "classification"},
                     at : DOMAIN Databases, step : 1..(Len(Steps) + 1), failed : BOOLEAN]
        /\ run'.pc = "classification" /\ run'.at = run.at /\ run'.tool = "backfill"
    BY <1>7, <2>6
  <2>8. run' # Idle /\ run' \in RunStates /\ Here' = h BY <2>1, <2>7 DEF Idle, RunStates, Here
  <2>9. ToolsTyped' BY <1>1, <1>2, <1>7, <2>3, <2>5, <2>7, <2>8
    DEF ToolsTyped, MigrationTypeOK
  <2>10. Usable' /\ InCopy' /\ InApply' /\ InPromote' /\ InRename'
    BY <2>7 DEF Usable, InCopy, InApply, InPromote, InRename, InPhase
  <2>11. ASSUME NEW n \in Preceding(run.at) PROVE Stamped(n)'
    <3>1. CASE n = h
      <4>1. h \in skipped
        BY <1>3, <1>4, <1>7, <2>1, <2>2, <2>11, <3>1
           DEF Stamped, ToStamp, BothOrNone, Columns
      <4>2. QED BY <1>1, <3>1, <4>1 DEF Stamped
    <3>2. CASE n # h
      <4>1. live'[n] = live[n] /\ Stamped(n) BY <1>4, <2>3, <2>11, <3>2
      <4>2. QED BY <1>1, <4>1 DEF Stamped
    <3>3. QED BY <3>1, <3>2
  <2>12. InBackfill' BY <2>3, <2>7, <2>8, <2>11 DEF InBackfill
  <2>13. ColumnsPaired'
    <3>1. \A n \in Names \ skipped : BothOrNone(staged[n])' BY <1>1, <1>3 DEF BothOrNone
    <3>2. \A n \in Names \ skipped : n # h => BothOrNone(live[n])'
      BY <1>3, <2>3 DEF BothOrNone
    <3>3. InPhase("backfill", "classification")' BY <2>7 DEF InPhase
    <3>4. QED BY <1>1, <2>8, <3>1, <3>2, <3>3 DEF ColumnsPaired
  <2>14. FinishedIsDone' BY <2>8 DEF FinishedIsDone
  <2>15. QED BY <2>5, <2>9, <2>10, <2>12, <2>13, <2>14
<1>8. QED BY <1>5, <1>6, <1>7 DEF AddAcl, End

LEMMA AddLabelKept ==
    ASSUME ToolsIInv, AddLabel
    PROVE  ToolsIInv'
<1> USE DEF ToolsIInv
<1>1. /\ run.tool = "backfill" /\ run.pc = "classification" /\ run # Idle /\ BackfillOn
      /\ live' = [live EXCEPT ![Here].columns = @ \union {"classification"}]
      /\ UNCHANGED <<staged, config, overTorn, skipped, starts>>
  BY IdleHasNoPhase DEF AddLabel, InPhase
<1>2. PICK h \in Names : h = Here BY <1>1, RunTyped
<1>3. Intact(live[h]) /\ "acl_allow" \in live[h].columns /\ live[h] \in Files
  BY <1>1, <1>2 DEF InBackfill, ToolsTyped, MigrationTypeOK
<1>4. /\ live' \in [Names -> Files] /\ \A n \in Names : n # h => live'[n] = live[n]
      /\ Intact(live'[h]) /\ live'[h].columns = live[h].columns \union {"classification"}
  BY <1>1, <1>2, <1>3, ColumnAdded DEF Columns
<1>5. live'[h].columns = Columns
  <2>1. live[h].columns \subseteq Columns BY <1>3, FileTyped DEF Intact
  <2>2. QED BY <1>3, <1>4, <2>1 DEF Columns
<1>6. IntactStays BY <1>3, <1>4 DEF IntactStays
<1>7. \A n \in Preceding(run.at) : n \in Names /\ Stamped(n)
  BY <1>1, RunTyped, BeforeNext DEF InBackfill
<1>8. \A n \in Preceding(run.at) \union {Here} : Stamped(n)'
  <2>1. Stamped(h)' BY <1>5 DEF Stamped
  <2>2. \A n \in Preceding(run.at) : n # h => Stamped(n)' BY <1>1, <1>4, <1>7 DEF Stamped
  <2>3. QED BY <1>2, <2>1, <2>2
<1>9. \A n \in Names \ skipped : BothOrNone(staged[n])' /\ BothOrNone(live[n])'
  <2>1. \A n \in Names \ skipped : BothOrNone(staged[n]) /\ (n # h => BothOrNone(live[n]))
    BY <1>2 DEF ColumnsPaired
  <2>2. QED BY <1>1, <1>4, <1>5, <2>1 DEF BothOrNone
<1>10. QED BY <1>1, <1>4, <1>6, <1>8, <1>9, BackfillOnKept

LEMMA KillKept ==
    ASSUME ToolsIInv, Kill
    PROVE  ToolsIInv'
<1> USE DEF ToolsIInv
<1>1. run # Idle /\ run' = Idle /\ outcome' = "killed" /\ starts' = starts
  BY DEF Kill, End
<1>2. run'.tool = "none" BY <1>1 DEF Idle
<1>3. Usable' /\ InCopy' /\ InApply' /\ InPromote' /\ InRename' /\ InBackfill'
  BY <1>2 DEF Usable, InCopy, InApply, InPromote, InRename, InBackfill, InPhase
<1>4. FinishedIsDone' BY <1>1 DEF FinishedIsDone
<1>5. PICK h \in Names : h = Here BY <1>1, RunTyped
<1>6. live \in [Names -> Files] /\ staged \in [Names -> Files] /\ overTorn \in BOOLEAN
  BY DEF ToolsTyped, MigrationTypeOK
<1>7. CASE /\ run.tool = "migrate" /\ run.pc = "copy" /\ live[h].kind # "missing"
           /\ \E f \in CutShort(staged[h]) : staged' = [staged EXCEPT ![h] = f]
           /\ overTorn' = (overTorn \/ live[h] = Empty)
           /\ UNCHANGED <<live, config, skipped>>
  <2>1. PICK f \in CutShort(staged[h]) : staged' = [staged EXCEPT ![h] = f] BY <1>7
  <2>2. f = staged[h] \/ f = Empty \/ f = Broken BY DEF CutShort
  <2>3. f \in Files BY <1>6, <2>2, KindsOf
  <2>4. staged' \in [Names -> Files] /\ staged'[h] = f
        /\ \A n \in Names : n # h => staged'[n] = staged[n]
    BY <1>6, <2>1, <2>3
  <2>5. ~overTorn' => ~overTorn /\ Intact(live[h])
    <3>1. live[h].kind # "broken" BY <1>7 DEF Usable, Unreadable
    <3>2. live[h] # NoFile /\ live[h] # Broken BY <1>7, <3>1, KindsOf
    <3>3. QED BY <1>7, <3>2 DEF WholeOrCut
  <2>6. ToolsTyped'
    <3>1. \A n \in Names : staged'[n].kind = "db" /\ ~staged'[n].rows => staged'[n].columns = {}
      BY <2>2, <2>4, KindsOf DEF ToolsTyped, MigrationTypeOK
    <3>2. overTorn' \in BOOLEAN BY <1>6, <1>7
    <3>3. QED BY <1>1, <1>7, <2>4, <3>1, <3>2 DEF ToolsTyped, MigrationTypeOK
  <2>7. WholeOrCut' BY <1>7, <2>5 DEF WholeOrCut
  <2>8. OneCopyIntact' BY <1>7, <2>4, <2>5 DEF OneCopyIntact, Intact
  <2>9. CopiesLead' BY <1>7, <2>4 DEF CopiesLead
  <2>10. ColumnsPaired'
    <3>1. \A n \in Names \ skipped : BothOrNone(staged[n]) /\ BothOrNone(live[n])
      BY <1>7 DEF ColumnsPaired, InPhase
    <3>2. QED BY <1>7, <2>2, <2>4, <3>1, KindsOf DEF ColumnsPaired, BothOrNone
  <2>11. QED BY <1>3, <1>4, <2>6, <2>7, <2>8, <2>9, <2>10
<1>8. CASE /\ run.tool = "migrate" /\ run.pc = "promote" /\ staged[h].kind # "missing"
           /\ \E f \in CutShort(live[h]) : live' = [live EXCEPT ![h] = f]
           /\ UNCHANGED <<staged, config, overTorn, skipped>>
  <2>1. PICK f \in CutShort(live[h]) : live' = [live EXCEPT ![h] = f] BY <1>8
  <2>2. f = live[h] \/ f = Empty \/ f = Broken BY DEF CutShort
  <2>3. f \in Files /\ (f = live[h] \/ f.kind # "missing") BY <1>6, <2>2, KindsOf
  <2>4. live' \in [Names -> Files] /\ live'[h] = f
        /\ \A n \in Names : n # h => live'[n] = live[n]
    BY <1>6, <2>1, <2>3
  <2>5. ~overTorn => Intact(staged[h])
    <3>1. CopyReady(h) BY <1>8 DEF InPromote, InPhase
    <3>2. QED BY <1>8, <3>1 DEF CopyReady, Intact
  <2>6. ToolsTyped'
    <3>1. \A n \in Names : live'[n].kind = "db" /\ ~live'[n].rows => live'[n].columns = {}
      BY <2>2, <2>4, KindsOf DEF ToolsTyped, MigrationTypeOK
    <3>2. QED BY <1>1, <1>8, <2>4, <3>1 DEF ToolsTyped, MigrationTypeOK
  <2>7. WholeOrCut' BY <1>8, <2>2, <2>4 DEF WholeOrCut
  <2>8. OneCopyIntact' BY <1>8, <2>4, <2>5 DEF OneCopyIntact, Intact
  <2>9. CopiesLead' BY <1>8, <2>3, <2>4 DEF CopiesLead
  <2>10. ColumnsPaired'
    <3>1. \A n \in Names \ skipped : BothOrNone(staged[n]) /\ BothOrNone(live[n])
      BY <1>8 DEF ColumnsPaired, InPhase
    <3>2. QED BY <1>8, <2>2, <2>4, <3>1, KindsOf DEF ColumnsPaired, BothOrNone
  <2>11. QED BY <1>3, <1>4, <2>6, <2>7, <2>8, <2>9, <2>10
<1>9. CASE /\ run.tool = "migrate" /\ config' \in {config, "none"}
           /\ UNCHANGED <<live, staged, overTorn, skipped>>
  <2>1. WholeOrCut' /\ OneCopyIntact' /\ CopiesLead' BY <1>9, FilesStay
  <2>2. ColumnsPaired' BY <1>9, MigratingPairs DEF BothOrNone
  <2>3. ToolsTyped' BY <1>1, <1>9 DEF ToolsTyped, MigrationTypeOK
  <2>4. QED BY <1>3, <1>4, <2>1, <2>2, <2>3
<1>10. CASE /\ run.tool = "backfill"
            /\ run.pc = "classification" => skipped' = skipped \union {h}
            /\ run.pc # "classification" => skipped' = skipped
            /\ UNCHANGED <<live, staged, config, overTorn>>
  <2>1. WholeOrCut' /\ OneCopyIntact' /\ CopiesLead' BY <1>10, FilesStay
  <2>2. ColumnsPaired'
    <3>1. \A n \in Names \ skipped' : BothOrNone(staged[n]) /\ BothOrNone(live[n])
      BY <1>5, <1>10 DEF ColumnsPaired, InPhase
    <3>2. QED BY <1>10, <3>1 DEF ColumnsPaired, BothOrNone
  <2>3. ToolsTyped' BY <1>1, <1>10 DEF ToolsTyped, MigrationTypeOK
  <2>4. QED BY <1>3, <1>4, <2>1, <2>2, <2>3
<1>11. CASE run.tool = "migrate" /\ UNCHANGED <<live, staged, config, overTorn, skipped>>
  BY <1>9, <1>11
<1>12. QED BY <1>5, <1>7, <1>8, <1>9, <1>10, <1>11 DEF Kill, InPhase

\* However the operator runs migrate and the backfill, and whenever they are killed, the
\* stages of a run, the copies and the columns keep the inductive invariant.
\* (cli/migrate.py, _run_migrations, backfill_acl.py.)
THEOREM ToolsInvariance == MigrationSpec => []ToolsIInv
<1>1. MigrationInit => ToolsIInv BY ToolsStart
<1>2. ToolsIInv /\ [MigrationNext]_migrationVars => ToolsIInv'
  <2>1. SUFFICES ASSUME ToolsIInv, [MigrationNext]_migrationVars PROVE ToolsIInv' OBVIOUS
  <2>2. CASE UNCHANGED migrationVars
    <3>1. UNCHANGED <<live, staged, config, run, outcome, overTorn, skipped, starts>>
      BY <2>2 DEF migrationVars
    <3>2. Here' = Here BY <3>1 DEF Here
    <3>3. ToolsTyped' BY <2>1, <3>1 DEF ToolsIInv, ToolsTyped, MigrationTypeOK
    <3>4. WholeOrCut' /\ OneCopyIntact' /\ CopiesLead' BY <2>1, <3>1, FilesStay
    <3>5. (Usable /\ InCopy /\ InApply /\ InPromote /\ InRename)'
      BY <2>1, <3>1, <3>2
         DEF ToolsIInv, Usable, Unreadable, InCopy, InApply, InPromote, InRename, InPhase,
             CopyReady, Whole, Migrated
    <3>6. (ColumnsPaired /\ InBackfill /\ FinishedIsDone)'
      BY <2>1, <3>1, <3>2
         DEF ToolsIInv, ColumnsPaired, BothOrNone, InBackfill, Stamped, Intact, FinishedIsDone,
             Pending, Present, InPhase
    <3>7. QED BY <3>3, <3>4, <3>5, <3>6 DEF ToolsIInv
  <2>3. CASE MigrationNext
    BY <2>1, <2>3, StartMigrateKept, CopyOutKept, ApplyStepKept, ApplyNextKept, PromoteKept,
       RenameKept, StartBackfillKept, AddAclKept, AddLabelKept, KillKept DEF MigrationNext
  <2>4. QED BY <2>1, <2>2, <2>3
<1>3. QED BY <1>1, <1>2, PTL DEF MigrationSpec

\* Every database is intact in its place or among the copies, none gets into its place
\* unless every copy took every migration, and a run that ends well leaves nothing to do.
\* (cli/migrate.py, backfill_acl.py.)
THEOREM ToolsAreSafe == MigrationSpec => []ToolsKeepStores
<1>1. ToolsIInv => ToolsKeepStores
  <2>1. ToolsIInv => PromotedWhole BY DEF ToolsIInv, InPromote, PromotedWhole, Whole
  <2>2. QED BY <2>1 DEF ToolsIInv, ToolsKeepStores
<1>2. QED BY <1>1, ToolsInvariance, PTL

-----------------------------------------------------------------------------
(* AuditTrail                                                              *)

\* The exports of a principal that the limiter must still hold against him, and those that
\* the detector must still find in the store.
InLimiter(a) ==
    {i \in DOMAIN granted : /\ granted[i].actor = a /\ granted[i].live
                            /\ granted[i].at >= hour - Span}
Evidenced(a) ==
    {i \in DOMAIN granted :
        /\ granted[i].actor = a /\ granted[i].at >= hour - Retention
        /\ \/ granted[i].done
           \/ \E c \in Exporters : export[c].pc = "evaluate" /\ export[c].grant = i}

\* Each has an entry of its own, with its time.
InQueue(f, queue, a) ==
    /\ f \in [InLimiter(a) -> DOMAIN queue]
    /\ \A i \in InLimiter(a) : queue[f[i]] = granted[i].at
    /\ \A i, j \in InLimiter(a) : f[i] = f[j] => i = j
HeldIn(queue, a) == \E f : InQueue(f, queue, a)
LimiterCovers(a) == Len(hits[a]) <= ExportCap /\ HeldIn(hits[a], a)
InTrail(f, a) ==
    /\ \A i \in Evidenced(a) : f[i].actor = a /\ f[i].at = granted[i].at
    /\ \A i, j \in Evidenced(a) : f[i] = f[j] => i = j
TrailCovers(a) == \E f \in [Evidenced(a) -> trail] : InTrail(f, a)

\* A call is not older than CallTime, and its grant is of its principal and its time.
CallFits(c) ==
    /\ export[c].pc # "idle" =>
          export[c].at <= hour /\ hour <= export[c].at + CallTime
    /\ export[c].pc \in {"record", "evaluate"} =>
          /\ export[c].grant \in DOMAIN granted
          /\ granted[export[c].grant].actor = export[c].actor
          /\ granted[export[c].grant].at = export[c].at

TrailFinite == IsFiniteSet(trail) /\ \E top \in Nat : \A e \in trail : e.id <= top

AuditIInv ==
    /\ AuditTypeOK /\ TrailFinite
    /\ \A a \in Actors : LimiterCovers(a) /\ TrailCovers(a)
    /\ BurstSeen
    /\ \A c \in Exporters : CallFits(c)

Exporting == [pc: {"deny", "acquire", "limit", "record", "evaluate"},
              actor: Actors, folder: Folders, at: 0..LastTime, grant: 0..Len(granted)]
Grant == [actor: Actors, folder: Folders, at: 0..LastTime, live: BOOLEAN, done: BOOLEAN]

LEMMA ExportTyped ==
    ASSUME NEW c \in Exporters, AuditTypeOK, export[c].pc # "idle"
    PROVE  /\ export[c] \in Exporting
           /\ granted \in Seq(Grant) /\ hour \in 0..LastTime /\ LastTime \in Nat
<1>1. export[c] \in {NoExport} \union Exporting BY DEF AuditTypeOK, Exporting
<1>2. export[c] # NoExport BY DEF NoExport
<1>3. QED BY <1>1, <1>2, AuditBounds DEF AuditTypeOK, Grant

LEMMA GrantTyped ==
    ASSUME AuditTypeOK, NEW i \in DOMAIN granted
    PROVE  granted[i] \in Grant /\ granted[i].at \in 0..LastTime /\ granted[i].at \in Nat
<1>1. granted \in Seq(Grant) BY DEF AuditTypeOK, Grant
<1>2. granted[i] \in Grant BY <1>1
<1>3. QED BY <1>2, AuditBounds DEF Grant

LEMMA AuditInitIInv == AuditInit => AuditIInv
<1> SUFFICES ASSUME AuditInit PROVE AuditIInv OBVIOUS
<1>1. AuditTypeOK BY AuditBounds DEF AuditInit, AuditTypeOK
<1>2. TrailFinite BY FS_EmptySet DEF AuditInit, TrailFinite
<1>3. \A a \in Actors : LimiterCovers(a) /\ TrailCovers(a)
  <2> SUFFICES ASSUME NEW a \in Actors PROVE LimiterCovers(a) /\ TrailCovers(a) OBVIOUS
  <2>1. InLimiter(a) = {} /\ Evidenced(a) = {} BY DEF AuditInit, InLimiter, Evidenced
  <2> DEFINE none == [i \in {} |-> i]
  <2>2. none \in [InLimiter(a) -> DOMAIN hits[a]] /\ none \in [Evidenced(a) -> trail] BY <2>1
  <2>3. InQueue(none, hits[a], a) /\ InTrail(none, a) BY <2>1, <2>2 DEF InQueue, InTrail
  <2>4. Len(hits[a]) <= ExportCap BY AuditBounds DEF AuditInit
  <2>5. QED BY <2>2, <2>3, <2>4 DEF LimiterCovers, HeldIn, TrailCovers
<1>4. \A c \in Exporters : CallFits(c) BY DEF AuditInit, CallFits, NoExport
<1>5. BurstSeen
  <2> SUFFICES ASSUME NEW a \in Actors, NEW start \in 0..LastTime
               PROVE  ~(Cardinality(Finished(a, start)) > Burst)
    BY DEF BurstSeen
  <2>1. Finished(a, start) = {} BY DEF AuditInit, Finished
  <2>2. Cardinality(Finished(a, start)) = 0 BY <2>1, FS_EmptySet
  <2>3. QED BY <2>2, AuditBounds
<1>6. QED BY <1>1, <1>2, <1>3, <1>4, <1>5 DEF AuditIInv

\* Where fewer exports count and the entries stay, they are covered as before.
LEMMA QueueStays ==
    ASSUME NEW a \in Actors, LimiterCovers(a), hits'[a] = hits[a],
           NEW kept \in SUBSET InLimiter(a), kept = InLimiter(a)',
           \A i \in kept : granted'[i].at = granted[i].at
    PROVE  LimiterCovers(a)'
<1>1. PICK f : InQueue(f, hits[a], a) BY DEF LimiterCovers, HeldIn
<1> DEFINE g == [i \in kept |-> f[i]]
<1>2. /\ g \in [kept -> DOMAIN hits'[a]]
      /\ \A i \in kept : hits'[a][g[i]] = granted'[i].at
      /\ \A i, j \in kept : g[i] = g[j] => i = j
  BY <1>1 DEF InQueue
<1>3. InQueue(g, hits[a], a)' BY <1>2 DEF InQueue
<1>4. QED BY <1>3 DEF LimiterCovers, HeldIn

LEMMA TrailStays ==
    ASSUME NEW a \in Actors, TrailCovers(a),
           NEW kept \in SUBSET Evidenced(a), kept = Evidenced(a)',
           \A e \in trail : e.at >= hour' - Retention => e \in trail',
           \A i \in kept : granted'[i].at = granted[i].at
    PROVE  TrailCovers(a)'
<1>1. PICK f \in [Evidenced(a) -> trail] : InTrail(f, a) BY DEF TrailCovers
<1> DEFINE g == [i \in kept |-> f[i]]
<1>2. \A i \in kept : granted'[i].at >= hour' - Retention BY DEF Evidenced
<1>3. \A i \in kept : f[i] \in trail /\ f[i].at >= hour' - Retention BY <1>1, <1>2 DEF InTrail
<1>4. g \in [kept -> trail'] BY <1>3
<1>5. /\ \A i \in kept : g[i].actor = a /\ g[i].at = granted'[i].at
      /\ \A i, j \in kept : g[i] = g[j] => i = j
  BY <1>1 DEF InTrail
<1>6. InTrail(g, a)' BY <1>5 DEF InTrail
<1>7. QED BY <1>4, <1>6 DEF TrailCovers

\* The alerts of bursts stay, where no further export is complete.
LEMMA BurstStays ==
    ASSUME BurstSeen, alerts \subseteq alerts',
           \A a \in Actors, start \in 0..LastTime : Finished(a, start)' = Finished(a, start)
    PROVE  BurstSeen'
BY DEF BurstSeen

\* Time passes, and nothing else: fewer exports count.
LEMMA AuditPassKeeps == AuditIInv /\ Pass => AuditIInv'
<1> SUFFICES ASSUME AuditIInv, Pass PROVE AuditIInv' OBVIOUS
<1>1. /\ UNCHANGED <<trail, hits, export, alerts, granted, stops>>
      /\ hour \in Nat /\ hour' = hour + 1 /\ hour' \in 0..LastTime
      /\ Span \in Nat /\ Retention \in Nat /\ CallTime \in Nat /\ LastTime \in Nat
  BY AuditBounds DEF Pass, AuditIInv, AuditTypeOK
<1>2. AuditTypeOK' BY <1>1 DEF AuditIInv, AuditTypeOK
<1>3. \A i \in DOMAIN granted : granted[i].at \in Nat BY GrantTyped DEF AuditIInv, Grant
<1>4. ASSUME NEW a \in Actors PROVE LimiterCovers(a)' /\ TrailCovers(a)'
  <2>1. LimiterCovers(a) /\ TrailCovers(a) BY DEF AuditIInv
  <2>2. InLimiter(a)' \subseteq InLimiter(a) BY <1>1, <1>3 DEF InLimiter
  <2>3. Evidenced(a)' \subseteq Evidenced(a) BY <1>1, <1>3 DEF Evidenced
  <2>4. LimiterCovers(a)' BY <1>1, <2>1, <2>2, QueueStays
  <2>5. TrailCovers(a)' BY <1>1, <2>1, <2>3, TrailStays
  <2>6. QED BY <2>4, <2>5
<1>5. ASSUME NEW c \in Exporters PROVE CallFits(c)'
  <2>1. CallFits(c) BY DEF AuditIInv
  <2>2. export[c].pc # "idle" => export[c].at \in Nat /\ hour < export[c].at + CallTime
    BY ExportTyped, <1>1 DEF Pass, AuditIInv, Exporting
  <2>3. QED BY <1>1, <2>1, <2>2 DEF CallFits
<1>6. \A a \in Actors, start \in 0..LastTime : Finished(a, start)' = Finished(a, start)
  BY <1>1 DEF Finished
<1>7. BurstSeen' BY <1>1, <1>6, BurstStays DEF AuditIInv
<1>8. QED BY <1>1, <1>2, <1>4, <1>5, <1>7 DEF AuditIInv, TrailFinite

\* A call comes to its next step, or to its end, and leaves the store, the limiter and the
\* history alone: all that is covered stays so, and no export becomes logged.
LEMMA AuditStepKeeps ==
    ASSUME NEW c \in Exporters, NEW next, AuditIInv,
           UNCHANGED <<hour, trail, hits, granted, stops>>,
           export' = [export EXCEPT ![c] = next],
           next \in {NoExport} \union Exporting, next.pc \notin {"record", "evaluate"},
           next.pc # "idle" => next.at <= hour /\ hour <= next.at + CallTime,
           alerts' \subseteq [kind: {"limit", "burst", "sweep"}, actor: Actors],
           alerts \subseteq alerts'
    PROVE  AuditIInv'
<1>1. AuditTypeOK' BY DEF AuditIInv, AuditTypeOK, Exporting
<1>2. /\ export'[c] = next
      /\ \A d \in Exporters : d # c => export'[d] = export[d]
  BY DEF AuditIInv, AuditTypeOK
<1>3. ASSUME NEW a \in Actors PROVE LimiterCovers(a)' /\ TrailCovers(a)'
  <2>1. LimiterCovers(a) /\ TrailCovers(a) BY DEF AuditIInv
  <2>2. InLimiter(a)' = InLimiter(a) BY DEF InLimiter
  <2>3. Evidenced(a)' \subseteq Evidenced(a) BY <1>2 DEF Evidenced
  <2>4. LimiterCovers(a)' BY <2>1, <2>2, QueueStays
  <2>5. TrailCovers(a)' BY <2>1, <2>3, TrailStays
  <2>6. QED BY <2>4, <2>5
<1>4. ASSUME NEW d \in Exporters PROVE CallFits(d)'
  BY <1>2 DEF AuditIInv, CallFits
<1>5. \A a \in Actors, start \in 0..LastTime : Finished(a, start)' = Finished(a, start)
  BY DEF Finished
<1>6. BurstSeen' BY <1>5, BurstStays DEF AuditIInv
<1>7. QED BY <1>1, <1>3, <1>4, <1>6 DEF AuditIInv, TrailFinite

LEMMA AskKeeps ==
    ASSUME NEW c \in Exporters, NEW a \in Actors, NEW d \in Folders, NEW ask \in Asks,
           AuditIInv, Ask(c, a, d, ask)
    PROVE  AuditIInv'
<1> DEFINE next == [pc |-> IF Permitted(DefaultMatrix, ask) THEN "acquire" ELSE "deny",
                    actor |-> a, folder |-> d, at |-> hour, grant |-> 0]
<1>1. /\ hour \in 0..LastTime /\ LastTime \in Nat /\ CallTime \in Nat /\ Len(granted) \in Nat
  BY AuditBounds DEF AuditIInv, AuditTypeOK
<1>2. next \in Exporting /\ next.pc \in {"acquire", "deny"} /\ next.at = hour
  BY <1>1 DEF Exporting
<1>3. export' = [export EXCEPT ![c] = next] BY DEF Ask
<1>4. UNCHANGED <<hour, trail, hits, granted, stops, alerts>> BY DEF Ask
<1> HIDE DEF next
<1>5. alerts \subseteq [kind: {"limit", "burst", "sweep"}, actor: Actors]
  BY DEF AuditIInv, AuditTypeOK
<1>6. next.pc # "idle" => next.at <= hour /\ hour <= next.at + CallTime BY <1>1, <1>2
<1>7. next.pc \notin {"record", "evaluate"} BY <1>2
<1>8. QED BY <1>2, <1>3, <1>4, <1>5, <1>6, <1>7, AuditStepKeeps

LEMMA AuditDoneKeeps ==
    ASSUME NEW c \in Exporters, AuditIInv, Deny(c) \/ RefuseByLimit(c)
    PROVE  AuditIInv'
<1>1. /\ export' = [export EXCEPT ![c] = NoExport]
      /\ UNCHANGED <<hour, trail, hits, granted, stops>>
      /\ export[c].pc # "idle"
      /\ alerts' \in {alerts, alerts \union {[kind |-> "limit", actor |-> export[c].actor]}}
  BY DEF Deny, RefuseByLimit, ExportDone
<1>2. export[c].actor \in Actors BY <1>1, ExportTyped DEF AuditIInv, Exporting
<1>3. alerts' \subseteq [kind: {"limit", "burst", "sweep"}, actor: Actors]
  BY <1>1, <1>2 DEF AuditIInv, AuditTypeOK
<1>4. NoExport.pc = "idle" BY DEF NoExport
<1>5. QED BY <1>1, <1>3, <1>4, AuditStepKeeps

\* _evict keeps whatever lies in the window, and its order.
LEMMA EvictedHolds ==
    ASSUME NEW T \in SUBSET Nat, NEW queue \in Seq(T), NEW cutoff \in Int
    PROVE  /\ Evicted(queue, cutoff) \in Seq(T)
           /\ Len(Evicted(queue, cutoff)) <= Len(queue)
           /\ \E shift \in Nat : \A i \in DOMAIN queue : queue[i] >= cutoff =>
                 /\ i - shift \in DOMAIN Evicted(queue, cutoff)
                 /\ Evicted(queue, cutoff)[i - shift] = queue[i]
<1> DEFINE kept == {i \in DOMAIN queue : queue[i] >= cutoff}
<1>1. CASE kept = {}
  <2>1. Evicted(queue, cutoff) = <<>> BY <1>1 DEF Evicted
  <2>2. Len(<<>>) = 0 /\ Len(queue) \in Nat /\ <<>> \in Seq(T) OBVIOUS
  <2>3. 0 \in Nat /\ \A i \in DOMAIN queue : ~(queue[i] >= cutoff) BY <1>1
  <2>4. QED BY <2>1, <2>2, <2>3
<1>2. CASE kept # {}
  <2> DEFINE first == Min(kept)
  <2>1. kept \in SUBSET Nat OBVIOUS
  <2>2. first \in kept /\ \A i \in kept : first <= i BY <1>2, <2>1, MinOfNaturals
  <2>3. Evicted(queue, cutoff) = SubSeq(queue, first, Len(queue)) BY <1>2 DEF Evicted
  <2>4. kept \subseteq 1..Len(queue) /\ Len(queue) \in Nat OBVIOUS
  <2>5. \A i \in DOMAIN queue : queue[i] >= cutoff => i \in kept OBVIOUS
  <2> HIDE DEF first, kept
  <2>6. first \in 1..Len(queue) BY <2>2, <2>4
  <2> DEFINE size == Len(queue) - first + 1
  <2>6a. size \in Nat /\ size <= Len(queue) BY <2>4, <2>6
  <2>6b. SubSeq(queue, first, Len(queue)) = [k \in 1..size |-> queue[first + k - 1]]
    BY <2>4, <2>6 DEF SubSeq
  <2>6c. \A k \in 1..size : first + k - 1 \in 1..Len(queue) BY <2>4, <2>6
  <2> HIDE DEF size
  <2>6d. \A k \in 1..size : queue[first + k - 1] \in T BY <2>6c
  <2>7. /\ SubSeq(queue, first, Len(queue)) \in Seq(T)
        /\ Len(SubSeq(queue, first, Len(queue))) = size
        /\ \A k \in 1..size : SubSeq(queue, first, Len(queue))[k] = queue[first + k - 1]
    <3>1. [k \in 1..size |-> queue[first + k - 1]] \in [1..size -> T] BY <2>6d
    <3>2. [k \in 1..size |-> queue[first + k - 1]] \in Seq(T) BY <2>6a, <3>1
    <3>3. Len([k \in 1..size |-> queue[first + k - 1]]) = size BY <2>6a, <3>1, <3>2
    <3>4. QED BY <2>6b, <3>2, <3>3
  <2>8. first - 1 \in Nat BY <2>6
  <2>9. ASSUME NEW i \in DOMAIN queue, queue[i] >= cutoff
        PROVE  /\ i - (first - 1) \in 1..size
               /\ first + (i - (first - 1)) - 1 = i
    BY <2>2, <2>4, <2>5, <2>6, <2>9 DEF size
  <2>10. \A i \in DOMAIN queue : queue[i] >= cutoff =>
            /\ i - (first - 1) \in DOMAIN Evicted(queue, cutoff)
            /\ Evicted(queue, cutoff)[i - (first - 1)] = queue[i]
    BY <2>3, <2>6a, <2>7, <2>9
  <2>11. Len(Evicted(queue, cutoff)) <= Len(queue) BY <2>3, <2>6a, <2>7
  <2>12. QED BY <2>3, <2>7, <2>8, <2>10, <2>11
<1>3. QED BY <1>1, <1>2

\* So what counts now is still in the queue that Acquire evicts.
LEMMA EvictedCovers ==
    ASSUME NEW a \in Actors, NEW since \in 0..LastTime, AuditTypeOK, LimiterCovers(a),
           since <= hour
    PROVE  /\ Evicted(hits[a], since - Span) \in Seq(0..LastTime)
           /\ Len(Evicted(hits[a], since - Span)) <= ExportCap
           /\ HeldIn(Evicted(hits[a], since - Span), a)
<1> DEFINE queue == Evicted(hits[a], since - Span)
<1>1. /\ hits[a] \in Seq(0..LastTime) /\ hour \in Nat /\ since \in Nat /\ Span \in Nat
      /\ ExportCap \in Nat
  BY AuditBounds DEF AuditTypeOK
<1>2. since - Span \in Int /\ 0..LastTime \in SUBSET Nat BY <1>1
<1>3. PICK shift \in Nat : \A i \in DOMAIN hits[a] : hits[a][i] >= since - Span =>
         i - shift \in DOMAIN queue /\ queue[i - shift] = hits[a][i]
  BY <1>1, <1>2, EvictedHolds
<1>4. queue \in Seq(0..LastTime) /\ Len(queue) <= Len(hits[a])
  BY <1>1, <1>2, EvictedHolds
<1> HIDE DEF queue
<1>5. PICK f : InQueue(f, hits[a], a) BY DEF LimiterCovers, HeldIn
<1> DEFINE g == [i \in InLimiter(a) |-> f[i] - shift]
<1>6. \A i \in InLimiter(a) : granted[i].at \in Nat /\ granted[i].at >= hour - Span
  BY GrantTyped DEF InLimiter
<1>7. \A i \in InLimiter(a) : /\ f[i] \in DOMAIN hits[a] /\ f[i] \in Nat
                              /\ hits[a][f[i]] = granted[i].at
                              /\ hits[a][f[i]] >= since - Span
  BY <1>1, <1>5, <1>6 DEF InQueue
<1>8. \A i \in InLimiter(a) : g[i] \in DOMAIN queue /\ queue[g[i]] = granted[i].at
  BY <1>3, <1>7
<1>9. \A i, j \in InLimiter(a) : g[i] = g[j] => i = j BY <1>5, <1>7 DEF InQueue
<1>10. g \in [InLimiter(a) -> DOMAIN queue] BY <1>8
<1>11. HeldIn(queue, a)
  <2>1. InQueue(g, queue, a) BY <1>8, <1>9, <1>10 DEF InQueue
  <2>2. QED BY <2>1 DEF HeldIn
<1>12. Len(queue) <= ExportCap
  <2>1. Len(hits[a]) <= ExportCap BY DEF LimiterCovers
  <2>2. Len(hits[a]) \in Nat /\ Len(queue) \in Nat BY <1>1, <1>4
  <2>3. QED BY <1>1, <1>4, <2>1, <2>2
<1>13. QED BY <1>4, <1>11, <1>12 DEF queue

\* Refused: the queue is only evicted.
LEMMA AcquireRefusedKeeps ==
    ASSUME NEW c \in Exporters, AuditIInv, Acquire(c),
           Len(Evicted(hits[export[c].actor], export[c].at - Span)) >= ExportCap
    PROVE  AuditIInv'
<1> DEFINE a == export[c].actor
           queue == Evicted(hits[a], export[c].at - Span)
<1>1. /\ export[c].pc = "acquire"
      /\ hits' = [hits EXCEPT ![a] = queue]
      /\ export' = [export EXCEPT ![c].pc = "limit"]
      /\ UNCHANGED <<hour, trail, alerts, granted, stops>>
  BY DEF Acquire, GoTo
<1>2. /\ AuditTypeOK /\ a \in Actors /\ export[c] \in Exporting
      /\ export[c].at \in 0..LastTime /\ export[c].at <= hour
      /\ export \in [Exporters -> {NoExport} \union Exporting]
  BY <1>1, ExportTyped DEF AuditIInv, CallFits, Exporting, AuditTypeOK
<1>3. LimiterCovers(a) BY <1>2 DEF AuditIInv
<1>4. queue \in Seq(0..LastTime) /\ Len(queue) <= ExportCap /\ HeldIn(queue, a)
  BY <1>2, <1>3, EvictedCovers
<1> HIDE DEF queue
<1>5. /\ hits' \in [Actors -> Seq(0..LastTime)] /\ hits'[a] = queue
      /\ \A b \in Actors : b # a => hits'[b] = hits[b]
  BY <1>1, <1>2, <1>4 DEF AuditTypeOK
<1>6. /\ export'[c] \in Exporting /\ export'[c].pc = "limit" /\ export'[c].at = export[c].at
      /\ \A d \in Exporters : d # c => export'[d] = export[d]
      /\ export' \in [Exporters -> {NoExport} \union Exporting]
  BY <1>1, <1>2 DEF Exporting
<1>7. AuditTypeOK' BY <1>1, <1>2, <1>5, <1>6 DEF AuditTypeOK, Exporting
<1>8. ASSUME NEW b \in Actors PROVE LimiterCovers(b)' /\ TrailCovers(b)'
  <2>1. LimiterCovers(b) /\ TrailCovers(b) BY DEF AuditIInv
  <2>2. InLimiter(b)' = InLimiter(b) BY <1>1 DEF InLimiter
  <2>3. Evidenced(b)' \subseteq Evidenced(b) BY <1>1, <1>6 DEF Evidenced
  <2>4. TrailCovers(b)' BY <1>1, <2>1, <2>3, TrailStays
  <2>5. CASE b # a BY <1>1, <1>5, <2>1, <2>2, <2>4, <2>5, QueueStays
  <2>6. CASE b = a
    <3>1. PICK f : InQueue(f, queue, b) BY <1>4, <2>6 DEF HeldIn
    <3>2. InQueue(f, hits[b], b)' BY <1>1, <1>5, <2>2, <2>6, <3>1 DEF InQueue
    <3>3. LimiterCovers(b)' BY <1>4, <1>5, <2>6, <3>2 DEF LimiterCovers, HeldIn
    <3>4. QED BY <2>4, <3>3
  <2>7. QED BY <2>5, <2>6
<1>9. ASSUME NEW d \in Exporters PROVE CallFits(d)'
  BY <1>1, <1>6 DEF AuditIInv, CallFits
<1>10. \A b \in Actors, start \in 0..LastTime : Finished(b, start)' = Finished(b, start)
  BY <1>1 DEF Finished
<1>11. BurstSeen' BY <1>1, <1>10, BurstStays DEF AuditIInv
<1>12. QED BY <1>1, <1>7, <1>8, <1>9, <1>11 DEF AuditIInv, TrailFinite

\* Let pass: its time is the last entry of the queue.
LEMMA AcquireGrantedKeeps ==
    ASSUME NEW c \in Exporters, AuditIInv, Acquire(c),
           ~(Len(Evicted(hits[export[c].actor], export[c].at - Span)) >= ExportCap)
    PROVE  AuditIInv'
<1> DEFINE a == export[c].actor
           now == export[c].at
           queue == Evicted(hits[a], now - Span)
           n == Len(granted) + 1
           new == [actor |-> a, folder |-> export[c].folder, at |-> now,
                   live |-> TRUE, done |-> FALSE]
<1>1. /\ export[c].pc = "acquire"
      /\ hits' = [hits EXCEPT ![a] = Append(queue, now)]
      /\ granted' = Append(granted, new)
      /\ export' = [export EXCEPT ![c] = [@ EXCEPT !.pc = "record", !.grant = n]]
      /\ UNCHANGED <<hour, trail, alerts, stops>>
  BY DEF Acquire
<1>2. /\ AuditTypeOK /\ a \in Actors /\ export[c] \in Exporting
      /\ now \in 0..LastTime /\ now <= hour /\ hour <= now + CallTime
      /\ export \in [Exporters -> {NoExport} \union Exporting]
      /\ granted \in Seq(Grant) /\ new \in Grant
  BY <1>1, ExportTyped DEF AuditIInv, CallFits, Exporting, AuditTypeOK, Grant
<1>3. LimiterCovers(a) BY <1>2 DEF AuditIInv
<1>4. queue \in Seq(0..LastTime) /\ Len(queue) <= ExportCap /\ HeldIn(queue, a)
  BY <1>2, <1>3, EvictedCovers
<1>4a. ~(Len(queue) >= ExportCap) OBVIOUS
<1> HIDE DEF queue
<1>5. /\ Append(queue, now) \in Seq(0..LastTime)
      /\ Len(queue) \in Nat /\ Len(Append(queue, now)) = Len(queue) + 1
      /\ Len(queue) + 1 <= ExportCap
      /\ Append(queue, now)[Len(queue) + 1] = now
      /\ \A k \in 1..Len(queue) : Append(queue, now)[k] = queue[k]
  <2>1. now \in 0..LastTime /\ ExportCap \in Nat BY <1>2, AuditBounds
  <2> HIDE DEF now
  <2>2. Len(queue) \in Nat /\ DOMAIN queue = 1..Len(queue) BY <1>4
  <2>3. /\ Append(queue, now) \in Seq(0..LastTime)
        /\ Len(Append(queue, now)) = Len(queue) + 1
        /\ Append(queue, now)[Len(queue) + 1] = now
        /\ \A k \in 1..Len(queue) : Append(queue, now)[k] = queue[k]
    BY <1>4, <2>1, <2>2
  <2>4. Len(queue) + 1 <= ExportCap BY <1>4a, <2>1, <2>2
  <2>5. QED BY <2>2, <2>3, <2>4
<1>6. /\ hits' \in [Actors -> Seq(0..LastTime)] /\ hits'[a] = Append(queue, now)
      /\ \A b \in Actors : b # a => hits'[b] = hits[b]
  BY <1>1, <1>2, <1>5 DEF AuditTypeOK
<1> HIDE DEF new, now
<1>7. /\ granted' \in Seq(Grant) /\ Len(granted) \in Nat /\ n \in Nat
      /\ Len(granted') = n /\ DOMAIN granted' = DOMAIN granted \union {n}
      /\ n \notin DOMAIN granted /\ granted'[n] = new
      /\ \A i \in DOMAIN granted : granted'[i] = granted[i]
  BY <1>1, <1>2
<1>8. /\ export'[c].pc = "record" /\ export'[c].grant = n
      /\ export'[c].actor = a /\ export'[c].at = now /\ export'[c].folder = export[c].folder
      /\ \A d \in Exporters : d # c => export'[d] = export[d]
      /\ export'[c] \in [pc: {"record"}, actor: Actors, folder: Folders, at: 0..LastTime,
                         grant: {n}]
  BY <1>1, <1>2 DEF Exporting, now
<1>9. Exporting \subseteq Exporting' /\ export'[c] \in Exporting'
  BY <1>7, <1>8 DEF Exporting
<1>10. export' \in [Exporters -> {NoExport} \union Exporting']
  <2>1. export' \in [Exporters -> {export'[d] : d \in Exporters}] BY <1>1, <1>2
  <2>2. \A d \in Exporters : export'[d] \in {NoExport} \union Exporting'
    BY <1>2, <1>8, <1>9
  <2>3. QED BY <2>1, <2>2
<1>11. AuditTypeOK'
  BY <1>1, <1>2, <1>6, <1>7, <1>10 DEF AuditTypeOK, Exporting, Grant
<1>12. new.actor = a /\ new.at = now /\ new.done = FALSE BY DEF new
<1>13. ASSUME NEW b \in Actors PROVE LimiterCovers(b)' /\ TrailCovers(b)'
  <2>1. LimiterCovers(b) /\ TrailCovers(b) BY DEF AuditIInv
  <2>2. Evidenced(b)' \subseteq Evidenced(b)
    <3> SUFFICES ASSUME NEW i \in Evidenced(b)' PROVE i \in Evidenced(b) OBVIOUS
    <3>1. /\ i \in DOMAIN granted' /\ granted'[i].actor = b
          /\ granted'[i].at >= hour - Retention
          /\ \/ granted'[i].done
             \/ \E d \in Exporters : export'[d].pc = "evaluate" /\ export'[d].grant = i
      BY <1>1 DEF Evidenced
    <3>2. i # n
      <4> SUFFICES ASSUME i = n PROVE FALSE OBVIOUS
      <4>1. PICK d \in Exporters : export'[d].pc = "evaluate" /\ export'[d].grant = n
        BY <1>7, <1>12, <3>1
      <4>2. d # c BY <1>8, <4>1
      <4>3. export[d].pc = "evaluate" /\ export[d].grant = n BY <1>8, <4>1, <4>2
      <4>4. n \in DOMAIN granted BY <4>3 DEF AuditIInv, CallFits
      <4>5. QED BY <1>7, <4>4
    <3>3. i \in DOMAIN granted /\ granted'[i] = granted[i] BY <1>7, <3>1, <3>2
    <3>4. QED BY <1>8, <3>1, <3>3 DEF Evidenced
  <2>3. \A i \in Evidenced(b) : granted'[i] = granted[i] BY <1>7 DEF Evidenced
  <2>4. TrailCovers(b)' BY <1>1, <2>1, <2>2, <2>3, TrailStays
  <2>5. InLimiter(b)' \subseteq InLimiter(b) \union {n} BY <1>1, <1>7 DEF InLimiter
  <2>6. \A i \in InLimiter(b) : i \in DOMAIN granted BY DEF InLimiter
  <2>7. CASE b # a
    <3>1. n \notin InLimiter(b)' BY <1>7, <1>12, <2>7 DEF InLimiter
    <3>2. InLimiter(b)' \subseteq InLimiter(b) BY <2>5, <3>1
    <3>3. \A i \in InLimiter(b) : granted'[i].at = granted[i].at BY <1>7, <2>6
    <3>4. LimiterCovers(b)' BY <1>6, <2>1, <2>7, <3>2, <3>3, QueueStays
    <3>5. QED BY <2>4, <3>4
  <2>8. CASE b = a
    <3>1. PICK f : InQueue(f, queue, b) BY <1>4, <2>8 DEF HeldIn
    <3>1a. PICK kept \in SUBSET (InLimiter(b) \union {n}) : kept = InLimiter(b)' BY <2>5
    <3> DEFINE g == [i \in kept |-> IF i = n THEN Len(queue) + 1 ELSE f[i]]
    <3>2. \A i \in kept : i # n => /\ i \in InLimiter(b) /\ f[i] \in 1..Len(queue)
                                   /\ granted'[i] = granted[i]
      BY <1>4, <1>7, <2>6, <3>1 DEF InQueue
    <3>3. \A i \in kept : /\ g[i] \in 1..(Len(queue) + 1)
                          /\ hits'[b][g[i]] = granted'[i].at
      <4> SUFFICES ASSUME NEW i \in kept
                   PROVE  g[i] \in 1..(Len(queue) + 1) /\ hits'[b][g[i]] = granted'[i].at
        OBVIOUS
      <4>1. CASE i = n BY <1>5, <1>6, <1>7, <1>12, <2>8, <4>1
      <4>2. CASE i # n
        <5>1. f[i] \in 1..Len(queue) /\ i \in InLimiter(b) /\ g[i] = f[i] BY <3>2, <4>2
        <5>2. queue[f[i]] = granted[i].at BY <3>1, <5>1 DEF InQueue
        <5>3. QED BY <1>5, <1>6, <2>8, <3>2, <4>2, <5>1, <5>2
      <4>3. QED BY <4>1, <4>2
    <3>4. \A i, j \in kept : g[i] = g[j] => i = j BY <1>5, <3>1, <3>2 DEF InQueue
    <3>5. DOMAIN hits'[b] = 1..(Len(queue) + 1) BY <1>5, <1>6, <2>8
    <3>6. g \in [kept -> DOMAIN hits'[b]] BY <3>3, <3>5
    <3>6a. PICK h : h = g OBVIOUS
    <3> HIDE DEF g
    <3>7. InQueue(h, hits[b], b)' BY <3>1a, <3>3, <3>4, <3>6, <3>6a DEF InQueue
    <3>8. LimiterCovers(b)' BY <1>5, <1>6, <2>8, <3>7 DEF LimiterCovers, HeldIn
    <3>9. QED BY <2>4, <3>8
  <2>9. QED BY <2>7, <2>8
<1>14. ASSUME NEW d \in Exporters PROVE CallFits(d)'
  <2>1. CallFits(d) BY DEF AuditIInv
  <2>2. CASE d = c BY <1>1, <1>2, <1>7, <1>8, <1>12, <2>2 DEF CallFits, now
  <2>3. CASE d # c BY <1>1, <1>7, <1>8, <2>1, <2>3 DEF CallFits
  <2>4. QED BY <2>2, <2>3
<1>15. \A b \in Actors, start \in 0..LastTime : Finished(b, start)' = Finished(b, start)
  BY <1>7, <1>12 DEF Finished
<1>16. BurstSeen' BY <1>1, <1>15, BurstStays DEF AuditIInv
<1>17. QED BY <1>1, <1>11, <1>13, <1>14, <1>16 DEF AuditIInv, TrailFinite

\* The row that LogAllowed stores is a new one.
LEMMA NextIdIsNew ==
    ASSUME AuditTypeOK, TrailFinite
    PROVE  NextId \in Nat /\ \A e \in trail : e.id < NextId
<1> DEFINE ids == {0} \union {e.id : e \in trail}
<1>1. PICK top \in Nat : \A e \in trail : e.id <= top BY DEF TrailFinite
<1>2. \A e \in trail : e.id \in Nat BY DEF AuditTypeOK
<1>3. ids \in SUBSET (0..top) BY <1>1, <1>2
<1>4. Max(ids) \in ids /\ \A y \in ids : Max(ids) >= y BY <1>3, MaxOfBounded
<1>5. NextId = 1 + Max(ids) BY DEF NextId
<1>6. Max(ids) \in Nat BY <1>3, <1>4
<1>7. \A e \in trail : Max(ids) >= e.id BY <1>4
<1> HIDE DEF ids
<1> DEFINE most == Max(ids)
<1>8. most \in Nat /\ NextId = 1 + most /\ \A e \in trail : most >= e.id BY <1>5, <1>6, <1>7
<1> HIDE DEF most
<1>9. QED BY <1>2, <1>8

\* The row is stored: the call's export has a row of its own now.
LEMMA LogAllowedKeeps ==
    ASSUME NEW c \in Exporters, AuditIInv, LogAllowed(c)
    PROVE  AuditIInv'
<1> DEFINE n == export[c].grant
           row == [id |-> NextId, actor |-> export[c].actor, at |-> export[c].at]
<1>1. /\ export[c].pc = "record"
      /\ trail' = trail \union {row}
      /\ export' = [export EXCEPT ![c].pc = "evaluate"]
      /\ UNCHANGED <<hour, hits, alerts, granted, stops>>
  BY DEF LogAllowed, GoTo
<1>2. /\ AuditTypeOK /\ export[c] \in Exporting
      /\ export \in [Exporters -> {NoExport} \union Exporting]
      /\ n \in DOMAIN granted /\ granted[n].actor = export[c].actor
      /\ granted[n].at = export[c].at
  BY <1>1, ExportTyped DEF AuditIInv, CallFits, AuditTypeOK, Exporting
<1>3. NextId \in Nat /\ \A e \in trail : e.id < NextId
  BY NextIdIsNew DEF AuditIInv
<1>4. row \in [id: Nat, actor: Actors, at: 0..LastTime] /\ row.id = NextId
      /\ row.actor = granted[n].actor /\ row.at = granted[n].at
  BY <1>2, <1>3 DEF Exporting
<1> HIDE DEF row
<1>5. row \notin trail
  <2>1. \A e \in trail : e.id \in Nat BY <1>2 DEF AuditTypeOK
  <2>2. QED BY <1>3, <1>4, <2>1
<1>6. TrailFinite'
  <2>1. IsFiniteSet(trail') BY <1>1, FS_AddElement DEF AuditIInv, TrailFinite
  <2>2. \A e \in trail' : e.id \in Nat /\ e.id <= NextId
    BY <1>1, <1>2, <1>3, <1>4 DEF AuditTypeOK
  <2>3. QED BY <1>3, <2>1, <2>2 DEF TrailFinite
<1>7. /\ export'[c] = [export[c] EXCEPT !.pc = "evaluate"] /\ export'[c] \in Exporting
      /\ export'[c].grant = n /\ export'[c].at = export[c].at
      /\ export'[c].actor = export[c].actor /\ export'[c].pc = "evaluate"
      /\ \A d \in Exporters : d # c => export'[d] = export[d]
      /\ export' \in [Exporters -> {NoExport} \union Exporting]
  BY <1>1, <1>2 DEF Exporting
<1>8. AuditTypeOK' BY <1>1, <1>2, <1>4, <1>7 DEF AuditTypeOK, Exporting
<1>9. ASSUME NEW a \in Actors PROVE LimiterCovers(a)' /\ TrailCovers(a)'
  <2>1. LimiterCovers(a) /\ TrailCovers(a) BY DEF AuditIInv
  <2>2. InLimiter(a)' = InLimiter(a) BY <1>1 DEF InLimiter
  <2>3. LimiterCovers(a)' BY <1>1, <2>1, <2>2, QueueStays
  <2>4. PICK f \in [Evidenced(a) -> trail] : InTrail(f, a) BY <2>1 DEF TrailCovers
  <2>5. Evidenced(a)' \subseteq Evidenced(a) \union {n} BY <1>1, <1>7 DEF Evidenced
  <2>6. PICK kept \in SUBSET (Evidenced(a) \union {n}) : kept = Evidenced(a)' BY <2>5
  <2>7. PICK g : g = [i \in kept |-> IF i \in Evidenced(a) THEN f[i] ELSE row] OBVIOUS
  <2>8. g \in [kept -> trail'] BY <1>1, <2>4, <2>7
  <2>9. \A i \in kept : i \notin Evidenced(a) => i = n /\ granted[i].actor = a
    BY <1>1, <2>6 DEF Evidenced
  <2>10. \A i \in kept : g[i].actor = a /\ g[i].at = granted[i].at
    BY <1>4, <2>4, <2>7, <2>9 DEF InTrail
  <2>11. \A i, j \in kept : g[i] = g[j] => i = j
    BY <1>5, <2>4, <2>7, <2>9 DEF InTrail
  <2>12. InTrail(g, a)' BY <1>1, <2>6, <2>10, <2>11 DEF InTrail
  <2>13. TrailCovers(a)' BY <2>6, <2>8, <2>12 DEF TrailCovers
  <2>14. QED BY <2>3, <2>13
<1>10. ASSUME NEW d \in Exporters PROVE CallFits(d)'
  <2>1. CallFits(d) /\ CallFits(c) BY DEF AuditIInv
  <2>2. QED BY <1>1, <1>2, <1>7, <2>1 DEF CallFits
<1>11. \A a \in Actors, start \in 0..LastTime : Finished(a, start)' = Finished(a, start)
  BY <1>1 DEF Finished
<1>12. BurstSeen' BY <1>1, <1>11, BurstStays DEF AuditIInv
<1>13. QED BY <1>6, <1>8, <1>9, <1>10, <1>12 DEF AuditIInv

\* A query returns more rows than the burst threshold, where more than that are there: what
\* it leaves out comes after as many as it may return.
LEMMA RowsEnough ==
    ASSUME NEW a \in Actors, NEW since \in Int, AuditTypeOK, IsFiniteSet(trail),
           NEW S \in SUBSET trail, \A e \in S : e.actor = a /\ e.at >= since,
           Cardinality(S) > Burst
    PROVE  Cardinality(Rows(a, since)) > Burst
<1> DEFINE found == {e \in trail : e.actor = a /\ e.at >= since}
           Earlier(e) == {d \in found : d.at < e.at \/ (d.at = e.at /\ d.id < e.id)}
           shown == {e \in found : Cardinality(Earlier(e)) < QueryCap}
           late == {e \in found : ~(Cardinality(Earlier(e)) < QueryCap)}
<1>1. Rows(a, since) = shown BY DEF Rows
<1>2. IsFiniteSet(found) /\ IsFiniteSet(shown) BY FS_Subset
<1>3. \A e \in found : IsFiniteSet(Earlier(e)) /\ Cardinality(Earlier(e)) \in Nat
  BY <1>2, FS_Subset, FS_CardinalityType
<1>4. Cardinality(shown) \in Nat /\ Burst \in Nat /\ QueryCap \in Nat /\ QueryCap > Burst
  BY <1>2, FS_CardinalityType, AuditBounds
<1>5. CASE late = {}
  <2>1. S \subseteq shown BY <1>5
  <2>2. IsFiniteSet(S) /\ Cardinality(S) <= Cardinality(shown) BY <1>2, <2>1, FS_Subset
  <2>3. Cardinality(S) \in Nat BY <2>2, FS_CardinalityType
  <2>4. QED BY <1>1, <1>4, <2>2, <2>3
<1>6. CASE late # {}
  <2> DEFINE ranks == {Cardinality(Earlier(e)) : e \in late}
  <2>1. ranks \in SUBSET Nat /\ ranks # {} BY <1>3, <1>6
  <2>2. PICK m \in ranks : \A k \in ranks : m <= k BY <2>1, LeastNatural
  <2>3. PICK e \in late : m = Cardinality(Earlier(e)) BY <2>2
  <2>4. \A d \in found : d.at \in Nat /\ d.id \in Nat
    <3>1. LastTime \in Nat BY AuditBounds
    <3>2. \A d \in trail : d \in [id: Nat, actor: Actors, at: 0..LastTime]
      BY DEF AuditTypeOK
    <3>3. \A d \in trail : d.id \in Nat /\ d.at \in Nat BY <3>1, <3>2
    <3>4. QED BY <3>3
  <2>5. e \in found /\ ~(Cardinality(Earlier(e)) < QueryCap) OBVIOUS
  <2>6. ASSUME NEW d \in Earlier(e) PROVE d \in shown
    <3>1. d \in found OBVIOUS
    <3>2. Earlier(d) \subseteq Earlier(e) BY <2>4, <2>5, <3>1
    <3>3. d \notin Earlier(d) BY <2>4, <3>1
    <3>4. Earlier(d) # Earlier(e) BY <3>3
    <3>5. /\ Cardinality(Earlier(d)) <= Cardinality(Earlier(e))
          /\ Cardinality(Earlier(d)) # Cardinality(Earlier(e))
      BY <1>3, <2>5, <3>2, <3>4, FS_Subset
    <3>6. Cardinality(Earlier(d)) \in Nat /\ m \in Nat BY <1>3, <2>1, <3>1
    <3>7. ~(m <= Cardinality(Earlier(d))) BY <2>3, <3>5, <3>6
    <3>8. d \notin late BY <2>2, <3>7
    <3>9. QED BY <3>1, <3>8
  <2>7. Earlier(e) \subseteq shown BY <2>6
  <2>8. Cardinality(Earlier(e)) <= Cardinality(shown) BY <1>2, <2>7, FS_Subset
  <2>9. Cardinality(Earlier(e)) \in Nat BY <1>3, <2>5
  <2>10. Cardinality(shown) > Burst BY <1>4, <2>5, <2>8, <2>9
  <2>11. QED BY <1>1, <2>10
<1>7. QED BY <1>5, <1>6

\* Evaluated: with it, more than the threshold in a window are seen in the store, as they
\* are all there yet.
LEMMA DetectKeeps ==
    ASSUME NEW c \in Exporters, AuditIInv, Detect(c)
    PROVE  AuditIInv'
<1> DEFINE n == export[c].grant
           a == export[c].actor
           now == export[c].at
           raised == (IF Cardinality(Recent(a, now)) > Burst THEN {"burst"} ELSE {})
                     \union (IF Cardinality(ProjectsOf(Recent(a, now))) >= Sweep
                             THEN {"sweep"} ELSE {})
           told == [granted[n] EXCEPT !.done = TRUE]
<1>1. /\ export[c].pc = "evaluate"
      /\ alerts' = alerts \union {[kind |-> k, actor |-> a] : k \in raised}
      /\ granted' = [granted EXCEPT ![n] = told]
      /\ export' = [export EXCEPT ![c] = NoExport]
      /\ UNCHANGED <<hour, trail, hits, stops>>
  BY DEF Detect, ExportDone
<1>2. /\ AuditTypeOK /\ export[c] \in Exporting /\ granted \in Seq(Grant)
      /\ export \in [Exporters -> {NoExport} \union Exporting]
      /\ n \in DOMAIN granted /\ granted[n].actor = a /\ granted[n].at = now
      /\ now \in 0..LastTime /\ now <= hour /\ hour <= now + CallTime
      /\ a \in Actors
  BY <1>1, ExportTyped DEF AuditIInv, CallFits, AuditTypeOK, Exporting, Grant
<1>3. granted[n] \in Grant BY <1>2
<1>4. /\ told \in Grant /\ told.actor = a /\ told.at = now /\ told.live = granted[n].live
      /\ told.done
  BY <1>2, <1>3 DEF Grant
<1> HIDE DEF told
<1>5. /\ granted' \in Seq(Grant) /\ Len(granted') = Len(granted)
      /\ DOMAIN granted' = DOMAIN granted /\ granted'[n] = told
      /\ \A i \in DOMAIN granted : i # n => granted'[i] = granted[i]
  BY <1>1, <1>2, <1>4
<1>6. /\ export'[c] = NoExport
      /\ \A d \in Exporters : d # c => export'[d] = export[d]
      /\ export' \in [Exporters -> {NoExport} \union Exporting]
  BY <1>1, <1>2
<1>7. \A i \in DOMAIN granted : /\ granted'[i].actor = granted[i].actor
                                /\ granted'[i].at = granted[i].at
                                /\ granted'[i].live = granted[i].live
                                /\ i # n => granted'[i].done = granted[i].done
  BY <1>2, <1>4, <1>5
<1>8. /\ alerts \subseteq alerts'
      /\ alerts' \subseteq [kind: {"limit", "burst", "sweep"}, actor: Actors]
  <2>1. raised \subseteq {"burst", "sweep"} OBVIOUS
  <2> HIDE DEF raised
  <2>2. \A k \in raised :
           [kind |-> k, actor |-> a] \in [kind: {"limit", "burst", "sweep"}, actor: Actors]
    BY <1>2, <2>1
  <2>3. alerts \subseteq [kind: {"limit", "burst", "sweep"}, actor: Actors]
    BY <1>2 DEF AuditTypeOK
  <2>4. QED BY <1>1, <2>2, <2>3
<1>9. AuditTypeOK'
  BY <1>1, <1>2, <1>5, <1>6, <1>8 DEF AuditTypeOK, Exporting, Grant
<1>10. ASSUME NEW b \in Actors PROVE LimiterCovers(b)' /\ TrailCovers(b)'
  <2>1. LimiterCovers(b) /\ TrailCovers(b) BY DEF AuditIInv
  <2>2. InLimiter(b)' \subseteq InLimiter(b) BY <1>1, <1>5, <1>7 DEF InLimiter
  <2>3. Evidenced(b)' \subseteq Evidenced(b)
    <3> SUFFICES ASSUME NEW i \in Evidenced(b)' PROVE i \in Evidenced(b) OBVIOUS
    <3>1. /\ i \in DOMAIN granted /\ granted[i].actor = b /\ granted[i].at >= hour - Retention
          /\ \/ granted'[i].done
             \/ \E d \in Exporters : export'[d].pc = "evaluate" /\ export'[d].grant = i
      BY <1>1, <1>5, <1>7 DEF Evidenced
    <3>2. CASE i = n BY <1>1, <3>1, <3>2 DEF Evidenced
    <3>3. CASE i # n BY <1>6, <1>7, <3>1, <3>3 DEF Evidenced, NoExport
    <3>4. QED BY <3>2, <3>3
  <2>4. \A i \in InLimiter(b) : i \in DOMAIN granted BY DEF InLimiter
  <2>5. \A i \in Evidenced(b) : i \in DOMAIN granted BY DEF Evidenced
  <2>6. LimiterCovers(b)' BY <1>1, <1>7, <2>1, <2>2, <2>4, QueueStays
  <2>7. TrailCovers(b)' BY <1>1, <1>7, <2>1, <2>3, <2>5, TrailStays
  <2>8. QED BY <2>6, <2>7
<1>11. ASSUME NEW d \in Exporters PROVE CallFits(d)'
  <2>1. CallFits(d) BY DEF AuditIInv
  <2>2. CASE d = c BY <1>6, <2>2 DEF CallFits, NoExport
  <2>3. CASE d # c
    <3>1. export'[d] = export[d] BY <1>6, <2>3
    <3>2. QED BY <1>1, <1>5, <1>7, <2>1, <3>1 DEF CallFits
  <2>4. QED BY <2>2, <2>3
<1>12. BurstSeen'
  <2> SUFFICES ASSUME NEW b \in Actors, NEW start \in 0..LastTime,
                      Cardinality(Finished(b, start)') > Burst
               PROVE  [kind |-> "burst", actor |-> b] \in alerts'
    BY DEF BurstSeen
  <2>1. PICK done : done = Finished(b, start)' OBVIOUS
  <2>2. Cardinality(done) > Burst BY <2>1
  <2>3. \A i \in done : /\ i \in DOMAIN granted /\ granted[i].actor = b
                        /\ granted[i].at \in start..(start + Span)
                        /\ i # n => granted[i].done
    BY <1>5, <1>7, <2>1 DEF Finished
  <2>4. CASE n \notin done
    <3>a. \A i \in done : i \in Finished(b, start) BY <2>3, <2>4 DEF Finished
    <3>b. ASSUME NEW i \in Finished(b, start) PROVE i \in done
      <4>1. i \in DOMAIN granted /\ granted[i].done BY DEF Finished
      <4>2. granted'[i].done BY <1>4, <1>5, <1>7, <4>1
      <4>3. QED BY <1>5, <1>7, <2>1, <4>1, <4>2 DEF Finished
    <3>1. done = Finished(b, start) BY <3>a, <3>b
    <3>2. QED BY <1>8, <2>2, <3>1 DEF AuditIInv, BurstSeen
  <2>5. CASE n \in done
    <3>1. b = a /\ now \in start..(start + Span) BY <1>2, <2>3, <2>5
    <3>2. PICK f \in [Evidenced(b) -> trail] : InTrail(f, b) BY DEF AuditIInv, TrailCovers
    <3>3. /\ hour \in Nat /\ start \in Nat /\ Span \in Nat /\ Retention \in Nat
          /\ CallTime \in Nat /\ Retention >= Span + CallTime /\ now \in Nat
      <4>1. hour \in 0..LastTime BY <1>2 DEF AuditTypeOK
      <4>2. LastTime \in Nat BY AuditBounds
      <4>3. hour \in Nat /\ start \in Nat /\ now \in Nat BY <1>2, <4>1, <4>2
      <4>4. QED BY <4>3, AuditBounds
    <3>4. start >= hour - Retention /\ start >= now - Span BY <1>2, <3>1, <3>3
    <3>5. \A i \in done : i \in Evidenced(b)
      <4> SUFFICES ASSUME NEW i \in done PROVE i \in Evidenced(b) OBVIOUS
      <4>1. granted[i].at \in Nat BY <2>3, <3>3
      <4>2. granted[i].at >= hour - Retention BY <2>3, <3>3, <3>4, <4>1
      <4>3. QED BY <1>1, <2>3, <4>2 DEF Evidenced
    <3>6. \A i \in done : /\ f[i] \in trail /\ f[i].actor = b
                          /\ f[i].at \in Nat /\ f[i].at >= now - Span
      <4> SUFFICES ASSUME NEW i \in done
                   PROVE  f[i] \in trail /\ f[i].actor = b /\ f[i].at \in Nat
                          /\ f[i].at >= now - Span
        OBVIOUS
      <4>1. f[i] \in trail /\ f[i].actor = b /\ f[i].at = granted[i].at
        BY <3>2, <3>5 DEF InTrail
      <4>2. granted[i].at \in Nat /\ granted[i].at >= start BY <2>3, <3>3
      <4>3. QED BY <3>3, <3>4, <4>1, <4>2
    <3> DEFINE S == {f[i] : i \in done}
               g == [i \in done |-> f[i]]
    <3>7. S \subseteq trail /\ \A e \in S : e.actor = b /\ e.at >= now - Span BY <3>6
    <3>8. IsFiniteSet(trail) BY DEF AuditIInv, TrailFinite
    <3>9. IsFiniteSet(S) BY <3>7, <3>8, FS_Subset
    <3>10. g \in Injection(done, S)
      <4>1. g \in [done -> S] OBVIOUS
      <4>2. \A i, j \in done : g[i] = g[j] => i = j BY <3>2, <3>5 DEF InTrail
      <4>3. QED BY <4>1, <4>2 DEF Injection, IsInjective
    <3>11. IsFiniteSet(done) /\ Cardinality(done) <= Cardinality(S)
      BY <3>9, <3>10, FS_Injection
    <3>12. Cardinality(done) \in Nat /\ Cardinality(S) \in Nat /\ Burst \in Nat
      BY <3>9, <3>11, FS_CardinalityType, AuditBounds
    <3>13. Cardinality(S) > Burst BY <2>2, <3>11, <3>12
    <3> HIDE DEF S
    <3>14. now - Span \in Int BY <3>3
    <3>15. Cardinality(Rows(b, now - Span)) > Burst
      BY <1>2, <3>7, <3>8, <3>13, <3>14, RowsEnough
    <3>16. "burst" \in raised BY <3>1, <3>15 DEF Recent
    <3> HIDE DEF raised
    <3>17. QED BY <1>1, <3>1, <3>16
  <2>6. QED BY <2>4, <2>5
<1>13. QED BY <1>1, <1>9, <1>10, <1>11, <1>12 DEF AuditIInv, TrailFinite

\* Only rows older than the retention are purged, of which none is looked at any more.
LEMMA EnforceRetentionKeeps == AuditIInv /\ EnforceRetention(Retention) => AuditIInv'
<1> SUFFICES ASSUME AuditIInv, EnforceRetention(Retention) PROVE AuditIInv' OBVIOUS
<1>1. /\ trail' = {e \in trail : e.at >= hour - Retention}
      /\ UNCHANGED <<hour, hits, export, alerts, granted, stops>>
  BY DEF EnforceRetention
<1>2. trail' \subseteq trail BY <1>1
<1>3. TrailFinite' BY <1>2, FS_Subset DEF AuditIInv, TrailFinite
<1>4. AuditTypeOK' BY <1>1, <1>2 DEF AuditIInv, AuditTypeOK
<1>5. ASSUME NEW a \in Actors PROVE LimiterCovers(a)' /\ TrailCovers(a)'
  <2>1. LimiterCovers(a) /\ TrailCovers(a) BY DEF AuditIInv
  <2>2. InLimiter(a)' = InLimiter(a) /\ Evidenced(a)' = Evidenced(a)
    BY <1>1 DEF InLimiter, Evidenced
  <2>3. LimiterCovers(a)' BY <1>1, <2>1, <2>2, QueueStays
  <2>4. TrailCovers(a)' BY <1>1, <2>1, <2>2, TrailStays
  <2>5. QED BY <2>3, <2>4
<1>6. \A c \in Exporters : CallFits(c)' BY <1>1 DEF AuditIInv, CallFits
<1>7. \A a \in Actors, start \in 0..LastTime : Finished(a, start)' = Finished(a, start)
  BY <1>1 DEF Finished
<1>8. BurstSeen' BY <1>1, <1>7, BurstStays DEF AuditIInv
<1>9. QED BY <1>3, <1>4, <1>5, <1>6, <1>8 DEF AuditIInv

\* The limiter forgets, as does the history; the store and what was evaluated stay.
LEMMA StopServerKeeps == AuditIInv /\ StopServer => AuditIInv'
<1> SUFFICES ASSUME AuditIInv, StopServer PROVE AuditIInv' OBVIOUS
<1>1. /\ stops < MaxStops /\ stops' = stops + 1
      /\ hits' = [a \in Actors |-> <<>>]
      /\ export' = [c \in Exporters |-> NoExport]
      /\ granted' = [i \in DOMAIN granted |-> [granted[i] EXCEPT !.live = FALSE]]
      /\ UNCHANGED <<hour, trail, alerts>>
  BY DEF StopServer
<1>2. AuditTypeOK /\ granted \in Seq(Grant) BY DEF AuditIInv, AuditTypeOK, Grant
<1>3. \A i \in DOMAIN granted : granted[i] \in Grant BY GrantTyped, <1>2
<1>4. \A i \in DOMAIN granted : /\ granted'[i] \in Grant /\ granted'[i].live = FALSE
                                /\ granted'[i].actor = granted[i].actor
                                /\ granted'[i].at = granted[i].at
                                /\ granted'[i].done = granted[i].done
  BY <1>1, <1>3 DEF Grant
<1>5. DOMAIN granted' = DOMAIN granted BY <1>1
<1>6. granted' \in Seq(Grant)
  <2>1. Len(granted) \in Nat /\ DOMAIN granted = 1..Len(granted) BY <1>2
  <2>2. granted' \in [1..Len(granted) -> Grant] BY <1>1, <1>4, <2>1
  <2>3. QED BY <2>1, <2>2
<1>7. AuditTypeOK'
  <2>1. stops' \in 0..MaxStops BY <1>1, <1>2, AuditBounds DEF AuditTypeOK
  <2>2. hits' \in [Actors -> Seq(0..LastTime)] BY <1>1
  <2>3. QED BY <1>1, <1>2, <1>6, <2>1, <2>2 DEF AuditTypeOK, Grant
<1>8. ASSUME NEW a \in Actors PROVE LimiterCovers(a)' /\ TrailCovers(a)'
  <2>1. TrailCovers(a) BY DEF AuditIInv
  <2>2. PICK none : none = InLimiter(a)' OBVIOUS
  <2>3. none = {} BY <1>4, <1>5, <2>2 DEF InLimiter
  <2>4. PICK f : f = [i \in {} |-> 1] OBVIOUS
  <2>5. hits'[a] = <<>> BY <1>1
  <2>6. InQueue(f, hits[a], a)' BY <2>2, <2>3, <2>4 DEF InQueue
  <2>7. Len(hits'[a]) <= ExportCap BY <2>5, AuditBounds
  <2>8. LimiterCovers(a)' BY <2>6, <2>7 DEF LimiterCovers, HeldIn
  <2>9. Evidenced(a)' \subseteq Evidenced(a)
    <3> SUFFICES ASSUME NEW i \in Evidenced(a)' PROVE i \in Evidenced(a) OBVIOUS
    <3>1. /\ i \in DOMAIN granted /\ granted[i].actor = a /\ granted[i].at >= hour - Retention
          /\ \/ granted'[i].done
             \/ \E c \in Exporters : export'[c].pc = "evaluate"
      BY <1>1, <1>4, <1>5 DEF Evidenced
    <3>2. \A c \in Exporters : export'[c].pc # "evaluate" BY <1>1 DEF NoExport
    <3>3. granted[i].done BY <1>4, <3>1, <3>2
    <3>4. QED BY <3>1, <3>3 DEF Evidenced
  <2>10. \A i \in Evidenced(a) : i \in DOMAIN granted BY DEF Evidenced
  <2>11. TrailCovers(a)' BY <1>1, <1>4, <2>1, <2>9, <2>10, TrailStays
  <2>12. QED BY <2>8, <2>11
<1>9. \A c \in Exporters : CallFits(c)' BY <1>1 DEF CallFits, NoExport
<1>10. ASSUME NEW a \in Actors, NEW start \in 0..LastTime
       PROVE  Finished(a, start)' = Finished(a, start)
  <2>1. \A i \in DOMAIN granted : granted'[i].done <=> granted[i].done BY <1>4
  <2>2. \A i : i \in Finished(a, start)' <=> i \in Finished(a, start)
    BY <1>4, <1>5, <2>1 DEF Finished
  <2>3. QED BY <2>2
<1>11. BurstSeen' BY <1>1, <1>10, BurstStays DEF AuditIInv
<1>12. QED BY <1>1, <1>7, <1>8, <1>9, <1>11 DEF AuditIInv, TrailFinite

THEOREM AuditInvariance == AuditSpec => []AuditIInv
<1>1. AuditIInv /\ [AuditNext]_auditVars => AuditIInv'
  <2> SUFFICES ASSUME AuditIInv, [AuditNext]_auditVars PROVE AuditIInv' OBVIOUS
  <2>1. CASE Pass BY <2>1, AuditPassKeeps
  <2>2. ASSUME NEW c \in Exporters, NEW a \in Actors, NEW f \in Folders, NEW ask \in Asks,
               Ask(c, a, f, ask)
        PROVE  AuditIInv'
    BY <2>2, AskKeeps
  <2>3. ASSUME NEW c \in Exporters, Deny(c) \/ RefuseByLimit(c) PROVE AuditIInv'
    BY <2>3, AuditDoneKeeps
  <2>4. ASSUME NEW c \in Exporters, Acquire(c) PROVE AuditIInv'
    BY <2>4, AcquireRefusedKeeps, AcquireGrantedKeeps
  <2>5. ASSUME NEW c \in Exporters, LogAllowed(c) PROVE AuditIInv'
    BY <2>5, LogAllowedKeeps
  <2>6. ASSUME NEW c \in Exporters, Detect(c) PROVE AuditIInv' BY <2>6, DetectKeeps
  <2>7. CASE EnforceRetention(Retention) BY <2>7, EnforceRetentionKeeps
  <2>8. CASE StopServer BY <2>8, StopServerKeeps
  <2>9. CASE UNCHANGED auditVars
    <3>1. UNCHANGED <<hour, trail, hits, export, alerts, granted, stops>>
      BY <2>9 DEF auditVars
    <3>2. ASSUME NEW a \in Actors PROVE LimiterCovers(a)' /\ TrailCovers(a)'
      <4>1. LimiterCovers(a) /\ TrailCovers(a) BY DEF AuditIInv
      <4>2. InLimiter(a)' = InLimiter(a) /\ Evidenced(a)' = Evidenced(a)
        BY <3>1 DEF InLimiter, Evidenced
      <4>3. LimiterCovers(a)' BY <3>1, <4>1, <4>2, QueueStays
      <4>4. TrailCovers(a)' BY <3>1, <4>1, <4>2, TrailStays
      <4>5. QED BY <4>3, <4>4
    <3>3. AuditTypeOK' /\ TrailFinite' BY <3>1 DEF AuditIInv, AuditTypeOK, TrailFinite
    <3>4. \A c \in Exporters : CallFits(c)' BY <3>1 DEF AuditIInv, CallFits
    <3>5. \A a \in Actors, start \in 0..LastTime : Finished(a, start)' = Finished(a, start)
      BY <3>1 DEF Finished
    <3>6. BurstSeen' BY <3>1, <3>5, BurstStays DEF AuditIInv
    <3>7. QED BY <3>2, <3>3, <3>4, <3>6 DEF AuditIInv
  <2>10. QED
    BY <2>1, <2>2, <2>3, <2>4, <2>5, <2>6, <2>7, <2>8, <2>9 DEF AuditNext
<1>2. QED BY <1>1, AuditInitIInv, PTL DEF AuditSpec

\* However its threads interleave, the limiter lets pass no more of a principal's exports
\* within its window than its maximum, and more than the burst threshold in one window
\* raise the alert, retention and restarts notwithstanding.
\* (ExportRateLimiter.acquire, ExportAnomalyDetector.evaluate, AuditStore.)
THEOREM ExportsAreWatched == AuditSpec => []ExportsWatched
<1>1. AuditIInv => CapKept
  <2> SUFFICES ASSUME AuditIInv, NEW a \in Actors
               PROVE  Cardinality(InLimiter(a)) <= ExportCap
    BY DEF CapKept, InLimiter
  <2>1. LimiterCovers(a) /\ hits[a] \in Seq(0..LastTime) BY DEF AuditIInv, AuditTypeOK
  <2>2. PICK f : InQueue(f, hits[a], a) BY <2>1 DEF LimiterCovers, HeldIn
  <2> DEFINE places == 1..Len(hits[a])
  <2>3. DOMAIN hits[a] = places /\ Len(hits[a]) \in Nat BY <2>1
  <2>4. IsFiniteSet(places) /\ Cardinality(places) = Len(hits[a])
    <3>1. PICK size \in Nat : size = Len(hits[a]) BY <2>3
    <3>2. 1 \in Int /\ size \in Int BY <3>1
    <3>3. IsFiniteSet(1..size) /\ Cardinality(1..size) = IF 1 > size THEN 0 ELSE size - 1 + 1
      BY ONLY <3>2, FS_Interval
    <3>4. QED BY <3>1, <3>3
  <2>5. f \in [InLimiter(a) -> places] BY <2>2, <2>3 DEF InQueue
  <2>6. f \in Injection(InLimiter(a), places)
    BY <2>2, <2>5 DEF InQueue, Injection, IsInjective
  <2>7. IsFiniteSet(InLimiter(a)) /\ Cardinality(InLimiter(a)) <= Cardinality(places)
    BY <2>4, <2>6, FS_Injection
  <2>8. Cardinality(InLimiter(a)) \in Nat BY <2>7, FS_CardinalityType
  <2>9. Len(hits[a]) <= ExportCap /\ ExportCap \in Nat
    BY <2>1, AuditBounds DEF LimiterCovers
  <2>10. QED BY <2>3, <2>4, <2>7, <2>8, <2>9
<1>2. AuditIInv => ExportsWatched BY <1>1 DEF AuditIInv, ExportsWatched
<1>3. QED BY <1>2, AuditInvariance, PTL

-----------------------------------------------------------------------------
(* Backends                                                                *)

\* What a chain can be.
Long == Append(<<"gemma", "haiku">>, "null")
Chains == {<<"null">>, <<"haiku">>, <<"gemma">>, Long}

\* Where a request can be.
Dispatch == [pc: {"try"}, op: {"complete", "rerank", "extract_structured"}, chain: Chains,
             at: Nat, failed: SUBSET {"gemma", "haiku"}]
Embedding == [pc: {"wait", "load", "encode", "give_up", "flag"}]
Recursion == [pc: {"sent", "adopt", "resent"}, token: 1..MaxTokens, alone: BOOLEAN,
              steady: BOOLEAN]
UnderWay == Dispatch \union Embedding \union Recursion
Endings == {"answer", "typed", "other", "default", "none", "failed", "expired"}
RequestState ==
    {NoAsk} \union UnderWay
    \union [pc: {"ended"}, how: Endings, was: UnderWay]

\* A dispatch has been refused by those that come before the one it is at.
DispatchSound(q) ==
    /\ q.at \in 1..Len(q.chain)
    /\ Len(q.chain) > 1 =>
          /\ q.at = 1 => q.failed = {}
          /\ q.at = 2 => q.failed = {"gemma"}
          /\ q.at = 3 => q.failed = {"gemma", "haiku"}

\* A call with a token that nobody else touches has the one that is configured, and then
\* the one of the environment.
RecursionSound(u) ==
    LET q == request[u] IN
    /\ q.alone => \A v \in Users \ {u} : ~Recursing(v)
    /\ q.steady => environ = valid
    /\ q.pc = "sent" /\ q.alone => q.token = token
    /\ q.pc \in {"adopt", "resent"} /\ q.steady => q.token = valid

RequestSound(u) ==
    LET q == request[u] IN
    /\ q.pc = "try" => DispatchSound(q)
    /\ Recursing(u) => RecursionSound(u)
    /\ q.pc \in {"load", "flag"} <=> loading = u
    /\ q.pc = "ended" =>
          /\ q.was \in Dispatch => DispatchSound(q.was) /\ (q.how = "typed" => Len(q.was.chain) = 1)
          /\ q.how = "expired" => /\ q.was \in Recursion
                                  /\ troubles = 0 => ~q.was.alone \/ ~q.was.steady

BackendsIInv ==
    /\ request \in [Users -> RequestState]
    /\ asks \in 0..MaxAsks /\ loads \in Nat /\ troubles \in 0..MaxTroubles
    /\ loading \in Users \union {Nobody} /\ loaded \in BOOLEAN /\ unloadable \in BOOLEAN
    /\ token \in 1..MaxTokens /\ environ \in 1..MaxTokens /\ valid \in 1..MaxTokens
    /\ LoadedOnce
    /\ \A u \in Users : RequestSound(u)

\* A chain is one model, or it is the long one.
LEMMA ChainLengths ==
    /\ \A c \in Chains : Len(c) = 1 \/ c = Long
    /\ Len(Long) = 3 /\ Long[1] = "gemma" /\ Long[2] = "haiku" /\ Long[3] = "null"
    /\ \A c \in Chains : \A i \in 1..Len(c) : c[i] \in {"gemma", "haiku", "null"}
<1>1. Len(<<"null">>) = 1 /\ Len(<<"haiku">>) = 1 /\ Len(<<"gemma">>) = 1 OBVIOUS
<1>2. /\ <<"gemma", "haiku">> \in Seq({"gemma", "haiku", "null"})
      /\ Len(<<"gemma", "haiku">>) = 2
      /\ <<"gemma", "haiku">>[1] = "gemma" /\ <<"gemma", "haiku">>[2] = "haiku"
  <2>1. Len(<<"gemma", "haiku">>) = 2 OBVIOUS
  <2>2. <<"gemma", "haiku">>[1] = "gemma" /\ <<"gemma", "haiku">>[2] = "haiku" OBVIOUS
  <2>3. <<"gemma", "haiku">> \in Seq({"gemma", "haiku", "null"}) OBVIOUS
  <2>4. QED BY <2>1, <2>2, <2>3
<1>3. Len(Long) = 3 /\ Long[1] = "gemma" /\ Long[2] = "haiku" /\ Long[3] = "null"
  BY <1>2, AppendProperties DEF Long
<1>4. \A c \in Chains : Len(c) = 1 \/ c = Long BY <1>1 DEF Chains
<1>5. ASSUME NEW c \in Chains, NEW i \in 1..Len(c) PROVE c[i] \in {"gemma", "haiku", "null"}
  <2>1. CASE c = Long
    <3>1. i \in 1..3 BY <1>3, <1>5, <2>1, Zenon
    <3>2. i = 1 \/ i = 2 \/ i = 3 BY <3>1
    <3>3. Long[i] \in {"gemma", "haiku", "null"} BY <1>3, <3>2
    <3>4. QED BY <2>1, <3>3
  <2>2. CASE c # Long
    <3>1. c \in {<<"null">>, <<"haiku">>, <<"gemma">>} BY <2>2 DEF Chains
    <3>2. i \in 1..1 BY <1>4, <1>5, <2>2
    <3>3. c[1] \in {"gemma", "haiku", "null"} BY <3>1
    <3>4. QED BY <3>2, <3>3
  <2>3. QED BY <2>1, <2>2
<1>6. QED BY <1>3, <1>4, <1>5

LEMMA BackendsTypes == BackendsIInv => BackendsTypeOK
<1> SUFFICES ASSUME BackendsIInv PROVE BackendsTypeOK OBVIOUS
<1>1. \A u \in Users :
         request[u].pc \in {"idle", "try", "wait", "load", "encode", "give_up", "flag",
                            "sent", "adopt", "resent", "ended"}
  <2> SUFFICES ASSUME NEW u \in Users
               PROVE  request[u].pc \in {"idle", "try", "wait", "load", "encode", "give_up", "flag",
                            "sent", "adopt", "resent", "ended"}
    OBVIOUS
  <2>1. request[u] \in RequestState BY DEF BackendsIInv
  <2>2. QED BY <2>1 DEF RequestState, UnderWay, Dispatch, Embedding, Recursion, NoAsk
<1>2. loading # Nobody <=> \E u \in Users : request[u].pc \in {"load", "flag"}
  BY NobodyAssumption DEF BackendsIInv, RequestSound
<1>3. QED BY <1>1, <1>2 DEF BackendsIInv, BackendsTypeOK

LEMMA BackendsImplied == BackendsIInv => BackendsSound
<1> SUFFICES ASSUME BackendsIInv PROVE BackendsSound OBVIOUS
<1>1. ChainHolds
  <2> SUFFICES ASSUME NEW u \in Users, request[u].pc = "ended",
                      "chain" \in DOMAIN request[u].was, Len(request[u].was.chain) > 1
               PROVE  /\ request[u].how # "typed"
                      /\ request[u].was.at = Len(request[u].was.chain) =>
                            request[u].was.failed = {"gemma", "haiku"}
    BY Zenon DEF ChainHolds
  <2>1. request[u] \in RequestState BY DEF BackendsIInv
  <2>2. request[u].was \in UnderWay
    BY <2>1 DEF RequestState, NoAsk, UnderWay, Dispatch, Embedding, Recursion
  <2>3. request[u].was \in Dispatch
    BY <2>2 DEF UnderWay, Dispatch, Embedding, Recursion
  <2>4. RequestSound(u) BY DEF BackendsIInv
  <2>5. DispatchSound(request[u].was) /\ (request[u].how = "typed" => Len(request[u].was.chain) = 1)
    BY <2>3, <2>4 DEF RequestSound
  <2>6. request[u].was.chain \in Chains BY <2>3 DEF Dispatch
  <2>7. request[u].was.chain = Long
    <3>1. Len(request[u].was.chain) = 1 \/ request[u].was.chain = Long
      BY <2>6, ChainLengths, Zenon
    <3>2. ~(1 > 1) OBVIOUS
    <3>3. QED BY <3>1, <3>2, Zenon
<2>8. QED BY <2>5, <2>7, ChainLengths DEF DispatchSound
<1>2. ExpiredIsTrue BY DEF ExpiredIsTrue, BackendsIInv, RequestSound
<1>3. QED BY <1>1, <1>2 DEF BackendsSound, BackendsIInv

LEMMA BackendsInitIInv == BackendsInit => BackendsIInv
<1> SUFFICES ASSUME BackendsInit PROVE BackendsIInv OBVIOUS
<1>1. request \in [Users -> RequestState] /\ \A u \in Users : request[u] = NoAsk
  BY DEF BackendsInit, RequestState
<1>2. \A u \in Users : RequestSound(u)
  BY <1>1, NobodyAssumption DEF RequestSound, NoAsk, Recursing, BackendsInit
<1>3. MaxAsks \in Nat /\ MaxTroubles \in Nat /\ MaxTokens \in Nat /\ MaxTokens > 0
  BY BackendsBounds
<1>4. 1 \in 1..MaxTokens /\ 0 \in 0..MaxAsks /\ 0 \in 0..MaxTroubles BY <1>3
<1>5. QED BY <1>1, <1>2, <1>4 DEF BackendsInit, BackendsIInv, LoadedOnce

\* What one thread does disturbs no other, unless it begins to recurse, or sets the token
\* for another that recurses.
LEMMA OthersKeep ==
    ASSUME NEW u \in Users, NEW q \in RequestState, BackendsIInv,
           request' = [request EXCEPT ![u] = q],
           q.pc \in {"sent", "adopt", "resent"} => Recursing(u),
           environ' = environ, valid' = valid, token' = token \/ Recursing(u),
           troubles' = 0 => troubles = 0,
           \A v \in Users \ {u} : loading' = v <=> loading = v
    PROVE  /\ request' \in [Users -> RequestState] /\ request'[u] = q
           /\ \A v \in Users \ {u} : RequestSound(v)'
<1>1. /\ request' \in [Users -> RequestState] /\ request'[u] = q
      /\ \A v \in Users \ {u} : request'[v] = request[v]
  BY DEF BackendsIInv
<1>2. ASSUME NEW v \in Users \ {u} PROVE RequestSound(v)'
  <2>1. request'[v] = request[v] /\ RequestSound(v) BY <1>1 DEF BackendsIInv
  <2>2. ASSUME Recursing(v)' PROVE RecursionSound(v)'
    <3>1. Recursing(v) BY <2>1, <2>2 DEF Recursing
    <3>2. RecursionSound(v) BY <2>1, <3>1 DEF RequestSound
    <3>3. \A w \in Users : Recursing(w)' => Recursing(w) BY <1>1 DEF Recursing
    <3>4. request[v].alone => token' = token BY <3>2 DEF RecursionSound
    <3>5. QED BY <2>1, <3>2, <3>3, <3>4 DEF RecursionSound
  <2>3. QED BY <2>1, <2>2 DEF RequestSound, DispatchSound
<1>3. QED BY <1>1, <1>2

LEMMA ResolvedType ==
    ASSUME NEW mode, NEW able \in SUBSET {"haiku", "gemma"}
    PROVE  Resolved(mode, able) \in Chains
<1> DEFINE reals == QualityChain(mode) \intersect able
<1>1. reals \in {{}, {"haiku"}, {"gemma"}, {"gemma", "haiku"}}
  <2>1. QualityChain(mode) \subseteq {"gemma", "haiku"} BY DEF QualityChain
  <2>2. QED BY <2>1
<1> HIDE DEF reals
<1>2. BestFirst(reals) \in {<<"null">>, <<"haiku">>, <<"gemma">>, <<"gemma", "haiku">>}
  <2>1. CASE reals = {} BY <2>1 DEF BestFirst
  <2>2. CASE reals = {"haiku"}
    <3>1. (CHOOSE b \in reals : TRUE) = "haiku" BY <2>2
    <3>2. QED BY <2>2, <3>1 DEF BestFirst
  <2>3. CASE reals = {"gemma"}
    <3>1. (CHOOSE b \in reals : TRUE) = "gemma" BY <2>3
    <3>2. QED BY <2>3, <3>1 DEF BestFirst
  <2>4. CASE reals = {"gemma", "haiku"} BY <2>4 DEF BestFirst
  <2>5. QED BY <1>1, <2>1, <2>2, <2>3, <2>4
<1>3. Resolved(mode, able) =
         IF Len(BestFirst(reals)) > 1 THEN Append(BestFirst(reals), "null") ELSE BestFirst(reals)
  BY DEF Resolved, reals
<1>4. CASE BestFirst(reals) = <<"gemma", "haiku">>
  <2>1. Len(<<"gemma", "haiku">>) > 1 OBVIOUS
  <2>2. QED BY <1>3, <1>4, <2>1, Zenon DEF Chains, Long
<1>5. CASE BestFirst(reals) \in {<<"null">>, <<"haiku">>, <<"gemma">>}
  <2>1. Len(<<"null">>) = 1 /\ Len(<<"haiku">>) = 1 /\ Len(<<"gemma">>) = 1 OBVIOUS
  <2>2. ~(Len(BestFirst(reals)) > 1) BY <1>5, <2>1
  <2>3. QED BY <1>3, <1>5, <2>2, Zenon DEF Chains
<1>6. QED BY <1>2, <1>4, <1>5

\* A thread that begins, with anything but the recursive client.
LEMMA StartKeeps ==
    ASSUME NEW u \in Users, NEW q \in Dispatch \union Embedding, BackendsIInv, Starts(u, q),
           q.pc \notin {"load", "flag"}, q.pc = "try" => DispatchSound(q),
           UNCHANGED <<embedderVars, clientVars>>
    PROVE  BackendsIInv'
<1>1. /\ request' = [request EXCEPT ![u] = q] /\ asks' = asks + 1 /\ asks < MaxAsks
      /\ request[u] = NoAsk
      /\ loaded' = loaded /\ unloadable' = unloadable /\ loading' = loading /\ loads' = loads
      /\ token' = token /\ environ' = environ /\ valid' = valid /\ troubles' = troubles
  BY DEF Starts, embedderVars, clientVars
<1>2. q \in RequestState BY DEF RequestState, UnderWay
<1>3. q.pc \notin {"sent", "adopt", "resent", "ended", "load", "flag"} BY DEF Dispatch, Embedding
<1>4. /\ request' \in [Users -> RequestState] /\ request'[u] = q
      /\ \A v \in Users \ {u} : RequestSound(v)'
  BY <1>1, <1>2, <1>3, OthersKeep
<1>5. loading # u BY <1>1 DEF BackendsIInv, RequestSound, NoAsk
<1>6. RequestSound(u)' BY <1>1, <1>3, <1>4, <1>5 DEF RequestSound, Recursing, DispatchSound
<1>7. asks' \in 0..MaxAsks BY <1>1, BackendsBounds DEF BackendsIInv
<1>8. QED BY <1>1, <1>4, <1>6, <1>7 DEF BackendsIInv, LoadedOnce

LEMMA AskModelKeeps == ASSUME NEW u \in Users, BackendsIInv, AskModel(u) PROVE BackendsIInv'
<1>1. PICK op \in {"complete", "rerank", "extract_structured"}, mode \in Hosting,
           able \in SUBSET {"haiku", "gemma"} :
         Starts(u, [pc |-> "try", op |-> op, chain |-> Resolved(mode, able), at |-> 1,
                    failed |-> {}])
  BY DEF AskModel
<1> DEFINE q == [pc |-> "try", op |-> op, chain |-> Resolved(mode, able), at |-> 1, failed |-> {}]
<1>2. q \in Dispatch BY ResolvedType DEF Dispatch
<1>3. DispatchSound(q)
  BY ResolvedType, ChainLengths DEF DispatchSound
<1>4. UNCHANGED <<embedderVars, clientVars>> BY DEF AskModel
<1>5. q.pc = "try" OBVIOUS
<1>6. Starts(u, q) BY <1>1
<1> HIDE DEF q
<1>7. QED BY <1>2, <1>3, <1>4, <1>5, <1>6, StartKeeps

\* A request that ends, and gives back the lock if it has it.
LEMMA EndKeeps ==
    ASSUME NEW u \in Users, NEW how \in Endings, BackendsIInv, Ends(u, how), request[u] \in UnderWay,
           UNCHANGED <<asks, loaded, loads, token, environ, valid>>,
           unloadable' \in BOOLEAN, troubles' \in 0..MaxTroubles, troubles' = 0 => troubles = 0,
           \/ loading' = loading /\ request[u].pc \notin {"load", "flag"}
           \/ loading' = Nobody /\ loading = u,
           request[u] \in Dispatch /\ how = "typed" => Len(request[u].chain) = 1,
           how = "expired" => /\ request[u] \in Recursion
                              /\ troubles' = 0 => ~request[u].alone \/ ~request[u].steady
    PROVE  BackendsIInv'
<1> DEFINE q == [pc |-> "ended", how |-> how, was |-> request[u]]
<1>1. q \in RequestState BY DEF RequestState
<1>2. request' = [request EXCEPT ![u] = q] BY DEF Ends
<1>3. q.pc = "ended" /\ q.how = how /\ q.was = request[u] OBVIOUS
<1> HIDE DEF q
<1>4. /\ request' \in [Users -> RequestState] /\ request'[u] = q
      /\ \A v \in Users \ {u} : RequestSound(v)'
  <2>1. \A v \in Users \ {u} : loading' = v <=> loading = v BY NobodyAssumption
  <2>2. QED BY <1>1, <1>2, <1>3, <2>1, OthersKeep
<1>5. request[u] \in Dispatch => DispatchSound(request[u])
  BY DEF BackendsIInv, RequestSound, Dispatch
<1>6. loading' # u BY NobodyAssumption DEF BackendsIInv, RequestSound
<1>7. RequestSound(u)'
  BY <1>3, <1>4, <1>5, <1>6 DEF RequestSound, Recursing, DispatchSound
<1>8. QED BY <1>4, <1>7 DEF BackendsIInv, LoadedOnce

LEMMA AttemptKeeps == ASSUME NEW u \in Users, BackendsIInv, Attempt(u) PROVE BackendsIInv'
<1> DEFINE q == request[u]
<1>1. /\ q \in Dispatch /\ DispatchSound(q) /\ q.pc = "try"
  <2>1. q \in RequestState /\ q.pc = "try" BY DEF BackendsIInv, Attempt
  <2>2. q \in Dispatch
    BY <2>1 DEF RequestState, UnderWay, Dispatch, Embedding, Recursion, NoAsk
  <2>3. QED BY <2>1, <2>2 DEF BackendsIInv, RequestSound
<1>2. PICK how \in Outcomes(q.chain[q.at], q.op) :
         IF how = "typed" /\ q.at < Len(q.chain)
         THEN request' = [request EXCEPT ![u].at = @ + 1, ![u].failed = @ \union {q.chain[q.at]}]
         ELSE Ends(u, how)
  BY DEF Attempt
<1>3. /\ asks' = asks /\ loaded' = loaded /\ unloadable' = unloadable /\ loading' = loading
      /\ loads' = loads /\ token' = token /\ environ' = environ /\ valid' = valid
      /\ troubles' = troubles
  BY DEF Attempt, embedderVars, clientVars
<1>4. q.chain \in Chains /\ q.at \in Nat /\ q.failed \subseteq {"gemma", "haiku"}
  BY <1>1 DEF Dispatch
<1>5. q.at \in 1..Len(q.chain) BY <1>1 DEF DispatchSound
<1>6. loading # u BY <1>1 DEF BackendsIInv, RequestSound
<1>7. CASE how = "typed" /\ q.at < Len(q.chain)
  <2>1. q.chain = Long
    <3>1. Len(q.chain) = 1 \/ q.chain = Long BY <1>4, ChainLengths, Zenon
    <3>2. ASSUME Len(q.chain) = 1 PROVE FALSE
      <4>1. q.at \in 1..1 /\ q.at < 1 BY <1>5, <1>7, <3>2
      <4>2. QED BY <4>1
    <3>3. QED BY <3>1, <3>2
  <2>2. q.at \in {1, 2} BY <1>5, <1>7, <2>1, ChainLengths
  <2> DEFINE t == [q EXCEPT !.at = q.at + 1, !.failed = q.failed \union {q.chain[q.at]}]
  <2>3. request' = [request EXCEPT ![u] = t] BY <1>2, <1>7
  <2>4. q.chain[q.at] = IF q.at = 1 THEN "gemma" ELSE "haiku" BY <2>1, <2>2, ChainLengths
  <2>5. /\ t.pc = "try" /\ t.chain = Long /\ t.at = q.at + 1
        /\ t.failed = q.failed \union {q.chain[q.at]}
    BY <1>1, <2>1 DEF Dispatch
  <2>6. t \in Dispatch
    <3>1. q.at + 1 \in Nat /\ q.failed \union {q.chain[q.at]} \in SUBSET {"gemma", "haiku"}
      BY <1>4, <2>4
    <3>2. QED BY <1>1, <3>1 DEF Dispatch
  <2> HIDE DEF t
  <2>7. DispatchSound(t)
    BY <1>1, <2>1, <2>2, <2>4, <2>5, ChainLengths DEF DispatchSound
  <2>8. t \in RequestState BY <2>6 DEF RequestState, UnderWay
  <2>9. /\ request' \in [Users -> RequestState] /\ request'[u] = t
        /\ \A v \in Users \ {u} : RequestSound(v)'
    BY <1>3, <2>3, <2>5, <2>8, OthersKeep
  <2>10. RequestSound(u)'
    BY <1>3, <1>6, <2>5, <2>7, <2>9 DEF RequestSound, Recursing, DispatchSound
  <2>11. QED BY <1>3, <2>9, <2>10 DEF BackendsIInv, LoadedOnce
<1>8. CASE ~(how = "typed" /\ q.at < Len(q.chain))
  <2>1. Ends(u, how) BY <1>2, <1>8
  <2>2. how \in Endings \ {"expired"}
    <3>1. q.chain[q.at] \in {"gemma", "haiku", "null"} BY <1>4, <1>5, ChainLengths
    <3>2. QED BY <1>2, <3>1 DEF Outcomes, HaikuOutcomes, GemmaOutcomes, Endings
  <2>3. ASSUME how = "typed" PROVE Len(q.chain) = 1
    <3>1. SUFFICES ASSUME q.chain = Long PROVE FALSE BY <1>4, ChainLengths, Zenon
    <3>2. q.at = 3 BY <1>5, <1>8, <2>3, <3>1, ChainLengths
    <3>3. q.chain[q.at] = "null" BY <3>1, <3>2, ChainLengths
    <3>4. QED BY <1>2, <2>3, <3>3 DEF Outcomes
  <2>4. request[u] \in UnderWay BY <1>1 DEF UnderWay
  <2>5. troubles' \in 0..MaxTroubles /\ unloadable' \in BOOLEAN BY <1>3 DEF BackendsIInv
  <2>6. QED BY <1>1, <1>3, <2>1, <2>2, <2>3, <2>4, <2>5, EndKeeps
<1>9. QED BY <1>7, <1>8

\* The embedder: the steps of a thread, but for the last.
LEMMA EmbedderKeeps ==
    ASSUME NEW u \in Users, NEW q \in Embedding, BackendsIInv, request[u] \in Embedding,
           request' = [request EXCEPT ![u] = q],
           UNCHANGED <<asks, unloadable, clientVars>>,
           loaded' \in BOOLEAN, loads' \in Nat, LoadedOnce',
           q.pc \in {"load", "flag"} <=> loading' = u,
           loading' \in {u, Nobody}, loading \in {u, Nobody}
    PROVE  BackendsIInv'
<1>1. q \in RequestState /\ q.pc \notin {"try", "sent", "adopt", "resent", "ended"}
  BY DEF RequestState, UnderWay, Embedding
<1>2. token' = token /\ environ' = environ /\ valid' = valid /\ troubles' = troubles
  BY DEF clientVars
<1>3. /\ request' \in [Users -> RequestState] /\ request'[u] = q
      /\ \A v \in Users \ {u} : RequestSound(v)'
  <2>1. \A v \in Users \ {u} : loading' = v <=> loading = v BY NobodyAssumption
  <2>2. QED BY <1>1, <1>2, <2>1, OthersKeep
<1>4. RequestSound(u)' BY <1>1, <1>3 DEF RequestSound, Recursing
<1>5. QED BY <1>2, <1>3, <1>4, NobodyAssumption DEF BackendsIInv

LEMMA EmbedKeeps == ASSUME NEW u \in Users, BackendsIInv, Embed(u) PROVE BackendsIInv'
<1> DEFINE q == [pc |-> IF loaded THEN "encode" ELSE "wait"]
<1>1. Starts(u, q) /\ UNCHANGED <<embedderVars, clientVars>> BY DEF Embed
<1>2. q \in Embedding /\ q.pc \notin {"load", "flag", "try"} BY DEF Embedding
<1> HIDE DEF q
<1>3. QED BY <1>1, <1>2, StartKeeps

\* Where an embedding is.
LEMMA AtEmbedding ==
    ASSUME NEW u \in Users, BackendsIInv,
           request[u].pc \in {"wait", "load", "encode", "give_up", "flag"}
    PROVE  request[u] \in Embedding
<1>1. request[u] \in RequestState BY DEF BackendsIInv
<1>2. QED BY <1>1 DEF RequestState, UnderWay, Dispatch, Embedding, Recursion, NoAsk

LEMMA TakeLockKeeps == ASSUME NEW u \in Users, BackendsIInv, TakeLock(u) PROVE BackendsIInv'
<1> DEFINE pc == IF request[u].pc = "wait" THEN "load" ELSE "flag"
           q == [request[u] EXCEPT !.pc = pc]
<1>1. request[u] \in Embedding BY AtEmbedding DEF TakeLock
<1>2. request' = [request EXCEPT ![u] = q] /\ loading = Nobody /\ loading' = u
  BY DEF TakeLock, Goes
<1>3. q \in Embedding /\ q.pc \in {"load", "flag"} BY <1>1 DEF Embedding
<1>4. /\ asks' = asks /\ loaded' = loaded /\ unloadable' = unloadable /\ loads' = loads
      /\ UNCHANGED clientVars
  BY DEF TakeLock
<1> HIDE DEF q
<1>5. QED BY <1>1, <1>2, <1>3, <1>4, EmbedderKeeps DEF BackendsIInv, LoadedOnce

LEMMA LoadKeeps == ASSUME NEW u \in Users, BackendsIInv, Load(u) PROVE BackendsIInv'
<1>1. request[u] \in Embedding BY AtEmbedding DEF Load
<1>2. loading = u BY DEF Load, BackendsIInv, RequestSound
<1>3. PICK pc \in {"encode", "give_up"} : Goes(u, pc) BY DEF Load
<1>4. /\ asks' = asks /\ unloadable' = unloadable /\ UNCHANGED clientVars /\ loading' = Nobody
      /\ loaded' \in BOOLEAN /\ loads' \in Nat /\ LoadedOnce'
  <2>1. loads \in Nat /\ loaded \in BOOLEAN /\ loads = IF loaded THEN 1 ELSE 0
    BY DEF BackendsIInv, LoadedOnce
  <2>2. \/ loaded' = loaded /\ loads' = loads
        \/ ~loaded /\ loaded' = TRUE /\ loads' = loads + 1
    BY DEF Load, AlreadyThere
  <2>3. CASE loaded' = loaded /\ loads' = loads
    BY <2>1, <2>3 DEF LoadedOnce, Load
  <2>4. CASE ~loaded /\ loaded' = TRUE /\ loads' = loads + 1
    <3>1. loads' = 1 BY <2>1, <2>4
    <3>2. QED BY <2>4, <3>1 DEF LoadedOnce, Load
  <2>5. QED BY <2>2, <2>3, <2>4
<1> DEFINE q == [request[u] EXCEPT !.pc = pc]
<1>5. request' = [request EXCEPT ![u] = q] BY <1>3 DEF Goes
<1>6. q \in Embedding /\ q.pc \notin {"load", "flag"} BY <1>1 DEF Embedding
<1> HIDE DEF q
<1>7. loading' # u BY <1>4, NobodyAssumption
<1>8. QED BY <1>1, <1>2, <1>4, <1>5, <1>6, <1>7, EmbedderKeeps

LEMMA EmbeddingEnds ==
    ASSUME NEW u \in Users, BackendsIInv, GiveUp(u) \/ Encode(u) PROVE BackendsIInv'
<1>1. request[u] \in Embedding BY AtEmbedding DEF GiveUp, Encode
<1>2. PICK how \in {"answer", "none"} : Ends(u, how) BY DEF GiveUp, Encode
<1>3. \/ loading' = loading /\ request[u].pc \notin {"load", "flag"}
      \/ loading' = Nobody /\ loading = u
  BY DEF GiveUp, Encode, embedderVars, BackendsIInv, RequestSound
<1>4. /\ asks' = asks /\ loaded' = loaded /\ loads' = loads /\ UNCHANGED clientVars
      /\ unloadable' \in {unloadable, TRUE}
  BY DEF GiveUp, Encode, embedderVars
<1>5. request[u] \in UnderWay /\ request[u] \notin Dispatch
  BY <1>1 DEF UnderWay, Embedding, Dispatch
<1>6. how \in Endings /\ how # "expired" BY DEF Endings
<1>7. /\ token' = token /\ environ' = environ /\ valid' = valid /\ troubles' = troubles
      /\ troubles' \in 0..MaxTroubles /\ unloadable' \in BOOLEAN
  BY <1>4 DEF clientVars, BackendsIInv
<1>8. QED BY <1>2, <1>3, <1>4, <1>5, <1>6, <1>7, EndKeeps

\* Where a recursive call is.
LEMMA AtRecursion ==
    ASSUME NEW u \in Users, BackendsIInv, Recursing(u)
    PROVE  request[u] \in Recursion /\ RecursionSound(u) /\ loading # u
<1>1. request[u] \in RequestState /\ RequestSound(u) BY DEF BackendsIInv
<1>2. request[u] \in Recursion
  BY <1>1 DEF Recursing, RequestState, UnderWay, Dispatch, Embedding, Recursion, NoAsk
<1>3. QED BY <1>1, <1>2 DEF RequestSound, Recursing

LEMMA RecurseKeeps == ASSUME NEW u \in Users, BackendsIInv, Recurse(u) PROVE BackendsIInv'
<1> DEFINE q == [pc |-> "sent", token |-> token, alone |-> ~Busy(u), steady |-> environ = valid]
           Now(v) == IF v = u THEN q
                     ELSE IF Recursing(v) THEN [request[v] EXCEPT !.alone = FALSE] ELSE request[v]
<1>1. /\ request[u] = NoAsk /\ asks' = asks + 1 /\ asks < MaxAsks
      /\ request' = [v \in Users |-> Now(v)]
      /\ loaded' = loaded /\ unloadable' = unloadable /\ loading' = loading /\ loads' = loads
      /\ token' = token /\ environ' = environ /\ valid' = valid /\ troubles' = troubles
  BY DEF Recurse, embedderVars, clientVars
<1>2. q \in Recursion /\ q.pc = "sent" /\ q.token = token /\ (q.steady <=> environ = valid)
      /\ (q.alone <=> ~Busy(u))
  BY DEF Recursion, BackendsIInv
<1>3. request'[u] = q BY <1>1
<1>4. ASSUME NEW v \in Users \ {u}
      PROVE  request'[v] \in RequestState /\ RequestSound(v)'
  <2>1. request[v] \in RequestState /\ RequestSound(v) BY DEF BackendsIInv
  <2>2. CASE Recursing(v)
    <3>1. request[v] \in Recursion /\ RecursionSound(v) /\ loading # v BY <2>2, AtRecursion
    <3>2. request'[v] = [request[v] EXCEPT !.alone = FALSE] BY <1>1, <2>2
    <3>3. /\ request'[v] \in Recursion /\ request'[v].pc = request[v].pc
          /\ request'[v].token = request[v].token /\ request'[v].steady = request[v].steady
          /\ request'[v].alone = FALSE
      BY <3>1, <3>2 DEF Recursion
    <3>4. RecursionSound(v)' BY <1>1, <3>1, <3>3 DEF RecursionSound
    <3>5. RequestSound(v)' BY <1>1, <2>2, <3>1, <3>3, <3>4 DEF RequestSound, Recursing
    <3>6. QED BY <3>3, <3>5 DEF RequestState, UnderWay
  <2>3. CASE ~Recursing(v)
    <3>1. request'[v] = request[v] BY <1>1, <2>3
    <3>2. QED BY <1>1, <2>1, <2>3, <3>1 DEF RequestSound, Recursing, DispatchSound
  <2>4. QED BY <2>2, <2>3
<1> HIDE DEF q, Now
<1>5. RequestSound(u)'
  <2>1. ASSUME q.alone, NEW v \in Users \ {u} PROVE ~Recursing(v)'
    <3>1. ~Recursing(v) BY <1>2, <2>1 DEF Busy
    <3>2. request'[v] = request[v] BY <1>1, <3>1 DEF Now
    <3>3. QED BY <3>1, <3>2 DEF Recursing
  <2>2. RecursionSound(u)' BY <1>1, <1>2, <1>3, <2>1 DEF RecursionSound
  <2>3. loading # u BY <1>1 DEF BackendsIInv, RequestSound, NoAsk
  <2>4. QED BY <1>1, <1>2, <1>3, <2>2, <2>3 DEF RequestSound, Recursing
<1>6. request' \in [Users -> RequestState]
  <2>1. q \in RequestState BY <1>2 DEF RequestState, UnderWay
  <2>2. \A v \in Users : Now(v) \in RequestState
    BY <1>1, <1>3, <1>4, <2>1
  <2>3. QED BY <1>1, <2>2
<1>7. asks' \in 0..MaxAsks BY <1>1, BackendsBounds DEF BackendsIInv
<1>8. QED BY <1>1, <1>4, <1>5, <1>6, <1>7 DEF BackendsIInv, LoadedOnce

\* A recursive call that ends: served, refused for good, or in trouble.
LEMMA RecursionEnds ==
    ASSUME NEW u \in Users, NEW how \in {"answer", "failed", "expired"}, BackendsIInv,
           Recursing(u), Ends(u, how),
           UNCHANGED <<asks, embedderVars, token, environ, valid>>,
           troubles' \in 0..MaxTroubles, troubles' = 0 => troubles = 0,
           how = "expired" /\ troubles' = 0 => ~request[u].alone \/ ~request[u].steady
    PROVE  BackendsIInv'
<1>1. request[u] \in Recursion /\ loading # u BY AtRecursion
<1>2. request[u] \in UnderWay /\ request[u] \notin Dispatch /\ request[u].pc \notin {"load", "flag"}
  BY <1>1 DEF UnderWay, Dispatch, Recursion
<1>3. /\ loaded' = loaded /\ unloadable' = unloadable /\ loading' = loading /\ loads' = loads
      /\ unloadable' \in BOOLEAN
  BY DEF embedderVars, BackendsIInv
<1>4. how \in Endings BY DEF Endings
<1>5. QED BY <1>1, <1>2, <1>3, <1>4, EndKeeps

LEMMA ServedKeeps == ASSUME NEW u \in Users, BackendsIInv, Served(u) PROVE BackendsIInv'
<1>1. Recursing(u) /\ Ends(u, "answer") BY DEF Served, Recursing
<1>2. UNCHANGED <<asks, embedderVars, token, environ, valid>> /\ troubles' = troubles
  BY DEF Served, clientVars
<1>3. troubles' \in 0..MaxTroubles BY <1>2 DEF BackendsIInv
<1>4. QED BY <1>1, <1>2, <1>3, RecursionEnds

LEMMA TroubleKeeps == ASSUME NEW u \in Users, BackendsIInv, Trouble(u) PROVE BackendsIInv'
<1>1. Recursing(u) BY DEF Trouble, Recursing
<1>2. PICK how \in {"failed", "expired"} : Ends(u, how) BY DEF Trouble
<1>3. UNCHANGED <<asks, embedderVars, token, environ, valid>> BY DEF Trouble
<1>4. troubles' \in 0..MaxTroubles /\ troubles' # 0
  BY BackendsBounds DEF Trouble, BackendsIInv
<1>5. QED BY <1>1, <1>2, <1>3, <1>4, RecursionEnds

\* A call that sends again, with a token that it adopts.
LEMMA ResendKeeps ==
    ASSUME NEW u \in Users, NEW q \in Recursion, BackendsIInv, Recursing(u),
           request' = [request EXCEPT ![u] = q],
           UNCHANGED <<asks, embedderVars, environ, valid, troubles>>,
           token' \in 1..MaxTokens, q.pc \in {"adopt", "resent"},
           q.alone = request[u].alone, q.steady = request[u].steady,
           q.steady => q.token = valid
    PROVE  BackendsIInv'
<1>1. request[u] \in Recursion /\ RecursionSound(u) /\ loading # u BY AtRecursion
<1>2. q \in RequestState BY DEF RequestState, UnderWay
<1>3. /\ loaded' = loaded /\ unloadable' = unloadable /\ loading' = loading /\ loads' = loads
  BY DEF embedderVars
<1>4. /\ request' \in [Users -> RequestState] /\ request'[u] = q
      /\ \A v \in Users \ {u} : RequestSound(v)'
  BY <1>2, <1>3, OthersKeep
<1>5. \A v \in Users \ {u} : Recursing(v)' => Recursing(v) BY DEF Recursing, BackendsIInv
<1>6. RecursionSound(u)' BY <1>1, <1>4, <1>5 DEF RecursionSound
<1>7. RequestSound(u)' BY <1>1, <1>3, <1>4, <1>6 DEF RequestSound
<1>8. QED BY <1>3, <1>4, <1>7 DEF BackendsIInv, LoadedOnce

LEMMA UnauthorizedKeeps == ASSUME NEW u \in Users, BackendsIInv, Unauthorized(u) PROVE BackendsIInv'
<1>1. Recursing(u) /\ request[u].pc \in {"sent", "resent"} /\ request[u].token # valid
  BY DEF Unauthorized, Recursing
<1>2. request[u] \in Recursion /\ RecursionSound(u) BY <1>1, AtRecursion
<1>3. UNCHANGED <<asks, embedderVars, clientVars>> BY DEF Unauthorized
<1>4. token' = token /\ environ' = environ /\ valid' = valid /\ troubles' = troubles
  BY <1>3 DEF clientVars
<1>5. CASE request[u].pc = "sent" /\ environ # token
  <2> DEFINE q == [request[u] EXCEPT !.pc = "adopt", !.token = environ]
  <2>1. request' = [request EXCEPT ![u] = q] BY <1>5 DEF Unauthorized
  <2>2. /\ q \in Recursion /\ q.pc = "adopt" /\ q.token = environ
        /\ q.alone = request[u].alone /\ q.steady = request[u].steady
    BY <1>2 DEF Recursion, BackendsIInv
  <2>3. q.steady => q.token = valid BY <1>2, <2>2 DEF RecursionSound
  <2>4. token' \in 1..MaxTokens BY <1>4 DEF BackendsIInv
  <2> HIDE DEF q
  <2>5. QED BY <1>1, <1>3, <1>4, <2>1, <2>2, <2>3, <2>4, ResendKeeps
<1>6. CASE ~(request[u].pc = "sent" /\ environ # token)
  <2>1. Ends(u, "expired") BY <1>6 DEF Unauthorized
  <2>2. ~request[u].alone \/ ~request[u].steady
    BY <1>1, <1>2, <1>6 DEF RecursionSound
  <2>3. troubles' \in 0..MaxTroubles BY <1>4 DEF BackendsIInv
  <2>4. QED BY <1>1, <1>3, <1>4, <2>1, <2>2, <2>3, RecursionEnds
<1>7. QED BY <1>5, <1>6

LEMMA AdoptKeeps == ASSUME NEW u \in Users, BackendsIInv, Adopt(u) PROVE BackendsIInv'
<1> DEFINE q == [request[u] EXCEPT !.pc = "resent", !.token = request[u].token]
<1>1. /\ Recursing(u) /\ request[u].pc = "adopt" /\ token' = request[u].token
      /\ request' = [request EXCEPT ![u] = q]
      /\ UNCHANGED <<asks, embedderVars, environ, valid, troubles>>
  BY DEF Adopt, Fresh, Recursing
<1>2. request[u] \in Recursion /\ RecursionSound(u) BY <1>1, AtRecursion
<1>3. /\ q \in Recursion /\ q.pc = "resent" /\ q.token = request[u].token
      /\ q.alone = request[u].alone /\ q.steady = request[u].steady
  BY <1>2 DEF Recursion
<1>4. q.steady => q.token = valid BY <1>1, <1>2, <1>3 DEF RecursionSound
<1>5. token' \in 1..MaxTokens BY <1>1, <1>2 DEF Recursion
<1> HIDE DEF q
<1>6. QED BY <1>1, <1>3, <1>4, <1>5, ResendKeeps

LEMMA ForgetKeeps == ASSUME NEW u \in Users, BackendsIInv, Forget(u) PROVE BackendsIInv'
<1>1. /\ request' = [request EXCEPT ![u] = NoAsk] /\ request[u].pc = "ended"
      /\ asks' = asks
      /\ loaded' = loaded /\ unloadable' = unloadable /\ loading' = loading /\ loads' = loads
      /\ token' = token /\ environ' = environ /\ valid' = valid /\ troubles' = troubles
  BY DEF Forget, embedderVars, clientVars
<1>2. NoAsk \in RequestState /\ NoAsk.pc = "idle" BY DEF RequestState, NoAsk
<1>3. /\ request' \in [Users -> RequestState] /\ request'[u] = NoAsk
      /\ \A v \in Users \ {u} : RequestSound(v)'
  BY <1>1, <1>2, OthersKeep
<1>4. loading # u BY <1>1 DEF BackendsIInv, RequestSound
<1>5. RequestSound(u)' BY <1>1, <1>2, <1>3, <1>4 DEF RequestSound, Recursing
<1>6. QED BY <1>1, <1>3, <1>5 DEF BackendsIInv, LoadedOnce

\* A new token of the provider makes all calls under way unsteady.
LEMMA RotateKeeps == ASSUME BackendsIInv, Rotate PROVE BackendsIInv'
<1>1. /\ request' = Unsteady /\ valid' \in 1..MaxTokens /\ asks' = asks
      /\ loaded' = loaded /\ unloadable' = unloadable /\ loading' = loading /\ loads' = loads
      /\ token' = token /\ environ' = environ /\ troubles' = troubles
  BY BackendsBounds DEF Rotate, embedderVars, BackendsIInv
<1>2. ASSUME NEW u \in Users PROVE request'[u] \in RequestState /\ RequestSound(u)'
  <2>1. request[u] \in RequestState /\ RequestSound(u) BY DEF BackendsIInv
  <2>2. CASE Recursing(u)
    <3>1. request[u] \in Recursion /\ RecursionSound(u) /\ loading # u BY <2>2, AtRecursion
    <3>2. request'[u] = [request[u] EXCEPT !.steady = FALSE] BY <1>1, <2>2 DEF Unsteady
    <3>3. /\ request'[u] \in Recursion /\ request'[u].pc = request[u].pc
          /\ request'[u].token = request[u].token /\ request'[u].steady = FALSE
          /\ request'[u].alone = request[u].alone
      BY <3>1, <3>2 DEF Recursion
    <3>4. \A v \in Users \ {u} : ~Recursing(v) => ~Recursing(v)'
      BY <1>1 DEF Unsteady, Recursing
    <3>5. RecursionSound(u)' BY <1>1, <3>1, <3>3, <3>4 DEF RecursionSound
    <3>6. RequestSound(u)' BY <1>1, <2>2, <3>1, <3>3, <3>5 DEF RequestSound, Recursing
    <3>7. QED BY <3>3, <3>6 DEF RequestState, UnderWay
  <2>3. CASE ~Recursing(u)
    <3>1. request'[u] = request[u] BY <1>1, <2>3 DEF Unsteady
    <3>2. QED BY <1>1, <2>1, <2>3, <3>1 DEF RequestSound, Recursing, DispatchSound
  <2>4. QED BY <2>2, <2>3
<1>3. request' \in [Users -> RequestState] BY <1>1, <1>2 DEF Unsteady
<1>4. QED BY <1>1, <1>2, <1>3 DEF BackendsIInv, LoadedOnce

\* The environment gets the valid token only if it had another, when no call is steady.
LEMMA DeployKeeps == ASSUME BackendsIInv, Deploy PROVE BackendsIInv'
<1>1. /\ request' = request /\ asks' = asks /\ environ # valid /\ environ' = valid
      /\ loaded' = loaded /\ unloadable' = unloadable /\ loading' = loading /\ loads' = loads
      /\ token' = token /\ valid' = valid /\ troubles' = troubles
  BY DEF Deploy, embedderVars
<1>2. ASSUME NEW u \in Users PROVE RequestSound(u)'
  <2>1. RequestSound(u) BY DEF BackendsIInv
  <2>2. ASSUME Recursing(u) PROVE RecursionSound(u)'
    BY <1>1, <2>1, <2>2 DEF RequestSound, RecursionSound, Recursing
  <2>3. QED BY <1>1, <2>1, <2>2 DEF RequestSound, Recursing, DispatchSound
<1>3. QED BY <1>1, <1>2 DEF BackendsIInv, LoadedOnce

\* The chain, the embedder and the recursive client keep their invariant.
THEOREM BackendsInvariance == BackendsSpec => []BackendsIInv
<1>1. BackendsIInv /\ [BackendsNext]_backendsVars => BackendsIInv'
  <2> SUFFICES ASSUME BackendsIInv, [BackendsNext]_backendsVars PROVE BackendsIInv' OBVIOUS
  <2>1. ASSUME NEW u \in Users, AskModel(u) \/ Attempt(u) PROVE BackendsIInv'
    BY <2>1, AskModelKeeps, AttemptKeeps
  <2>2. ASSUME NEW u \in Users,
               Embed(u) \/ TakeLock(u) \/ Load(u) \/ GiveUp(u) \/ Encode(u)
        PROVE  BackendsIInv'
    BY <2>2, EmbedKeeps, TakeLockKeeps, LoadKeeps, EmbeddingEnds
  <2>3. ASSUME NEW u \in Users,
               Recurse(u) \/ Served(u) \/ Unauthorized(u) \/ Adopt(u) \/ Trouble(u)
        PROVE  BackendsIInv'
    BY <2>3, RecurseKeeps, ServedKeeps, UnauthorizedKeeps, AdoptKeeps, TroubleKeeps
  <2>4. ASSUME NEW u \in Users, Forget(u) PROVE BackendsIInv' BY <2>4, ForgetKeeps
  <2>5. CASE Rotate \/ Deploy BY <2>5, RotateKeeps, DeployKeeps
  <2>6. CASE UNCHANGED backendsVars
    <3>1. \A u \in Users : RequestSound(u)'
      BY <2>6 DEF BackendsIInv, RequestSound, RecursionSound, DispatchSound, Recursing,
                  backendsVars, embedderVars, clientVars
    <3>2. QED
      BY <2>6, <3>1 DEF BackendsIInv, LoadedOnce, backendsVars, embedderVars, clientVars
  <2>7. QED BY <2>1, <2>2, <2>3, <2>4, <2>5, <2>6 DEF BackendsNext
<1>2. QED BY <1>1, BackendsInitIInv, PTL DEF BackendsSpec

\* BackendsSound: what does nothing answers only after every real model has failed, the
\* local model is loaded once, and a caller is told of an expired token only if it was so.
THEOREM BackendsAreSound == BackendsSpec => []BackendsSound
BY BackendsInvariance, BackendsImplied, PTL

-----------------------------------------------------------------------------
(* Checkpoint history                                                      *)

\* What a publish holds from its first file to its last byte, and what a query holds.
SaverStates ==
    [pc : {"loop", "git", "open", "write"}, rest : SUBSET [at : Nat, key : Paths],
     since : Nat, until : Nat, record : CheckpointFile]
Queries ==
    {q \in [slug : Slugs \union {Everywhere}, scope : Claims, path : Selectors] : ~Refused(q)}
ScanStates ==
    [pc : {"scan"}, query : Queries, todo : SUBSET CheckpointIds,
     read : SUBSET CheckpointFile, there : SUBSET CheckpointIds]
SeekStates ==
    [pc : {"seek"}, slug : Slugs, todo : SUBSET CheckpointIds,
     read : SUBSET CheckpointFile, there : SUBSET CheckpointIds]

Saving(s) == saver[s].pc # "away"
Unwritten(s) == saver[s].pc \in {"loop", "git", "open"}
GivenIds == 1..serial \union {c.id : c \in Old}
Searching(v) == viewer[v].pc \in {"scan", "seek"}
OfQuery(v, slug) ==
    IF viewer[v].pc = "scan" THEN slug \in Directories(viewer[v].query.slug)
    ELSE slug = viewer[v].slug

HistoryTyped ==
    /\ tick \in 0..LastTick /\ serial \in 0..MaxSaves
    /\ written \subseteq CheckpointFile /\ IsFiniteSet(written)
    /\ saver = [s \in Savers |-> saver[s]]
    /\ \A s \in Savers : saver[s] = Away \/ saver[s] \in SaverStates
    /\ viewer = [v \in Viewers |-> viewer[v]]

\* An id is given once: to a file, or to a publish that has no file yet.
IdsApart ==
    /\ \A c \in written : c.id \in GivenIds /\ \A d \in written : d.id = c.id => d = c
    /\ \A s \in Savers : Saving(s) =>
          /\ saver[s].record.id \in 1..serial /\ ~saver[s].record.whole
          /\ \A t \in Savers : Saving(t) /\ saver[t].record.id = saver[s].record.id => t = s
          /\ IF Unwritten(s) THEN \A c \in written : c.id # saver[s].record.id
             ELSE saver[s].record \in written

KeysStored ==
    /\ Addressable
    /\ \A s \in Savers : Saving(s) =>
          /\ \A p \in saver[s].record.diffs : KeyOf[p] = p
          /\ \A k \in saver[s].rest : KeyOf[k.key] = k.key

BudgetKept ==
    /\ CollectedInTime
    /\ \A s \in Savers : saver[s].pc = "git" => saver[s].until <= saver[s].since + TotalTime

\* The files that were whole when a query began and are still there have been read by it
\* or are still to be read; none of them is being written.
ViewerSound(v) ==
    /\ viewer[v].pc \in {"away", "scan", "answered", "seek", "resumed"}
    /\ viewer[v].pc = "scan" => viewer[v] \in ScanStates
    /\ viewer[v].pc = "seek" => viewer[v] \in SeekStates
    /\ viewer[v].pc # "away" =>
          /\ viewer[v].there \subseteq GivenIds
          /\ \A s \in Savers : Saving(s) => saver[s].record.id \notin viewer[v].there
    /\ Searching(v) =>
          /\ viewer[v].todo \subseteq GivenIds
          /\ \A s \in Savers : Unwritten(s) => saver[s].record.id \notin viewer[v].todo
          /\ IsFiniteSet(viewer[v].read)
          /\ \A c \in viewer[v].read : c.whole /\ OfQuery(v, c.slug)
          /\ \A c \in written :
                /\ c.id \in viewer[v].todo => OfQuery(v, c.slug)
                /\ c.id \in viewer[v].there =>
                      c.whole /\ (c.id \in viewer[v].todo \/ c \in viewer[v].read)
AnswerRight(v) ==
    LET q == viewer[v].query
        due == {c \in written :
                  /\ c.id \in viewer[v].there /\ q.path \in c.diffs
                  /\ InScope(q.scope, c.slug) /\ c.slug \in Directories(q.slug)}
    IN  viewer[v].pc = "answered" =>
          /\ \A i \in viewer[v].items :
                InScope(q.scope, i.slug) /\ i.diffs \intersect Secret = {}
          /\ q.path # NoKey =>
                Refused(q) \/ viewer[v].cut
                   \/ {c.id : c \in due} \subseteq {i.id : i \in viewer[v].items}
ResumeRight(v) ==
    viewer[v].pc = "resumed" =>
       /\ \A f \in viewer[v].found : f.slug = viewer[v].slug /\ f.whole
       /\ \A c \in written : c.id \in viewer[v].there =>
             \E f \in viewer[v].found : f.at >= c.at

HistoryIInv ==
    /\ HistoryTyped /\ IdsApart /\ KeysStored /\ BudgetKept
    /\ \A v \in Viewers : ViewerSound(v) /\ AnswerRight(v) /\ ResumeRight(v)

LEMMA SaverIs ==
    ASSUME HistoryTyped, NEW s \in Savers
    PROVE  /\ saver[s].pc \in {"away", "loop", "git", "open", "write"}
           /\ Saving(s) <=> saver[s] # Away
           /\ Saving(s) => /\ saver[s] \in SaverStates /\ saver[s].record \in CheckpointFile
                         /\ saver[s].rest \in SUBSET [at : Nat, key : Paths]
                         /\ saver[s].since \in Nat /\ saver[s].until \in Nat
BY DEF HistoryTyped, SaverStates, Saving, Away

LEMMA HistoryInitIInv == HistoryInit => HistoryIInv
<1> SUFFICES ASSUME HistoryInit PROVE HistoryIInv OBVIOUS
<1>1. LastTick \in Nat /\ MaxSaves \in Nat BY HistoryBounds
<1>2. written \subseteq CheckpointFile
  <2>1. ASSUME NEW c \in Old PROVE c \in CheckpointFile
    <3>1. /\ c \in [id: {c.id}, slug: Slugs, at: -LastTick..0,
                    diffs: SUBSET Paths, whole: BOOLEAN]
      BY HistoryOld
    <3>2. c.id \in CheckpointIds BY DEF CheckpointIds
    <3>3. c.at \in -LastTick..LastTick BY <1>1, <3>1
    <3>4. QED BY <3>1, <3>2, <3>3 DEF CheckpointFile
  <2>2. QED BY <2>1 DEF HistoryInit
<1>3. HistoryTyped BY <1>1, <1>2, HistoryOld DEF HistoryInit, HistoryTyped
<1>4. \A s \in Savers : saver[s].pc = "away" BY DEF HistoryInit, Away
<1>5. \A v \in Viewers : viewer[v].pc = "away" BY DEF HistoryInit, Away
<1>6. IdsApart BY <1>4, HistoryOld DEF HistoryInit, IdsApart, GivenIds, Saving
<1>7. KeysStored
  <2>1. \A c \in Old : c.id \notin 1..MaxSaves BY HistoryOld
  <2>2. QED BY <1>4, <2>1 DEF HistoryInit, KeysStored, Addressable, Saving
<1>8. BudgetKept BY <1>4 DEF BudgetKept, CollectedInTime
<1>9. QED BY <1>3, <1>5, <1>6, <1>7, <1>8
      DEF HistoryIInv, ViewerSound, AnswerRight, ResumeRight, Searching

\* A viewer that stands still stays right, whatever is published.
LEMMA ViewerStays ==
    ASSUME HistoryIInv, NEW v \in Viewers, viewer'[v] = viewer[v],
           GivenIds \subseteq GivenIds',
           \A s \in Savers : Saving(s)' =>
              \/ saver'[s].record.id \notin GivenIds
              \/ Saving(s) /\ saver'[s].record.id = saver[s].record.id,
           \A s \in Savers : Unwritten(s)' =>
              \/ saver'[s].record.id \notin GivenIds
              \/ Unwritten(s) /\ saver'[s].record.id = saver[s].record.id,
           \A c \in written' :
              \/ c \in written
              \/ \E s \in Savers :
                    /\ Saving(s) /\ c.id = saver[s].record.id
                    /\ Unwritten(s) \/ \E d \in written : d.id = c.id /\ d.slug = c.slug
    PROVE  ViewerSound(v)' /\ AnswerRight(v)' /\ ResumeRight(v)'
<1>1. ViewerSound(v) /\ AnswerRight(v) /\ ResumeRight(v) BY DEF HistoryIInv
<1>2. \A c \in written' : viewer[v].pc # "away" /\ c.id \in viewer[v].there => c \in written
  BY <1>1 DEF ViewerSound
<1>3. ASSUME viewer[v].pc # "away"
      PROVE  /\ viewer[v].there \subseteq GivenIds'
             /\ \A s \in Savers : Saving(s)' => saver'[s].record.id \notin viewer[v].there
  BY <1>1, <1>3 DEF ViewerSound
<1>4. ASSUME Searching(v)
      PROVE  /\ viewer[v].todo \subseteq GivenIds'
             /\ \A s \in Savers : Unwritten(s)' => saver'[s].record.id \notin viewer[v].todo
  BY <1>1, <1>4 DEF ViewerSound
<1>5. ASSUME Searching(v), NEW c \in written', c.id \in viewer[v].todo PROVE OfQuery(v, c.slug)
  BY <1>1, <1>5 DEF ViewerSound
<1>6. ViewerSound(v)'
  BY <1>1, <1>2, <1>3, <1>4, <1>5 DEF ViewerSound, Searching, OfQuery
<1>7. AnswerRight(v)'
  <2>1. CASE viewer[v].pc # "answered" BY <2>1 DEF AnswerRight
  <2>2. CASE viewer[v].pc = "answered"
    BY <1>1, <1>2, <2>2 DEF AnswerRight
  <2>3. QED BY <2>1, <2>2
<1>8. ResumeRight(v)' BY <1>1, <1>2 DEF ResumeRight
<1>9. QED BY <1>6, <1>7, <1>8

\* A publish that has no file yet goes on, or ends.
LEMMA SaverMoves ==
    ASSUME HistoryIInv, NEW s \in Savers, NEW rec,
           saver' = [saver EXCEPT ![s] = rec],
           UNCHANGED <<tick, written, viewer, serial>>,
           Saving(s),
           \/ rec = Away
           \/ /\ Unwritten(s) /\ rec \in SaverStates /\ rec.pc # "write"
              /\ rec.record.id = saver[s].record.id /\ ~rec.record.whole
              /\ \A p \in rec.record.diffs : KeyOf[p] = p
              /\ \A k \in rec.rest : KeyOf[k.key] = k.key
              /\ rec.pc \in {"loop", "git"} => tick <= rec.since + TotalTime
              /\ rec.pc = "git" => rec.until <= rec.since + TotalTime
    PROVE  HistoryIInv'
<1>1. HistoryTyped /\ IdsApart /\ KeysStored /\ BudgetKept BY DEF HistoryIInv
<1>2. saver'[s] = rec /\ \A t \in Savers : t # s => saver'[t] = saver[t]
  BY <1>1 DEF HistoryTyped
<1>3. Away.pc = "away" BY DEF Away
<1>4. HistoryTyped' BY <1>1, <1>2 DEF HistoryTyped
<1>5. \A t \in Savers : Saving(t)' => Saving(t) /\ saver'[t].record.id = saver[t].record.id
                                    /\ ~saver'[t].record.whole
  BY <1>1, <1>2, <1>3 DEF Saving, IdsApart
<1>6. \A t \in Savers : /\ Unwritten(t)' => Unwritten(t)
                        /\ Saving(t)' /\ ~Unwritten(t)' => ~Unwritten(t) /\ saver'[t] = saver[t]
  <2>1. rec # Away => rec.pc \in {"loop", "git", "open"} BY DEF SaverStates
  <2>2. QED BY <1>2, <1>3, <2>1 DEF Saving, Unwritten
<1>7. IdsApart'
  <2>1. GivenIds' = GivenIds BY DEF GivenIds
  <2>2. ASSUME NEW t \in Savers, Saving(t)'
        PROVE  /\ saver'[t].record.id \in 1..serial' /\ ~saver'[t].record.whole
               /\ \A u \in Savers : Saving(u)' /\ saver'[u].record.id = saver'[t].record.id => u = t
    BY <1>1, <1>5, <2>2 DEF IdsApart
  <2>3. ASSUME NEW t \in Savers, Saving(t)'
        PROVE  IF Unwritten(t)' THEN \A c \in written' : c.id # saver'[t].record.id
               ELSE saver'[t].record \in written'
    BY <1>1, <1>5, <1>6, <2>3 DEF IdsApart
  <2>4. QED BY <1>1, <2>1, <2>2, <2>3 DEF IdsApart
<1>8. KeysStored' BY <1>1, <1>2, <1>3 DEF KeysStored, Addressable, Saving
<1>9. BudgetKept' BY <1>1, <1>2, <1>3 DEF BudgetKept, CollectedInTime
<1>10. ASSUME NEW v \in Viewers PROVE ViewerSound(v)' /\ AnswerRight(v)' /\ ResumeRight(v)'
  <2>1. GivenIds' = GivenIds BY DEF GivenIds
  <2>2. \A t \in Savers : Unwritten(t)' => Saving(t)' BY DEF Unwritten, Saving
  <2>3. QED BY <1>5, <1>6, <2>1, <2>2, ViewerStays
<1>11. QED BY <1>4, <1>7, <1>8, <1>9, <1>10 DEF HistoryIInv

LEMMA LesserOf ==
    ASSUME NEW m \in Int, NEW n \in Int
    PROVE  /\ Min({m, n}) \in {m, n} /\ Min({m, n}) <= m /\ Min({m, n}) <= n
<1>1. \E x \in {m, n} : \A y \in {m, n} : x <= y
  <2>1. CASE m <= n BY <2>1
  <2>2. CASE ~(m <= n) BY <2>2
  <2>3. QED BY <2>1, <2>2
<1>2. Min({m, n}) \in {m, n} /\ \A y \in {m, n} : Min({m, n}) <= y BY <1>1 DEF Min
<1>3. QED BY <1>2

\* What is kept of a list of files has its own key, and is not secret.
LEMMA KeptHasKeys ==
    ASSUME NEW files \in Touched
    PROVE  /\ Capped(Kept(files)) \in SUBSET [at : Nat, key : Paths]
           /\ \A k \in Capped(Kept(files)) : KeyOf[k.key] = k.key
<1>1. files \in Seq(Paths) BY HistoryPaths
<1>2. ASSUME NEW n \in DOMAIN files, Capturable(files[n])
      PROVE  n \in Nat /\ KeyOf[files[n]] \in Paths /\ KeyOf[KeyOf[files[n]]] = KeyOf[files[n]]
  <2>1. n \in Nat /\ files[n] \in Paths BY <1>1
  <2>2. KeyOf[files[n]] # NoKey BY <1>2 DEF Capturable
  <2>3. QED BY <2>1, <2>2, HistoryPaths
<1>3. ASSUME NEW k \in Kept(files)
      PROVE  k \in [at : Nat, key : Paths] /\ KeyOf[k.key] = k.key
  <2>1. PICK n \in DOMAIN files :
          Capturable(files[n]) /\ k = [at |-> n, key |-> KeyOf[files[n]]]
    BY <1>3 DEF Kept
  <2>2. QED BY <1>2, <2>1
<1>4. QED BY <1>3 DEF Capped

LEMMA BeginSaveKeeps ==
    ASSUME HistoryIInv, NEW s \in Savers, NEW slug \in Slugs, NEW files \in Touched,
           BeginSave(s, slug, files)
    PROVE  HistoryIInv'
<1> DEFINE rec == [pc |-> "loop", rest |-> Capped(Kept(files)), since |-> tick, until |-> tick,
                   record |-> Checkpoint(serial + 1, slug, {})]
<1>1. HistoryTyped /\ IdsApart /\ KeysStored /\ BudgetKept BY DEF HistoryIInv
<1>2. /\ ~Saving(s) /\ serial < MaxSaves /\ serial' = serial + 1
      /\ UNCHANGED <<tick, written, viewer>>
  BY DEF BeginSave, Saving
<1>2a. saver' = [saver EXCEPT ![s] = rec] BY DEF BeginSave
<1>3. /\ MaxSaves \in Nat /\ LastTick \in Nat /\ TotalTime \in Nat
      /\ tick \in 0..LastTick /\ serial \in 0..MaxSaves
  BY <1>1, HistoryBounds DEF HistoryTyped
<1>4. Checkpoint(serial + 1, slug, {}) \in CheckpointFile
  <2>1. serial + 1 \in 1..MaxSaves /\ tick \in -LastTick..LastTick BY <1>2, <1>3
  <2>2. serial + 1 \in CheckpointIds BY <2>1 DEF CheckpointIds
  <2>3. QED BY <2>1, <2>2 DEF Checkpoint, CheckpointFile
<1>5. rec \in SaverStates BY <1>3, <1>4, KeptHasKeys DEF SaverStates
<1>6. /\ rec.pc = "loop" /\ rec.record.id = serial + 1 /\ ~rec.record.whole
      /\ rec.record.diffs = {} /\ rec.rest = Capped(Kept(files)) /\ rec.since = tick
  BY DEF Checkpoint
<1> HIDE DEF rec
<1>7. saver'[s] = rec /\ \A t \in Savers : t # s => saver'[t] = saver[t]
  BY <1>1, <1>2a DEF HistoryTyped
<1>8. serial + 1 \notin GivenIds /\ GivenIds \subseteq GivenIds'
  <2>1. serial + 1 \in 1..MaxSaves BY <1>2, <1>3
  <2>2. serial + 1 \notin {c.id : c \in Old} BY <2>1, HistoryOld
  <2>3. QED BY <1>2, <1>3, <2>1, <2>2 DEF GivenIds
<1>9. HistoryTyped' BY <1>1, <1>2, <1>2a, <1>3, <1>5, <1>7 DEF HistoryTyped
<1>10. IdsApart'
  <2>1. \A t \in Savers :
          Saving(t) => saver[t].record.id \in 1..serial /\ saver[t].record.id # serial + 1
    BY <1>1, <1>3 DEF IdsApart
  <2>2. \A c \in written : c.id \in GivenIds /\ c.id # serial + 1 BY <1>1, <1>8 DEF IdsApart
  <2>3. \A t \in Savers : /\ t # s => (Saving(t)' <=> Saving(t)) /\ (Unwritten(t)' <=> Unwritten(t))
                          /\ t = s => Unwritten(t)'
    BY <1>6, <1>7 DEF Saving, Unwritten
  <2>4. ASSUME NEW t \in Savers, Saving(t)'
        PROVE  /\ saver'[t].record.id \in 1..serial' /\ ~saver'[t].record.whole
               /\ \A u \in Savers : Saving(u)' /\ saver'[u].record.id = saver'[t].record.id => u = t
               /\ IF Unwritten(t)' THEN \A c \in written' : c.id # saver'[t].record.id
                  ELSE saver'[t].record \in written'
    <3>1. CASE t = s
      <4>1. saver'[t].record.id = serial + 1 /\ ~saver'[t].record.whole /\ serial + 1 \in 1..serial'
        BY <1>2, <1>3, <1>6, <1>7, <3>1
      <4>2. \A u \in Savers : Saving(u)' /\ u # s => saver'[u].record.id # serial + 1
        BY <1>7, <2>1, <2>3
      <4>3. QED BY <1>2, <2>2, <2>3, <3>1, <4>1, <4>2
    <3>2. CASE t # s
      <4>1. Saving(t) /\ saver'[t] = saver[t] /\ saver[t].record.id # serial + 1
        BY <1>7, <2>1, <2>3, <2>4, <3>2
      <4>2. \A u \in Savers : Saving(u)' /\ saver'[u].record.id = saver'[t].record.id => u = t
        BY <1>1, <1>6, <1>7, <2>3, <4>1 DEF IdsApart
      <4>3. saver'[t].record.id \in 1..serial' BY <1>2, <1>3, <2>1, <4>1
      <4>4. QED BY <1>1, <1>2, <2>3, <3>2, <4>1, <4>2, <4>3 DEF IdsApart
    <3>3. QED BY <3>1, <3>2
  <2>5. \A c \in written' : c.id \in GivenIds' /\ \A d \in written' : d.id = c.id => d = c
    BY <1>1, <1>2, <1>8 DEF IdsApart
  <2>6. QED BY <2>4, <2>5 DEF IdsApart
<1>11. KeysStored'
  <2>1. \A k \in rec.rest : KeyOf[k.key] = k.key BY <1>6, KeptHasKeys
  <2>2. QED BY <1>1, <1>2, <1>6, <1>7, <2>1 DEF KeysStored, Addressable, Saving
<1>12. BudgetKept'
  <2>1. tick <= tick + TotalTime BY <1>3
  <2>2. QED BY <1>1, <1>2, <1>6, <1>7, <2>1 DEF BudgetKept, CollectedInTime
<1>13. ASSUME NEW v \in Viewers PROVE ViewerSound(v)' /\ AnswerRight(v)' /\ ResumeRight(v)'
  <2>1. \A t \in Savers : Saving(t)' =>
                \/ saver'[t].record.id \notin GivenIds
                \/ Saving(t) /\ saver'[t].record.id = saver[t].record.id
    BY <1>6, <1>7, <1>8 DEF Saving
  <2>2. \A t \in Savers : Unwritten(t)' =>
                \/ saver'[t].record.id \notin GivenIds
                \/ Unwritten(t) /\ saver'[t].record.id = saver[t].record.id
    BY <1>6, <1>7, <1>8 DEF Unwritten
  <2>3. viewer'[v] = viewer[v] /\ written' = written BY <1>2
  <2>4. QED BY <1>8, <2>1, <2>2, <2>3, ViewerStays
<1>14. QED BY <1>9, <1>10, <1>11, <1>12, <1>13 DEF HistoryIInv

LEMMA NextDiffKeeps ==
    ASSUME HistoryIInv, NEW s \in Savers, NextDiff(s)
    PROVE  HistoryIInv'
<1>1. HistoryTyped /\ IdsApart /\ KeysStored /\ BudgetKept BY DEF HistoryIInv
<1> DEFINE left == saver[s].since + TotalTime - tick
           rec == IF saver[s].rest = {} \/ left <= 0 THEN [saver[s] EXCEPT !.pc = "open"]
                  ELSE [saver[s] EXCEPT !.pc = "git", !.until = tick + FileTimeIn(left)]
<1>2. /\ saver[s].pc = "loop" /\ UNCHANGED <<tick, written, viewer, serial>>
      /\ saver' = [saver EXCEPT ![s] = rec]
  BY DEF NextDiff
<1>3. Saving(s) /\ Unwritten(s) /\ saver[s] \in SaverStates /\ saver[s].since \in Nat
  BY <1>1, <1>2, SaverIs DEF Saving, Unwritten
<1>4. tick \in Nat /\ TotalTime \in Nat /\ FileTime \in Nat
  BY <1>1, HistoryBounds DEF HistoryTyped
<1>5. tick <= saver[s].since + TotalTime BY <1>1, <1>2 DEF BudgetKept, CollectedInTime
<1>6. CASE saver[s].rest = {} \/ left <= 0
  <2>1. rec = [saver[s] EXCEPT !.pc = "open"] BY <1>6
  <2>2. rec \in SaverStates /\ rec.pc = "open" /\ rec.record = saver[s].record
        /\ rec.rest = saver[s].rest
    BY <1>3, <2>1 DEF SaverStates
  <2>3. ~rec.record.whole /\ (\A p \in rec.record.diffs : KeyOf[p] = p)
        /\ \A k \in rec.rest : KeyOf[k.key] = k.key
    BY <1>1, <1>3, <2>2 DEF IdsApart, KeysStored
  <2> HIDE DEF rec
  <2>4. QED BY <1>2, <1>3, <2>2, <2>3, SaverMoves
<1>7. CASE ~(saver[s].rest = {} \/ left <= 0)
  <2>1. rec = [saver[s] EXCEPT !.pc = "git", !.until = tick + FileTimeIn(left)] BY <1>7
  <2>2. left \in Nat BY <1>3, <1>4, <1>5
  <2>3. FileTimeIn(left) \in Nat /\ FileTimeIn(left) <= left
    <3>1. FileTime \in Nat /\ FileTime \in Int /\ left \in Int BY <1>4, <2>2
    <3> HIDE DEF left
    <3>2. /\ Min({FileTime, left}) \in {FileTime, left} /\ Min({FileTime, left}) <= left
      BY <3>1, LesserOf
    <3>3. FileTimeIn(left) = Min({FileTime, left}) BY DEF FileTimeIn
    <3>4. QED BY <2>2, <3>1, <3>2, <3>3
  <2>4. tick + FileTimeIn(left) \in Nat /\ tick + FileTimeIn(left) <= saver[s].since + TotalTime
    BY <1>3, <1>4, <2>3
  <2>5. rec \in SaverStates /\ rec.pc = "git" /\ rec.record = saver[s].record
        /\ rec.rest = saver[s].rest /\ rec.since = saver[s].since
        /\ rec.until = tick + FileTimeIn(left)
    BY <1>3, <2>1, <2>4 DEF SaverStates
  <2>6. ~rec.record.whole /\ (\A p \in rec.record.diffs : KeyOf[p] = p)
        /\ \A k \in rec.rest : KeyOf[k.key] = k.key
    BY <1>1, <1>3, <2>5 DEF IdsApart, KeysStored
  <2> HIDE DEF rec, left
  <2>7. QED BY <1>2, <1>3, <1>5, <2>4, <2>5, <2>6, SaverMoves
<1>8. QED BY <1>6, <1>7

LEMMA GitEndsKeeps ==
    ASSUME HistoryIInv, NEW s \in Savers, NEW found \in BOOLEAN, GitEnds(s, found)
    PROVE  HistoryIInv'
<1>1. HistoryTyped /\ IdsApart /\ KeysStored /\ BudgetKept BY DEF HistoryIInv
<1>2. PICK next \in saver[s].rest :
        saver' = [saver EXCEPT ![s].pc = "loop", ![s].rest = @ \ {next},
                     ![s].record.diffs = IF found THEN @ \union {next.key} ELSE @]
  BY DEF GitEnds
<1>3. saver[s].pc = "git" /\ UNCHANGED <<tick, written, viewer, serial>> BY DEF GitEnds
<1>4. /\ Saving(s) /\ Unwritten(s) /\ saver[s] \in SaverStates
      /\ saver[s].record \in CheckpointFile /\ saver[s].rest \in SUBSET [at : Nat, key : Paths]
      /\ saver[s].since \in Nat /\ saver[s].until \in Nat
  BY <1>1, <1>3, SaverIs DEF Saving, Unwritten
<1>5. PICK old : old = saver[s].record OBVIOUS
<1>6. PICK diffs : diffs = IF found THEN old.diffs \union {next.key} ELSE old.diffs OBVIOUS
<1> DEFINE file == [id |-> old.id, slug |-> old.slug, at |-> old.at, diffs |-> diffs,
                    whole |-> old.whole]
           rec == [pc |-> "loop", rest |-> saver[s].rest \ {next}, since |-> saver[s].since,
                   until |-> saver[s].until, record |-> file]
<1>7. next.key \in Paths /\ KeyOf[next.key] = next.key BY <1>1, <1>2, <1>4 DEF KeysStored
<1>8. /\ old \in CheckpointFile /\ ~old.whole /\ \A p \in old.diffs : KeyOf[p] = p
  BY <1>1, <1>4, <1>5 DEF IdsApart, KeysStored
<1>9. diffs \in SUBSET Paths /\ \A p \in diffs : KeyOf[p] = p
  BY <1>6, <1>7, <1>8 DEF CheckpointFile
<1>10. file \in CheckpointFile BY <1>8, <1>9 DEF CheckpointFile
<1>11. rec \in SaverStates BY <1>4, <1>10 DEF SaverStates
<1>12. saver' = [saver EXCEPT ![s] = rec]
  <2>1. saver' = [saver EXCEPT ![s] = [[saver[s] EXCEPT !.pc = "loop", !.rest = @ \ {next}]
              EXCEPT !.record = [old EXCEPT !.diffs = diffs]]]
    BY <1>1, <1>2, <1>5, <1>6 DEF HistoryTyped
  <2>2. [old EXCEPT !.diffs = diffs] = file BY <1>8 DEF CheckpointFile
  <2>3. PICK r : r = saver[s] OBVIOUS
  <2>4. PICK r1 : r1 = [r EXCEPT !.pc = "loop"] OBVIOUS
  <2>5. r1 = [pc |-> "loop", rest |-> r.rest, since |-> r.since, until |-> r.until,
              record |-> r.record]
    BY <1>4, <2>3, <2>4 DEF SaverStates
  <2>6. PICK r2 : r2 = [r1 EXCEPT !.rest = r.rest \ {next}] OBVIOUS
  <2>7. r2 = [pc |-> "loop", rest |-> r.rest \ {next}, since |-> r.since, until |-> r.until,
              record |-> r.record]
    BY <2>5, <2>6
  <2>8. [r2 EXCEPT !.record = file] = rec BY <2>3, <2>7
  <2>9. r2 = [saver[s] EXCEPT !.pc = "loop", !.rest = @ \ {next}]
    BY <1>4, <2>3, <2>4, <2>6 DEF SaverStates
  <2>10. QED BY <2>1, <2>2, <2>8, <2>9
<1>13. \A k \in rec.rest : KeyOf[k.key] = k.key BY <1>1, <1>4 DEF KeysStored
<1>14. tick <= rec.since + TotalTime BY <1>1, <1>3 DEF BudgetKept, CollectedInTime
<1>15. rec.pc = "loop" /\ rec.record.id = old.id /\ rec.record.whole = old.whole
       /\ rec.record.diffs = diffs
  OBVIOUS
<1> HIDE DEF rec, file
<1>16. QED BY <1>3, <1>4, <1>5, <1>8, <1>9, <1>11, <1>12, <1>13, <1>14, <1>15, SaverMoves

LEMMA SaverDiesKeeps ==
    ASSUME HistoryIInv, NEW s \in Savers, SaverDies(s)
    PROVE  HistoryIInv'
BY SaverMoves DEF SaverDies, Saving

LEMMA TickPassesKeeps == HistoryIInv /\ TickPasses => HistoryIInv'
<1> SUFFICES ASSUME HistoryIInv, TickPasses PROVE HistoryIInv' OBVIOUS
<1>1. HistoryTyped /\ IdsApart /\ KeysStored /\ BudgetKept BY DEF HistoryIInv
<1>2. /\ tick < LastTick /\ tick' = tick + 1 /\ UNCHANGED <<written, saver, viewer, serial>>
      /\ \A s \in Savers : saver[s].pc # "loop" /\ (saver[s].pc = "git" => tick < saver[s].until)
  BY DEF TickPasses
<1>3. LastTick \in Nat /\ TotalTime \in Nat /\ tick \in 0..LastTick
  BY <1>1, HistoryBounds DEF HistoryTyped
<1>4. HistoryTyped' BY <1>1, <1>2, <1>3 DEF HistoryTyped
<1>5. IdsApart' /\ KeysStored'
  BY <1>1, <1>2 DEF IdsApart, KeysStored, GivenIds, Saving, Unwritten, Addressable
<1>6. ASSUME NEW s \in Savers
      PROVE  /\ saver'[s].pc = "git" => saver'[s].until <= saver'[s].since + TotalTime
             /\ saver'[s].pc \in {"loop", "git"} => tick' <= saver'[s].since + TotalTime
  <2>1. CASE saver[s].pc = "git"
    <3>1. /\ saver[s].until \in Nat /\ saver[s].since \in Nat
          /\ saver[s].until <= saver[s].since + TotalTime /\ tick < saver[s].until
      BY <1>1, <1>2, <2>1, SaverIs DEF BudgetKept, Saving
    <3>2. QED BY <1>2, <1>3, <3>1
  <2>2. CASE saver[s].pc # "git" BY <1>2, <2>2
  <2>3. QED BY <2>1, <2>2
<1>7. BudgetKept' BY <1>6 DEF BudgetKept, CollectedInTime
<1>8. ASSUME NEW v \in Viewers PROVE ViewerSound(v)' /\ AnswerRight(v)' /\ ResumeRight(v)'
  BY <1>2 DEF HistoryIInv, ViewerSound, AnswerRight, ResumeRight, Searching, OfQuery, GivenIds,
              Saving, Unwritten, Refused, RefusedByScope
<1>9. QED BY <1>4, <1>5, <1>7, <1>8 DEF HistoryIInv

\* The file of a publish appears, and is whole when its last byte is written.
LEMMA OpenFileKeeps ==
    ASSUME HistoryIInv, NEW s \in Savers, OpenFile(s)
    PROVE  HistoryIInv'
<1>1. HistoryTyped /\ IdsApart /\ KeysStored /\ BudgetKept BY DEF HistoryIInv
<1>2. /\ saver[s].pc = "open" /\ written' = written \union {saver[s].record}
      /\ UNCHANGED <<tick, viewer, serial>>
  BY DEF OpenFile
<1>3. /\ Saving(s) /\ Unwritten(s) /\ saver[s] \in SaverStates /\ saver[s].record \in CheckpointFile
  BY <1>1, <1>2, SaverIs DEF Saving, Unwritten
<1>4. PICK rec : rec = [saver[s] EXCEPT !.pc = "write"] OBVIOUS
<1>5. /\ rec \in SaverStates /\ rec.pc = "write" /\ rec.record = saver[s].record
      /\ rec.rest = saver[s].rest
  BY <1>3, <1>4 DEF SaverStates
<1>6. saver' = [saver EXCEPT ![s] = rec] BY <1>4 DEF OpenFile
<1>7. saver'[s] = rec /\ \A t \in Savers : t # s => saver'[t] = saver[t]
  BY <1>1, <1>6 DEF HistoryTyped
<1>8. HistoryTyped'
  <2>1. IsFiniteSet(written') BY <1>1, <1>2, FS_AddElement DEF HistoryTyped
  <2>2. QED BY <1>1, <1>2, <1>3, <1>5, <1>6, <1>7, <2>1 DEF HistoryTyped
<1>9. GivenIds' = GivenIds BY <1>2 DEF GivenIds
<1>10. \A t \in Savers :
         /\ Saving(t)' <=> Saving(t)
         /\ Saving(t) => saver'[t].record = saver[t].record /\ saver'[t].rest = saver[t].rest
         /\ Unwritten(t)' <=> Unwritten(t) /\ t # s
  BY <1>3, <1>5, <1>7 DEF Saving, Unwritten
<1>11. IdsApart'
  <2>1. saver[s].record.id \in GivenIds BY <1>1, <1>3 DEF IdsApart, GivenIds
  <2>2. \A c \in written : c.id # saver[s].record.id BY <1>1, <1>3 DEF IdsApart
  <2>3. \A c \in written' : c.id \in GivenIds' /\ \A d \in written' : d.id = c.id => d = c
    BY <1>1, <1>2, <1>9, <2>1, <2>2 DEF IdsApart
  <2>4. ASSUME NEW t \in Savers, Saving(t)'
        PROVE  /\ saver'[t].record.id \in 1..serial' /\ ~saver'[t].record.whole
               /\ \A u \in Savers : Saving(u)' /\ saver'[u].record.id = saver'[t].record.id => u = t
    BY <1>1, <1>2, <1>10, <2>4 DEF IdsApart
  <2>5. ASSUME NEW t \in Savers, Saving(t)'
        PROVE  IF Unwritten(t)' THEN \A c \in written' : c.id # saver'[t].record.id
               ELSE saver'[t].record \in written'
    <3>1. CASE t = s BY <1>2, <1>3, <1>10, <3>1
    <3>2. CASE t # s
      <4>1. saver[t].record.id # saver[s].record.id BY <1>1, <1>3, <1>10, <2>5, <3>2 DEF IdsApart
      <4>2. IF Unwritten(t) THEN \A c \in written : c.id # saver[t].record.id
            ELSE saver[t].record \in written
        BY <1>1, <1>10, <2>5 DEF IdsApart
      <4>3. QED BY <1>2, <1>10, <2>5, <3>2, <4>1, <4>2
    <3>3. QED BY <3>1, <3>2
  <2>6. QED BY <2>3, <2>4, <2>5 DEF IdsApart
<1>12. KeysStored'
  <2>1. \A p \in saver[s].record.diffs : KeyOf[p] = p BY <1>1, <1>3 DEF KeysStored
  <2>2. QED BY <1>1, <1>2, <1>10, <2>1 DEF KeysStored, Addressable
<1>13. BudgetKept' BY <1>1, <1>2, <1>5, <1>7 DEF BudgetKept, CollectedInTime
<1>14. ASSUME NEW v \in Viewers PROVE ViewerSound(v)' /\ AnswerRight(v)' /\ ResumeRight(v)'
  <2>1. \A c \in written' :
          c \in written \/ (Unwritten(s) /\ Saving(s) /\ c.id = saver[s].record.id)
    BY <1>2, <1>3
  <2>2. \A t \in Savers : Unwritten(t) => Saving(t) BY DEF Unwritten, Saving
  <2>3. viewer'[v] = viewer[v] BY <1>2
  <2>4. QED BY <1>9, <1>10, <2>1, <2>2, <2>3, ViewerStays
<1>15. QED BY <1>8, <1>11, <1>12, <1>13, <1>14 DEF HistoryIInv

LEMMA WriteFileKeeps ==
    ASSUME HistoryIInv, NEW s \in Savers, WriteFile(s)
    PROVE  HistoryIInv'
<1>1. HistoryTyped /\ IdsApart /\ KeysStored /\ BudgetKept BY DEF HistoryIInv
<1>2. PICK old : old = saver[s].record OBVIOUS
<1>3. PICK new : new = [old EXCEPT !.whole = TRUE] OBVIOUS
<1>4. /\ saver[s].pc = "write" /\ written' = (written \ {old}) \union {new}
      /\ saver' = [saver EXCEPT ![s] = Away] /\ UNCHANGED <<tick, viewer, serial>>
  BY <1>2, <1>3 DEF WriteFile
<1>5. /\ Saving(s) /\ ~Unwritten(s) /\ old \in CheckpointFile
  BY <1>1, <1>2, <1>4, SaverIs DEF Saving, Unwritten
<1>6. /\ new \in CheckpointFile /\ new.id = old.id /\ new.slug = old.slug /\ new.diffs = old.diffs
  BY <1>3, <1>5 DEF CheckpointFile
<1>7. old \in written /\ \A c \in written : c.id = old.id => c = old
  BY <1>1, <1>2, <1>5 DEF IdsApart
<1>8. saver'[s] = Away /\ \A t \in Savers : t # s => saver'[t] = saver[t]
  BY <1>1, <1>4 DEF HistoryTyped
<1>9. Away.pc = "away" BY DEF Away
<1>10. HistoryTyped'
  <2>1. IsFiniteSet(written') BY <1>1, <1>4, FS_AddElement, FS_RemoveElement DEF HistoryTyped
  <2>2. QED BY <1>1, <1>4, <1>6, <1>8, <2>1 DEF HistoryTyped
<1>11. GivenIds' = GivenIds BY <1>4 DEF GivenIds
<1>12. \A t \in Savers :
         /\ Saving(t)' <=> Saving(t) /\ t # s
         /\ Unwritten(t)' <=> Unwritten(t)
         /\ t # s => saver'[t] = saver[t]
  BY <1>5, <1>8, <1>9 DEF Saving, Unwritten
<1>13. IdsApart'
  <2>1. \A c \in written' : c.id \in GivenIds' /\ \A d \in written' : d.id = c.id => d = c
    BY <1>1, <1>4, <1>6, <1>7, <1>11 DEF IdsApart
  <2>2. ASSUME NEW t \in Savers, Saving(t)'
        PROVE  /\ saver'[t].record.id \in 1..serial' /\ ~saver'[t].record.whole
               /\ \A u \in Savers : Saving(u)' /\ saver'[u].record.id = saver'[t].record.id => u = t
    BY <1>1, <1>4, <1>12, <2>2 DEF IdsApart
  <2>3. ASSUME NEW t \in Savers, Saving(t)'
        PROVE  IF Unwritten(t)' THEN \A c \in written' : c.id # saver'[t].record.id
               ELSE saver'[t].record \in written'
    <3>1. /\ t # s /\ Saving(t) /\ saver'[t] = saver[t] /\ saver[t].record.id # old.id
      BY <1>1, <1>2, <1>5, <1>12, <2>3 DEF IdsApart
    <3>2. IF Unwritten(t) THEN \A c \in written : c.id # saver[t].record.id
          ELSE saver[t].record \in written
      BY <1>1, <3>1 DEF IdsApart
    <3>3. QED BY <1>4, <1>6, <1>12, <3>1, <3>2
  <2>4. QED BY <2>1, <2>2, <2>3 DEF IdsApart
<1>14. KeysStored' BY <1>1, <1>4, <1>6, <1>7, <1>12 DEF KeysStored, Addressable
<1>15. BudgetKept' BY <1>1, <1>4, <1>8, <1>9 DEF BudgetKept, CollectedInTime
<1>16. ASSUME NEW v \in Viewers PROVE ViewerSound(v)' /\ AnswerRight(v)' /\ ResumeRight(v)'
  <2>1. ASSUME NEW c \in written', c \notin written
        PROVE  /\ Saving(s) /\ c.id = saver[s].record.id
               /\ \E d \in written : d.id = c.id /\ d.slug = c.slug
    BY <1>2, <1>4, <1>5, <1>6, <1>7, <2>1
  <2>2. viewer'[v] = viewer[v] BY <1>4
  <2>3. \A t \in Savers : Unwritten(t) => Saving(t) /\ t # s BY <1>5 DEF Unwritten, Saving
  <2>4. QED BY <1>11, <1>12, <2>1, <2>2, <2>3, ViewerStays
<1>17. QED BY <1>10, <1>13, <1>14, <1>15, <1>16 DEF HistoryIInv

\* A pruned file is no longer waited for.
LEMMA PruneKeeps ==
    ASSUME HistoryIInv, NEW c \in written, Prune(c)
    PROVE  HistoryIInv'
<1>1. HistoryTyped /\ IdsApart /\ KeysStored /\ BudgetKept BY DEF HistoryIInv
<1>2. /\ c.whole /\ written' = written \ {c} /\ UNCHANGED <<tick, saver, serial>>
      /\ viewer' = [v \in Viewers |->
            IF viewer[v].pc \in {"scan", "seek"} THEN [viewer[v] EXCEPT !.there = @ \ {c.id}]
            ELSE viewer[v]]
  BY DEF Prune
<1>3. HistoryTyped'
  <2>1. IsFiniteSet(written') BY <1>1, <1>2, FS_RemoveElement DEF HistoryTyped
  <2>2. QED BY <1>1, <1>2, <2>1 DEF HistoryTyped
<1>4. IdsApart'
  <2>1. \A s \in Savers : Saving(s) /\ ~Unwritten(s) => saver[s].record # c
    BY <1>1, <1>2 DEF IdsApart
  <2>2. QED BY <1>1, <1>2, <2>1 DEF IdsApart, Saving, Unwritten, GivenIds
<1>5. KeysStored' /\ BudgetKept'
  BY <1>1, <1>2 DEF KeysStored, Addressable, Saving, BudgetKept, CollectedInTime
<1>6. ASSUME NEW v \in Viewers PROVE ViewerSound(v)' /\ AnswerRight(v)' /\ ResumeRight(v)'
  <2>1. ViewerSound(v) /\ AnswerRight(v) /\ ResumeRight(v) BY DEF HistoryIInv
  <2>2. CASE ~Searching(v)
    <3>1. viewer'[v] = viewer[v] BY <1>2, <2>2 DEF Searching
    <3>2. written' \subseteq written BY <1>2
    <3>3. GivenIds' = GivenIds /\ saver' = saver BY <1>2 DEF GivenIds
    <3>4. QED BY <3>1, <3>2, <3>3, ViewerStays DEF Saving, Unwritten
  <2>3. CASE Searching(v)
    <3>1. PICK a : a = viewer[v] OBVIOUS
    <3>2. PICK b : b = [a EXCEPT !.there = @ \ {c.id}] OBVIOUS
    <3>3. viewer'[v] = b BY <1>2, <2>3, <3>1, <3>2 DEF Searching
    <3>4. a.pc = "scan" => a \in ScanStates BY <2>1, <3>1 DEF ViewerSound
    <3>5. a.pc = "seek" => a \in SeekStates BY <2>1, <3>1 DEF ViewerSound
    <3>6. a.pc \in {"scan", "seek"} BY <2>3, <3>1 DEF Searching
    <3>7. /\ b.pc = a.pc /\ b.todo = a.todo /\ b.read = a.read /\ b.there = a.there \ {c.id}
          /\ b.pc = "scan" => b \in ScanStates /\ b.query = a.query
          /\ b.pc = "seek" => b \in SeekStates /\ b.slug = a.slug
      BY <3>2, <3>4, <3>5, <3>6 DEF ScanStates, SeekStates
    <3>8. \A slug : OfQuery(v, slug) <=> IF a.pc = "scan" THEN slug \in Directories(a.query.slug)
                                        ELSE slug = a.slug
      BY <3>1 DEF OfQuery
    <3>9. \A slug : OfQuery(v, slug)' <=> IF a.pc = "scan" THEN slug \in Directories(a.query.slug)
                                         ELSE slug = a.slug
      BY <3>3, <3>6, <3>7 DEF OfQuery
    <3>10. /\ a.there \subseteq GivenIds /\ a.todo \subseteq GivenIds
           /\ \A s \in Savers : Saving(s) => saver[s].record.id \notin a.there
           /\ \A s \in Savers : Unwritten(s) => saver[s].record.id \notin a.todo
           /\ IsFiniteSet(a.read) /\ \A d \in a.read : d.whole /\ OfQuery(v, d.slug)
           /\ \A d \in written : /\ d.id \in a.todo => OfQuery(v, d.slug)
                                 /\ d.id \in a.there => d.whole /\ (d.id \in a.todo \/ d \in a.read)
      BY <2>1, <2>3, <3>1, <3>6 DEF ViewerSound
    <3>11. ViewerSound(v)'
      <4>1. /\ b.there \subseteq GivenIds' /\ b.todo \subseteq GivenIds'
            /\ \A s \in Savers : Saving(s)' => saver'[s].record.id \notin b.there
            /\ \A s \in Savers : Unwritten(s)' => saver'[s].record.id \notin b.todo
        BY <1>2, <3>7, <3>10 DEF GivenIds, Saving, Unwritten
      <4>2. /\ IsFiniteSet(b.read) /\ \A d \in b.read : d.whole /\ OfQuery(v, d.slug)'
            /\ \A d \in written' : /\ d.id \in b.todo => OfQuery(v, d.slug)'
                                   /\ d.id \in b.there =>
                                         d.whole /\ (d.id \in b.todo \/ d \in b.read)
        BY <1>2, <3>7, <3>8, <3>9, <3>10
      <4>3. QED BY <3>3, <3>6, <3>7, <4>1, <4>2 DEF ViewerSound
    <3>12. QED BY <3>3, <3>6, <3>7, <3>11 DEF AnswerRight, ResumeRight
  <2>4. QED BY <2>2, <2>3
<1>7. QED BY <1>3, <1>4, <1>5, <1>6 DEF HistoryIInv

-----------------------------------------------------------------------------
\* A step of one viewer leaves everything else as it is.
LEMMA ViewerMoves ==
    ASSUME HistoryIInv, NEW v \in Viewers, NEW rec,
           viewer' = [viewer EXCEPT ![v] = rec], UNCHANGED <<tick, written, saver, serial>>,
           viewer'[v] = rec => ViewerSound(v)' /\ AnswerRight(v)' /\ ResumeRight(v)'
    PROVE  HistoryIInv'
<1>1. HistoryTyped /\ IdsApart /\ KeysStored /\ BudgetKept BY DEF HistoryIInv
<1>2. viewer'[v] = rec /\ \A w \in Viewers : w # v => viewer'[w] = viewer[w]
  BY <1>1 DEF HistoryTyped
<1>3. HistoryTyped' BY <1>1 DEF HistoryTyped
<1>4. IdsApart' /\ KeysStored' /\ BudgetKept'
  BY <1>1 DEF IdsApart, KeysStored, Addressable, BudgetKept, CollectedInTime, Saving, Unwritten,
              GivenIds
<1>5. ASSUME NEW w \in Viewers PROVE ViewerSound(w)' /\ AnswerRight(w)' /\ ResumeRight(w)'
  <2>1. CASE w = v BY <1>2, <2>1
  <2>2. CASE w # v
    <3>1. viewer'[w] = viewer[w] BY <1>2, <2>2
    <3>2. GivenIds' = GivenIds /\ saver' = saver /\ written' = written BY DEF GivenIds
    <3>3. QED BY <3>1, <3>2, ViewerStays DEF Saving, Unwritten
  <2>3. QED BY <2>1, <2>2
<1>6. QED BY <1>3, <1>4, <1>5 DEF HistoryIInv

\* The files a search begins with, and those of them that are whole.
IdsOf(files) == {c.id : c \in files}
WholeIdsOf(files) == {c.id : c \in {d \in files : d.whole}}

LEMMA SearchBegins ==
    ASSUME IdsApart, HistoryTyped, NEW files, files \subseteq written
    PROVE  /\ IdsOf(files) \subseteq GivenIds /\ WholeIdsOf(files) \subseteq GivenIds
           /\ IdsOf(files) \subseteq CheckpointIds /\ WholeIdsOf(files) \subseteq CheckpointIds
           /\ \A s \in Savers : Saving(s) => saver[s].record.id \notin WholeIdsOf(files)
           /\ \A s \in Savers : Unwritten(s) => saver[s].record.id \notin IdsOf(files)
           /\ \A c \in written : /\ c.id \in IdsOf(files) => c \in files
                                 /\ c.id \in WholeIdsOf(files) => c.whole /\ c.id \in IdsOf(files)
<1>1. WholeIdsOf(files) \subseteq IdsOf(files) BY DEF IdsOf, WholeIdsOf
<1>2. IdsOf(files) \subseteq GivenIds BY DEF IdsApart, IdsOf
<1>3. IdsOf(files) \subseteq CheckpointIds BY DEF HistoryTyped, CheckpointFile, IdsOf
<1>4. ASSUME NEW c \in written
      PROVE  /\ c.id \in IdsOf(files) => c \in files
             /\ c.id \in WholeIdsOf(files) => c.whole /\ c.id \in IdsOf(files)
  <2>1. \A d \in files : d.id = c.id => d = c BY DEF IdsApart
  <2>2. QED BY <1>1, <2>1 DEF IdsOf, WholeIdsOf
<1>5. ASSUME NEW s \in Savers, Unwritten(s) PROVE saver[s].record.id \notin IdsOf(files)
  BY <1>5 DEF IdsApart, Unwritten, Saving, IdsOf
<1>6. ASSUME NEW s \in Savers, Saving(s) PROVE saver[s].record.id \notin WholeIdsOf(files)
  <2>1. CASE Unwritten(s) BY <1>1, <1>5, <2>1
  <2>2. CASE ~Unwritten(s)
    <3>1. saver[s].record \in written /\ ~saver[s].record.whole BY <1>6, <2>2 DEF IdsApart
    <3>2. QED BY <1>4, <3>1
  <2>3. QED BY <2>1, <2>2
<1>7. QED BY <1>1, <1>2, <1>3, <1>4, <1>5, <1>6

LEMMA AskHistoryKeeps ==
    ASSUME HistoryIInv, NEW v \in Viewers, NEW slug \in Slugs \union {Everywhere},
           NEW scope \in Claims, NEW path \in Selectors, AskHistory(v, slug, scope, path)
    PROVE  HistoryIInv'
<1>1. HistoryTyped /\ IdsApart BY DEF HistoryIInv
<1>2. PICK q : q = [slug |-> slug, scope |-> scope, path |-> path] OBVIOUS
<1>3. PICK files : files = {c \in written : c.slug \in Directories(slug)} OBVIOUS
<1>4. PICK todo, there : todo = IdsOf(files) /\ there = WholeIdsOf(files) OBVIOUS
<1>4a. /\ there \subseteq GivenIds /\ todo \subseteq GivenIds
       /\ todo \subseteq CheckpointIds /\ there \subseteq CheckpointIds
       /\ \A s \in Savers : Saving(s) => saver[s].record.id \notin there
       /\ \A s \in Savers : Unwritten(s) => saver[s].record.id \notin todo
       /\ \A c \in written : /\ c.id \in todo => c \in files
                             /\ c.id \in there => c.whole /\ c.id \in todo
  <2>1. files \subseteq written BY <1>3
  <2>2. QED BY <1>1, <1>4, <2>1, SearchBegins
<1>5. UNCHANGED <<tick, written, saver, serial>> BY DEF AskHistory
<1>6. CASE Refused(q)
  <2> DEFINE rec == [pc |-> "answered", query |-> q, there |-> {}, cut |-> FALSE, items |-> {}]
  <2>1. viewer' = [viewer EXCEPT ![v] = rec] BY <1>2, <1>6 DEF AskHistory
  <2>2. ASSUME viewer'[v] = rec PROVE ViewerSound(v)' /\ AnswerRight(v)' /\ ResumeRight(v)'
    <3>1. viewer'[v].pc = "answered" /\ viewer'[v].there = {} /\ viewer'[v].items = {}
          /\ viewer'[v].query = q
      BY <2>2
    <3>2. ViewerSound(v)' /\ ResumeRight(v)' BY <3>1 DEF ViewerSound, Searching, ResumeRight
    <3>3. AnswerRight(v)' BY <1>6, <3>1 DEF AnswerRight, Refused, RefusedByScope
    <3>4. QED BY <3>2, <3>3
  <2> HIDE DEF rec
  <2>3. QED BY <1>5, <2>1, <2>2, ViewerMoves
<1>7. CASE ~Refused(q)
  <2> DEFINE rec == [pc |-> "scan", query |-> q, todo |-> todo, read |-> {}, there |-> there]
  <2>1. viewer' = [viewer EXCEPT ![v] = rec] BY <1>2, <1>3, <1>4, <1>7
      DEF AskHistory, IdsOf, WholeIdsOf
  <2>2. rec \in ScanStates
    <3>1. q \in Queries BY <1>2, <1>7 DEF Queries
    <3>2. QED BY <1>4a, <3>1 DEF ScanStates
  <2>3. ASSUME viewer'[v] = rec PROVE ViewerSound(v)' /\ AnswerRight(v)' /\ ResumeRight(v)'
    <3>1. /\ viewer'[v].pc = "scan" /\ viewer'[v].there = there /\ viewer'[v].todo = todo
          /\ viewer'[v].read = {} /\ viewer'[v].query.slug = slug
      BY <1>2, <2>3
    <3>2. GivenIds' = GivenIds BY <1>5 DEF GivenIds
    <3>3. \A c \in written : c \in files => OfQuery(v, c.slug)' BY <1>3, <3>1 DEF OfQuery
    <3>4. IsFiniteSet({}) BY FS_EmptySet
    <3>5. ViewerSound(v)'
      BY <1>4a, <1>5, <2>2, <2>3, <3>1, <3>2, <3>3, <3>4
      DEF ViewerSound, Searching, Saving, Unwritten
    <3>6. QED BY <3>1, <3>5 DEF AnswerRight, ResumeRight
  <2> HIDE DEF rec
  <2>4. QED BY <1>5, <2>1, <2>3, ViewerMoves
<1>8. QED BY <1>6, <1>7

LEMMA ResumeKeeps ==
    ASSUME HistoryIInv, NEW v \in Viewers, NEW slug \in Slugs, Resume(v, slug)
    PROVE  HistoryIInv'
<1>1. HistoryTyped /\ IdsApart BY DEF HistoryIInv
<1>2. PICK files : files = {c \in written : c.slug = slug} OBVIOUS
<1>3. PICK todo, there : todo = IdsOf(files) /\ there = WholeIdsOf(files) OBVIOUS
<1>3a. /\ there \subseteq GivenIds /\ todo \subseteq GivenIds
       /\ todo \subseteq CheckpointIds /\ there \subseteq CheckpointIds
       /\ \A s \in Savers : Saving(s) => saver[s].record.id \notin there
       /\ \A s \in Savers : Unwritten(s) => saver[s].record.id \notin todo
       /\ \A c \in written : /\ c.id \in todo => c \in files
                             /\ c.id \in there => c.whole /\ c.id \in todo
  <2>1. files \subseteq written BY <1>2
  <2>2. QED BY <1>1, <1>3, <2>1, SearchBegins
<1>4. UNCHANGED <<tick, written, saver, serial>> BY DEF Resume
<1> DEFINE rec == [pc |-> "seek", slug |-> slug, todo |-> todo, read |-> {}, there |-> there]
<1>5. viewer' = [viewer EXCEPT ![v] = rec] BY <1>2, <1>3 DEF Resume, IdsOf, WholeIdsOf
<1>6. rec \in SeekStates BY <1>3a DEF SeekStates
<1>7. ASSUME viewer'[v] = rec PROVE ViewerSound(v)' /\ AnswerRight(v)' /\ ResumeRight(v)'
  <2>1. /\ viewer'[v].pc = "seek" /\ viewer'[v].there = there /\ viewer'[v].todo = todo
        /\ viewer'[v].read = {} /\ viewer'[v].slug = slug
    BY <1>7
  <2>2. GivenIds' = GivenIds BY <1>4 DEF GivenIds
  <2>3. \A c \in written : c \in files => OfQuery(v, c.slug)' BY <1>2, <2>1 DEF OfQuery
  <2>4. IsFiniteSet({}) BY FS_EmptySet
  <2>5. ViewerSound(v)'
    BY <1>3a, <1>4, <1>6, <1>7, <2>1, <2>2, <2>3, <2>4 DEF ViewerSound, Searching, Saving, Unwritten
  <2>6. QED BY <2>1, <2>5 DEF AnswerRight, ResumeRight
<1> HIDE DEF rec
<1>8. QED BY <1>4, <1>5, <1>7, ViewerMoves

\* A file that is read whole was the query's, and what is not read is not whole or is gone.
LEMMA ReadFileKeeps ==
    ASSUME HistoryIInv, NEW v \in Viewers, NEW id, ReadFile(v, id)
    PROVE  HistoryIInv'
<1>1. HistoryTyped /\ IdsApart /\ ViewerSound(v) BY DEF HistoryIInv
<1>2. PICK a : a = viewer[v] OBVIOUS
<1>3. PICK new : new = {c \in written : c.id = id /\ c.whole} OBVIOUS
<1>4. PICK b : b = [a EXCEPT !.todo = @ \ {id}, !.read = @ \union new] OBVIOUS
<1>5. /\ a.pc \in {"scan", "seek"} /\ id \in a.todo /\ UNCHANGED <<tick, written, saver, serial>>
  BY <1>2 DEF ReadFile
<1>6. viewer' = [viewer EXCEPT ![v] = b] BY <1>1, <1>2, <1>3, <1>4 DEF ReadFile, HistoryTyped
<1>7. new \subseteq CheckpointFile /\ IsFiniteSet(new)
  BY <1>1, <1>3, FS_Subset DEF HistoryTyped
<1>8. /\ a.pc = "scan" => a \in ScanStates
      /\ a.pc = "seek" => a \in SeekStates
  BY <1>1, <1>2 DEF ViewerSound
<1>9. /\ b.pc = a.pc /\ b.todo = a.todo \ {id} /\ b.read = a.read \union new
      /\ b.there = a.there
      /\ b.pc = "scan" => b \in ScanStates /\ b.query = a.query
      /\ b.pc = "seek" => b \in SeekStates /\ b.slug = a.slug
  BY <1>4, <1>5, <1>7, <1>8 DEF ScanStates, SeekStates
<1>10. ASSUME viewer'[v] = b PROVE ViewerSound(v)' /\ AnswerRight(v)' /\ ResumeRight(v)'
  <2>1. \A slug : OfQuery(v, slug)' <=> OfQuery(v, slug)
    BY <1>2, <1>5, <1>9, <1>10 DEF OfQuery
  <2>2. GivenIds' = GivenIds BY <1>5 DEF GivenIds
  <2>3. /\ a.there \subseteq GivenIds /\ a.todo \subseteq GivenIds
        /\ \A s \in Savers : Saving(s) => saver[s].record.id \notin a.there
        /\ \A s \in Savers : Unwritten(s) => saver[s].record.id \notin a.todo
        /\ IsFiniteSet(a.read) /\ \A d \in a.read : d.whole /\ OfQuery(v, d.slug)
        /\ \A d \in written : /\ d.id \in a.todo => OfQuery(v, d.slug)
                              /\ d.id \in a.there => d.whole /\ (d.id \in a.todo \/ d \in a.read)
    BY <1>1, <1>2, <1>5 DEF ViewerSound, Searching
  <2>4. /\ b.there \subseteq GivenIds' /\ b.todo \subseteq GivenIds'
        /\ \A s \in Savers : Saving(s)' => saver'[s].record.id \notin b.there
        /\ \A s \in Savers : Unwritten(s)' => saver'[s].record.id \notin b.todo
    BY <1>5, <1>9, <2>2, <2>3 DEF Saving, Unwritten
  <2>5. IsFiniteSet(b.read)
    <3>1. IsFiniteSet(a.read) BY <2>3
    <3>2. IsFiniteSet(a.read \union new) BY <1>7, <3>1, FS_Union
    <3>3. QED BY <1>9, <3>2
  <2>6. \A d \in b.read : d.whole /\ OfQuery(v, d.slug)'
    BY <1>3, <1>5, <1>9, <2>1, <2>3
  <2>7. \A d \in written' : /\ d.id \in b.todo => OfQuery(v, d.slug)'
                            /\ d.id \in b.there => d.whole /\ (d.id \in b.todo \/ d \in b.read)
    BY <1>3, <1>5, <1>9, <2>1, <2>3
  <2>8. ViewerSound(v)'
    BY <1>5, <1>9, <1>10, <2>4, <2>5, <2>6, <2>7 DEF ViewerSound
  <2>9. QED BY <1>5, <1>9, <1>10, <2>8 DEF AnswerRight, ResumeRight
<1>11. QED BY <1>5, <1>6, <1>10, ViewerMoves

\* A prefix that is shorter than it may be is everything.
LEMMA FirstOfIsAll ==
    ASSUME NEW records, IsFiniteSet(records), NEW n \in Nat, NEW newest \in BOOLEAN,
           NEW first \in FirstOf(records, n, newest)
    PROVE  /\ first \subseteq records /\ Cardinality(records) \in Nat
           /\ Cardinality(first) \in Nat
           /\ Cardinality(records) <= n \/ Cardinality(first) # n => first = records
<1>1. first \subseteq records /\ Cardinality(first) = Min({n, Cardinality(records)})
  BY DEF FirstOf
<1>2. Cardinality(records) \in Nat BY FS_CardinalityType
<1>3. /\ IsFiniteSet(first) /\ Cardinality(first) <= Cardinality(records)
      /\ Cardinality(first) = Cardinality(records) => first = records
  BY <1>1, FS_Subset
<1>4. Cardinality(first) \in Nat BY <1>3, FS_CardinalityType
<1>5. /\ Min({n, Cardinality(records)}) \in {n, Cardinality(records)}
      /\ Min({n, Cardinality(records)}) <= n
  BY <1>2, LesserOf
<1>6. QED BY <1>1, <1>2, <1>3, <1>4, <1>5

LEMMA AnswerQueryKeeps ==
    ASSUME HistoryIInv, NEW v \in Viewers, AnswerQuery(v)
    PROVE  HistoryIInv'
<1>1. HistoryTyped /\ IdsApart /\ ViewerSound(v) BY DEF HistoryIInv
<1> DEFINE a == viewer[v]
           q == a.query
           n == IF q.path = NoKey THEN PageLimit ELSE ScanLimit
<1>2. a = viewer[v] OBVIOUS
<1>3. q = a.query OBVIOUS
<1>4. n = IF q.path = NoKey THEN PageLimit ELSE ScanLimit OBVIOUS
<1>5. a.pc = "scan" /\ a.todo = {} /\ UNCHANGED <<tick, written, saver, serial>>
  BY <1>2 DEF AnswerQuery
<1>6. PICK seen \in FirstOf(a.read, n, TRUE) :
      \E page \in IF q.path = NoKey THEN {{c \in seen : InScope(q.scope, c.slug)}}
                 ELSE FirstOf({c \in {d \in seen : InScope(q.scope, d.slug)} : q.path \in c.diffs},
                              PageLimit, FALSE) :
         viewer' = [viewer EXCEPT ![v] =
            [pc |-> "answered", query |-> q, there |-> a.there,
             cut |-> Cardinality(a.read) > ScanLimit \/ Cardinality(page) = PageLimit,
             items |-> {Shown(c, q) : c \in page}]]
  BY DEF AnswerQuery
<1> HIDE DEF n, q, a
<1>7. PICK allowed : allowed = {c \in seen : InScope(q.scope, c.slug)} OBVIOUS
<1>8. PICK match : match = {c \in allowed : q.path \in c.diffs} OBVIOUS
<1>9. PICK page : /\ page \in IF q.path = NoKey THEN {allowed} ELSE FirstOf(match, PageLimit, FALSE)
                  /\ viewer' = [viewer EXCEPT ![v] =
                       [pc |-> "answered", query |-> q, there |-> a.there,
                        cut |-> Cardinality(a.read) > ScanLimit \/ Cardinality(page) = PageLimit,
                        items |-> {Shown(c, q) : c \in page}]]
  BY <1>6, <1>7, <1>8
<1>10. PICK cut : cut = (Cardinality(a.read) > ScanLimit \/ Cardinality(page) = PageLimit) OBVIOUS
<1>10a. ~cut => ~(Cardinality(a.read) > ScanLimit) /\ Cardinality(page) # PageLimit BY <1>10
<1>11. PICK items : items = {Shown(c, q) : c \in page} OBVIOUS
<1> DEFINE rec == [pc |-> "answered", query |-> q, there |-> a.there, cut |-> cut, items |-> items]
<1>12. viewer' = [viewer EXCEPT ![v] = rec] BY <1>9, <1>10, <1>11
<1>13. PageLimit \in Nat /\ ScanLimit \in Nat /\ n \in Nat BY <1>4, HistoryBounds
<1>14. /\ a \in ScanStates /\ a.there \subseteq GivenIds /\ IsFiniteSet(a.read)
       /\ \A s \in Savers : Saving(s) => saver[s].record.id \notin a.there
       /\ \A c \in written : c.id \in a.there => c \in a.read
  BY <1>1, <1>2, <1>5 DEF ViewerSound, Searching
<1>15. q \in Queries BY <1>3, <1>14 DEF ScanStates
<1>16. ~Refused(q) BY <1>15 DEF Queries
<1>17. /\ seen \subseteq a.read /\ Cardinality(a.read) \in Nat
       /\ Cardinality(a.read) <= n => seen = a.read
  BY <1>13, <1>14, FirstOfIsAll
<1>18. IsFiniteSet(match) BY <1>7, <1>8, <1>14, <1>17, FS_Subset
<1>19. ASSUME q.path # NoKey
       PROVE  page \subseteq match /\ (Cardinality(page) # PageLimit => page = match)
  <2>1. page \in FirstOf(match, PageLimit, FALSE) BY <1>9, <1>19
  <2>2. QED BY <1>13, <1>18, <2>1, FirstOfIsAll
<1>20. page \subseteq allowed BY <1>8, <1>9, <1>19
<1>21. ASSUME NEW i \in items
       PROVE  InScope(q.scope, i.slug) /\ i.diffs \intersect Secret = {}
  <2>1. PICK c \in page : i = Shown(c, q) BY <1>11, <1>21
  <2>2. i.slug = c.slug /\ i.diffs = IF q.path = NoKey THEN {} ELSE {q.path} BY <2>1 DEF Shown
  <2>3. InScope(q.scope, c.slug) BY <1>7, <1>20
  <2>4. q.path \notin Secret BY <1>16 DEF Refused
  <2>5. QED BY <2>2, <2>3, <2>4
<1>22. ASSUME q.path # NoKey, ~cut, NEW c \in written, c.id \in a.there, q.path \in c.diffs,
              InScope(q.scope, c.slug)
       PROVE  c.id \in {i.id : i \in items}
  <2>1. seen = a.read
    <3>1. n = ScanLimit BY <1>4, <1>22
    <3>2. ~(Cardinality(a.read) > n) BY <1>10a, <1>22, <3>1
    <3>3. QED BY <1>13, <1>17, <3>2
  <2>2. page = match BY <1>10a, <1>19, <1>22
  <2>3. c \in page BY <1>7, <1>8, <1>14, <1>22, <2>1, <2>2
  <2>4. Shown(c, q) \in items /\ Shown(c, q).id = c.id BY <1>11, <2>3 DEF Shown
  <2>5. QED BY <2>4
<1>23. ASSUME viewer'[v] = rec PROVE ViewerSound(v)' /\ AnswerRight(v)' /\ ResumeRight(v)'
  <2>1. /\ viewer'[v].pc = "answered" /\ viewer'[v].there = a.there /\ viewer'[v].query = q
        /\ viewer'[v].cut = cut /\ viewer'[v].items = items
    BY <1>23
  <2>2. GivenIds' = GivenIds BY <1>5 DEF GivenIds
  <2>3. ViewerSound(v)' /\ ResumeRight(v)'
    BY <1>5, <1>14, <2>1, <2>2 DEF ViewerSound, ResumeRight, Searching, Saving
  <2>4. AnswerRight(v)' BY <1>5, <1>21, <1>22, <2>1 DEF AnswerRight
  <2>5. QED BY <2>3, <2>4
<1> HIDE DEF rec
<1>24. QED BY <1>5, <1>12, <1>23, ViewerMoves

LEMMA TakeLatestKeeps ==
    ASSUME HistoryIInv, NEW v \in Viewers, TakeLatest(v)
    PROVE  HistoryIInv'
<1>1. HistoryTyped /\ IdsApart /\ ViewerSound(v) BY DEF HistoryIInv
<1>2. PICK a : a = viewer[v] OBVIOUS
<1>3. a.pc = "seek" /\ a.todo = {} /\ UNCHANGED <<tick, written, saver, serial>>
  BY <1>2 DEF TakeLatest
<1>4. PICK found \in FirstOf(a.read, 1, TRUE) :
        viewer' = [viewer EXCEPT ![v] =
           [pc |-> "resumed", slug |-> @.slug, there |-> @.there, found |-> found]]
  BY <1>2 DEF TakeLatest, Latest
<1> DEFINE rec == [pc |-> "resumed", slug |-> a.slug, there |-> a.there, found |-> found]
<1>5. viewer' = [viewer EXCEPT ![v] = rec] BY <1>1, <1>2, <1>4 DEF HistoryTyped
<1>6. /\ a \in SeekStates /\ a.there \subseteq GivenIds /\ IsFiniteSet(a.read)
      /\ \A s \in Savers : Saving(s) => saver[s].record.id \notin a.there
      /\ \A c \in a.read : c.whole /\ c.slug = a.slug
      /\ \A c \in written : c.id \in a.there => c \in a.read
  BY <1>1, <1>2, <1>3 DEF ViewerSound, Searching, OfQuery
<1>7. /\ found \subseteq a.read /\ Cardinality(found) \in Nat /\ Cardinality(a.read) \in Nat
      /\ Cardinality(a.read) <= 1 \/ Cardinality(found) # 1 => found = a.read
  <2>1. PICK n : n = 1 OBVIOUS
  <2>2. n \in Nat /\ found \in FirstOf(a.read, n, TRUE) BY <1>4, <2>1
  <2>3. IsFiniteSet(a.read) BY <1>6
  <2>4. QED BY <2>1, <2>2, <2>3, FirstOfIsAll
<1>8. ASSUME NEW c \in a.read PROVE \E f \in found : f.at >= c.at
  <2>1. a.read \subseteq CheckpointFile BY <1>6 DEF SeekStates
  <2>2. LastTick \in Int BY HistoryBounds
  <2>3. \A d \in a.read : d.at \in Int BY <2>1, <2>2 DEF CheckpointFile
  <2>4. CASE c \in found BY <2>3, <2>4
  <2>5. CASE c \notin found
    <3>1. Cardinality(found) = 1 BY <1>7, <2>5
    <3>2. Cardinality({}) = 0 BY FS_EmptySet
    <3>3. PICK f : f \in found BY <3>1, <3>2
    <3>4. \A d \in found, e \in a.read \ found : d.at >= e.at BY <1>4 DEF FirstOf
    <3>5. QED BY <2>5, <3>3, <3>4
  <2>6. QED BY <2>4, <2>5
<1>9. ASSUME viewer'[v] = rec PROVE ViewerSound(v)' /\ AnswerRight(v)' /\ ResumeRight(v)'
  <2>1. /\ viewer'[v].pc = "resumed" /\ viewer'[v].there = a.there /\ viewer'[v].slug = a.slug
        /\ viewer'[v].found = found
    BY <1>9
  <2>2. GivenIds' = GivenIds BY <1>3 DEF GivenIds
  <2>3. ViewerSound(v)' /\ AnswerRight(v)'
    BY <1>3, <1>6, <2>1, <2>2 DEF ViewerSound, AnswerRight, Searching, Saving
  <2>4. ResumeRight(v)' BY <1>3, <1>6, <1>7, <1>8, <2>1 DEF ResumeRight
  <2>5. QED BY <2>3, <2>4
<1> HIDE DEF rec
<1>10. QED BY <1>3, <1>5, <1>9, ViewerMoves

LEMMA ResumeNamedKeeps ==
    ASSUME HistoryIInv, NEW v \in Viewers, NEW slug \in Slugs, NEW id, ResumeNamed(v, slug, id)
    PROVE  HistoryIInv'
<1>1. PICK found : found = {c \in written : c.id = id /\ c.slug = slug /\ c.whole} OBVIOUS
<1> DEFINE rec == [pc |-> "resumed", slug |-> slug, there |-> {}, found |-> found]
<1>2. viewer' = [viewer EXCEPT ![v] = rec] /\ UNCHANGED <<tick, written, saver, serial>>
  BY <1>1 DEF ResumeNamed
<1>3. ASSUME viewer'[v] = rec PROVE ViewerSound(v)' /\ AnswerRight(v)' /\ ResumeRight(v)'
  <2>1. /\ viewer'[v].pc = "resumed" /\ viewer'[v].there = {} /\ viewer'[v].slug = slug
        /\ viewer'[v].found = found
    BY <1>3
  <2>2. ViewerSound(v)' /\ AnswerRight(v)' BY <2>1 DEF ViewerSound, AnswerRight, Searching
  <2>3. ResumeRight(v)' BY <1>1, <2>1 DEF ResumeRight
  <2>4. QED BY <2>2, <2>3
<1> HIDE DEF rec
<1>4. QED BY <1>2, <1>3, ViewerMoves

LEMMA HistorySteps == HistoryIInv /\ [HistoryNext]_historyVars => HistoryIInv'
<1> SUFFICES ASSUME HistoryIInv, [HistoryNext]_historyVars PROVE HistoryIInv' OBVIOUS
<1>1. ASSUME NEW s \in Savers, NEW slug \in Slugs, NEW files \in Touched,
             BeginSave(s, slug, files)
      PROVE  HistoryIInv'
  BY <1>1, BeginSaveKeeps
<1>2. ASSUME NEW s \in Savers,
             \/ NextDiff(s) \/ (\E found \in BOOLEAN : GitEnds(s, found))
             \/ OpenFile(s) \/ WriteFile(s) \/ SaverDies(s)
      PROVE  HistoryIInv'
  BY <1>2, NextDiffKeeps, GitEndsKeeps, OpenFileKeeps, WriteFileKeeps, SaverDiesKeeps
<1>3. CASE TickPasses BY <1>3, TickPassesKeeps
<1>4. ASSUME NEW c \in written, Prune(c) PROVE HistoryIInv' BY <1>4, PruneKeeps
<1>5. ASSUME NEW v \in Viewers, NEW slug \in Slugs \union {Everywhere}, NEW claim \in Claims,
             NEW key \in Selectors, AskHistory(v, slug, claim, key)
      PROVE  HistoryIInv'
  BY <1>5, AskHistoryKeeps
<1>6. ASSUME NEW v \in Viewers, NEW id \in CheckpointIds, ReadFile(v, id) PROVE HistoryIInv'
  BY <1>6, ReadFileKeeps
<1>7. ASSUME NEW v \in Viewers, AnswerQuery(v) \/ TakeLatest(v) PROVE HistoryIInv'
  BY <1>7, AnswerQueryKeeps, TakeLatestKeeps
<1>8. ASSUME NEW v \in Viewers, NEW slug \in Slugs,
             Resume(v, slug) \/ (\E id \in CheckpointIds : ResumeNamed(v, slug, id))
      PROVE  HistoryIInv'
  BY <1>8, ResumeKeeps, ResumeNamedKeeps
<1>9. CASE UNCHANGED historyVars
  <2>1. UNCHANGED <<tick, written, saver, viewer, serial>> BY <1>9 DEF historyVars
  <2>2. HistoryTyped' /\ IdsApart' /\ KeysStored' /\ BudgetKept'
    BY <2>1 DEF HistoryIInv, HistoryTyped, IdsApart, KeysStored, BudgetKept, Addressable,
                CollectedInTime, Saving, Unwritten, GivenIds
  <2>3. \A v \in Viewers : ViewerSound(v)' /\ AnswerRight(v)' /\ ResumeRight(v)'
    BY <2>1 DEF HistoryIInv, ViewerSound, AnswerRight, ResumeRight, Searching, OfQuery, Saving,
                Unwritten, GivenIds, Refused, RefusedByScope
  <2>4. QED BY <2>2, <2>3 DEF HistoryIInv
<1>10. QED BY <1>1, <1>2, <1>3, <1>4, <1>5, <1>6, <1>7, <1>8, <1>9 DEF HistoryNext

\* Each id names one file, what is stored is stored under its own key, a capture is within
\* its budget, and a query has read or has still to read every file that was whole when it
\* began and is not pruned.
THEOREM HistoryInvariance == HistorySpec => []HistoryIInv
<1>1. QED BY HistoryInitIInv, HistorySteps, PTL DEF HistorySpec

\* No query hands out what is out of scope or secret, the history of a file lacks no diff
\* unless it is cut, a capture ends within its budget, and a session that resumes gets the
\* latest checkpoint of its project.
THEOREM HistoryIsSound == HistorySpec => []HistorySound
<1>1. HistoryIInv => HistorySound
  <2> SUFFICES ASSUME HistoryIInv PROVE HistorySound OBVIOUS
  <2>1. CollectedInTime /\ Addressable BY DEF HistoryIInv, BudgetKept, KeysStored
  <2>2. NothingLeaks BY DEF HistoryIInv, AnswerRight, NothingLeaks
  <2>3. HistoryComplete BY DEF HistoryIInv, AnswerRight, HistoryComplete
  <2>4. ResumesFromLatest BY DEF HistoryIInv, ResumeRight, ResumesFromLatest
  <2>5. QED BY <2>1, <2>2, <2>3, <2>4 DEF HistorySound
<1>2. QED BY <1>1, HistoryInvariance, PTL
=============================================================================
