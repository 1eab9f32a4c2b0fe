------------------------------ MODULE Migration ------------------------------
(***************************************************************************)
(* The operator's tools on the SQLite stores: depthfusion migrate v2       *)
(* (cli/migrate.py with the runner of scripts/rehearse_migration.py) and   *)
(* scripts/backfill_acl.py.  One tool runs at a time; it is killed at any  *)
(* moment, and the operator runs it again.                                 *)
(*                                                                         *)
(* Of a database its rows count as all there or gone, and of its tables    *)
(* the two columns that the tools add.  A dry run changes nothing.         *)
(***************************************************************************)
EXTENDS Naturals, Sequences, FiniteSets

CONSTANTS
    Databases,  \* SQLITE_DB_FILES, a sequence
    Steps,      \* the migrations, a sequence of ids
    Adds,       \* the columns that each migration adds
    MaxStarts   \* bound: runs of the tools

Columns == {"acl_allow", "classification"}

Names == {Databases[i] : i \in DOMAIN Databases}
StepIds == {Steps[i] : i \in DOMAIN Steps}

\* A migration adds both columns or none (0001_acl_columns.sql and 0002_roles.sql).
ASSUME MigrationBounds ==
    /\ Databases \in Seq(Names) /\ Len(Databases) > 0
    /\ Steps \in Seq(StepIds) /\ Len(Steps) > 0
    /\ MaxStarts \in Nat
    /\ Adds \in [StepIds -> {{}, Columns}]

\* A file: missing, cut short, or a database.  An empty file is a database without tables.
NoFile == [kind |-> "missing"]
Broken == [kind |-> "broken"]
Db(rows, applied, columns) ==
    [kind |-> "db", rows |-> rows, applied |-> applied, columns |-> columns]
Empty == Db(FALSE, {}, {})
Intact(f) == f.kind = "db" /\ f.rows

VARIABLES
    live,      \* the files in the directory of the databases
    staged,    \* the copies in .df_v2_migration
    config,    \* the keys of depthfusion.env: old, new, or none after a torn write
    run,       \* what the tool is doing: where, and whether a step failed
    outcome,   \* history: how the last run ended
    overTorn,  \* history: a run has staged a file that a killed run had left torn
    skipped,   \* history: a backfill was killed between its two columns
    starts

migrationVars == <<live, staged, config, run, outcome, overTorn, skipped, starts>>

Idle == [tool |-> "none"]
RunAt(tool, pc, i) == [tool |-> tool, pc |-> pc, at |-> i, step |-> 1, failed |-> FALSE]

MigrationInit ==
    /\ live \in [Names -> {NoFile, Db(TRUE, {}, {})}]
    /\ staged = [n \in Names |-> NoFile]
    /\ config = "old"
    /\ run = Idle
    /\ outcome = "none"
    /\ overTorn = FALSE
    /\ skipped = {}
    /\ starts = 0

-----------------------------------------------------------------------------
(* The plan.                                                               *)

\* Reading a broken database raises, and the tool ends with a traceback.
Unreadable == \E n \in Names : live[n].kind = "broken"
Present == {n \in Names : live[n].kind # "missing"}
Pending == {s \in StepIds : \E n \in Present : s \notin live[n].applied}
HasChanges == Pending # {} \/ config = "old"

End(how) == run' = Idle /\ outcome' = how

StartMigrate ==
    /\ run = Idle /\ starts < MaxStarts
    /\ starts' = starts + 1
    /\ \/ /\ Unreadable
          /\ outcome' = "raised"
          /\ UNCHANGED run
       \/ /\ ~Unreadable /\ ~HasChanges
          /\ outcome' = "migrated"
          /\ UNCHANGED run
       \/ /\ ~Unreadable /\ HasChanges
          /\ run' = RunAt("migrate", IF Pending # {} THEN "copy" ELSE "rename", 1)
          /\ UNCHANGED outcome
    /\ UNCHANGED <<live, staged, config, overTorn, skipped>>

-----------------------------------------------------------------------------
(* migrate v2.                                                             *)

InPhase(tool, pc) == run.tool = tool /\ run.pc = pc
Here == Databases[run.at]

\* On to the next file of this phase, or to the phase after it.
NextIn(pc) ==
    IF run.at < Len(Databases) THEN [run EXCEPT !.at = @ + 1, !.step = 1]
    ELSE [run EXCEPT !.at = 1, !.step = 1, !.pc = pc]

\* Mutant: a copy that is there already is taken as it is.
CopiedOnce == staged[Here].kind = "missing" /\ live[Here].kind # "missing"
Copied == live[Here].kind # "missing"

CopyOut ==
    /\ InPhase("migrate", "copy")
    /\ staged' = IF Copied THEN [staged EXCEPT ![Here] = live[Here]] ELSE staged
    /\ overTorn' = (overTorn \/ live[Here] = Empty)
    /\ run' = NextIn("apply")
    /\ UNCHANGED <<live, config, outcome, skipped, starts>>

\* A copy that has taken a migration.  A column that is there already, or a table that is
\* not, is passed over.
StepTaken(f, s) ==
    [f EXCEPT !.applied = @ \union {s}, !.columns = IF f.rows THEN @ \union Adds[s] ELSE @]

\* One migration on one copy: an error of any other kind keeps it from being recorded.
\* Mutant: a database that succeeds makes up for one that failed.
FailedOfLast(fails) == fails
Failed(fails) == run.failed \/ fails

ApplyStep ==
    /\ InPhase("migrate", "apply")
    /\ staged[Here].kind = "db" /\ run.step <= Len(Steps)
    /\ \E fails \in (IF Steps[run.step] \in staged[Here].applied THEN {FALSE} ELSE BOOLEAN) :
          /\ staged' = IF fails THEN staged
                       ELSE [staged EXCEPT ![Here] = StepTaken(@, Steps[run.step])]
          /\ run' = [run EXCEPT !.step = @ + 1, !.failed = Failed(fails)]
    /\ UNCHANGED <<live, config, outcome, overTorn, skipped, starts>>

\* The next copy, or: nothing is promoted when anything failed.
ApplyNext ==
    /\ InPhase("migrate", "apply")
    /\ staged[Here].kind # "db" \/ run.step > Len(Steps)
    /\ IF run.at = Len(Databases) /\ run.failed
       THEN End("failed")
       ELSE run' = NextIn("promote") /\ UNCHANGED outcome
    /\ UNCHANGED <<live, staged, config, overTorn, skipped, starts>>

Promote ==
    /\ InPhase("migrate", "promote")
    /\ live' = IF staged[Here].kind = "missing" THEN live
               ELSE [live EXCEPT ![Here] = staged[Here]]
    /\ run' = NextIn("rename")
    /\ UNCHANGED <<staged, config, outcome, overTorn, skipped, starts>>

Rename ==
    /\ InPhase("migrate", "rename")
    /\ config' = IF config = "old" THEN "new" ELSE config
    /\ End("migrated")
    /\ UNCHANGED <<live, staged, overTorn, skipped, starts>>

-----------------------------------------------------------------------------
(* backfill_acl.py, in place.                                              *)

StartBackfill ==
    /\ run = Idle /\ starts < MaxStarts
    /\ starts' = starts + 1
    /\ run' = RunAt("backfill", "acl_allow", 1)
    /\ UNCHANGED <<live, staged, config, outcome, overTorn, skipped>>

\* The next database, or the end.
BackfillOn ==
    IF run.at < Len(Databases)
    THEN run' = [run EXCEPT !.at = @ + 1, !.pc = "acl_allow"] /\ UNCHANGED outcome
    ELSE End("backfilled")

\* Rows that lack the stamp: all when there is no such column, and none once there is one,
\* for a column is added with its default.
ToStamp(f) == f.kind = "db" /\ f.rows /\ "acl_allow" \notin f.columns

AddAcl ==
    /\ InPhase("backfill", "acl_allow")
    /\ \/ /\ live[Here].kind = "broken"
          /\ End("raised")
          /\ UNCHANGED live
       \/ /\ live[Here].kind # "broken" /\ ~ToStamp(live[Here])
          /\ BackfillOn
          /\ UNCHANGED live
       \/ /\ ToStamp(live[Here])
          /\ live' = [live EXCEPT ![Here].columns = @ \union {"acl_allow"}]
          /\ run' = [run EXCEPT !.pc = "classification"]
          /\ UNCHANGED outcome
    /\ UNCHANGED <<staged, config, overTorn, skipped, starts>>

AddLabel ==
    /\ InPhase("backfill", "classification")
    /\ live' = [live EXCEPT ![Here].columns = @ \union {"classification"}]
    /\ BackfillOn
    /\ UNCHANGED <<staged, config, overTorn, skipped, starts>>

-----------------------------------------------------------------------------
(* The tool is killed.  A file that is being copied or written is cut.     *)

CutShort(file) == {file, Empty, Broken}

Kill ==
    /\ run # Idle
    /\ End("killed")
    /\ \/ /\ InPhase("migrate", "copy") /\ live[Here].kind # "missing"
          /\ \E f \in CutShort(staged[Here]) : staged' = [staged EXCEPT ![Here] = f]
          /\ overTorn' = (overTorn \/ live[Here] = Empty)
          /\ UNCHANGED <<live, config, skipped>>
       \/ /\ InPhase("migrate", "promote") /\ staged[Here].kind # "missing"
          /\ \E f \in CutShort(live[Here]) : live' = [live EXCEPT ![Here] = f]
          /\ UNCHANGED <<staged, config, overTorn, skipped>>
       \/ /\ InPhase("migrate", "rename")
          /\ config' \in {config, "none"}
          /\ UNCHANGED <<live, staged, overTorn, skipped>>
       \/ /\ InPhase("backfill", "classification")
          /\ skipped' = skipped \union {Here}
          /\ UNCHANGED <<live, staged, config, overTorn>>
       \/ /\ InPhase("migrate", "apply") \/ InPhase("backfill", "acl_allow")
          /\ UNCHANGED <<live, staged, config, overTorn, skipped>>
    /\ UNCHANGED starts

MigrationNext ==
    \/ StartMigrate \/ CopyOut \/ ApplyStep \/ ApplyNext \/ Promote \/ Rename
    \/ StartBackfill \/ AddAcl \/ AddLabel
    \/ Kill

MigrationSpec == MigrationInit /\ [][MigrationNext]_migrationVars

-----------------------------------------------------------------------------
(* Properties.                                                             *)

Files == {NoFile, Broken} \union
         [kind : {"db"}, rows : BOOLEAN, applied : SUBSET StepIds, columns : SUBSET Columns]

\* Every variable has its type, and no file of an empty database has columns.
MigrationTypeOK ==
    /\ live \in [Names -> Files] /\ staged \in [Names -> Files]
    /\ config \in {"old", "new", "none"}
    /\ run = Idle \/ (run.tool \in {"migrate", "backfill"} /\ run.at \in DOMAIN Databases)
    /\ outcome \in {"none", "migrated", "backfilled", "failed", "raised", "killed"}
    /\ overTorn \in BOOLEAN /\ skipped \subseteq Names /\ starts \in 0..MaxStarts
    /\ \A n \in Names : live[n].kind = "db" /\ ~live[n].rows => live[n].columns = {}

\* However often migrate is killed, every database is intact in its place or among the
\* copies; the one exception is a run that took a file which a killed run had torn for an
\* empty database, and staged it over the good copy.
OneCopyIntact ==
    ~overTorn => \A n \in Names : live[n] # NoFile => Intact(live[n]) \/ Intact(staged[n])

\* No database gets into its place unless every copy took every migration.
PromotedWhole ==
    InPhase("migrate", "promote") =>
        \A n \in Names : staged[n].kind = "db" => staged[n].applied = StepIds

\* A run that ends well leaves nothing to do: migrate no step and no old key, the backfill
\* no row without its stamp or label, unless one was killed between the two.
FinishedIsDone ==
    run = Idle =>
        /\ outcome = "migrated" => Pending = {} /\ config # "old"
        /\ outcome = "backfilled" =>
              \A n \in Names \ skipped : Intact(live[n]) => live[n].columns = Columns

\* What the operator may rely on, with migrate and the backfill run in any order, killed
\* and run again.
ToolsKeepStores == OneCopyIntact /\ PromotedWhole /\ FinishedIsDone
=============================================================================
