---------------------------- MODULE SharePointSync ----------------------------
(***************************************************************************)
(* The scheduled SharePoint sync (connectors/sharepoint*.py) of one drive: *)
(* a lock file with the owner's process id, a delta listing from a stored  *)
(* cursor, the processing of each item, and the cursor saved at the end.   *)
(* The lock file is tested in one step and written in another.             *)
(***************************************************************************)
EXTENDS Naturals, FiniteSetsExt

CONSTANTS
    Jobs,         \* processes that run schedule_sync
    NoOwner,        \* no lock file
    BadCursor,    \* a cursor file that does not parse
    Latest,       \* the token "latest": nothing but what changes from now on
    MaxChanges,   \* bound: changes in the drive
    MaxSyncs,     \* bound: runs of schedule_sync
    MaxKills      \* bound: runs that die

ASSUME NoOwnerAssumption == NoOwner \notin Jobs
ASSUME CursorAssumption == BadCursor \notin Nat /\ Latest \notin Nat /\ BadCursor # Latest
ASSUME SyncBounds == MaxChanges \in Nat /\ MaxSyncs \in Nat /\ MaxKills \in Nat

VARIABLES
    changes,     \* changes made in the drive so far; the n-th has delta token n
    cursorFile,  \* the delta token in sharepoint_cursors.json; 0 is none
    lockFile,    \* whose process id is in sharepoint_sync.lock
    sync,        \* what each process is doing
    offered,     \* changes that a sync has handed to the ingest pipeline
    passed,      \* history: changes there were when one listed from "latest"
    syncs, kills

shareVars == <<changes, cursorFile, lockFile, sync, offered, passed, syncs, kills>>

NotSyncing == [pc |-> "idle", upto |-> 0, todo |-> {}, token |-> 0]

ShareInit ==
    /\ changes = 0
    /\ cursorFile = 0
    /\ lockFile = NoOwner
    /\ sync = [j \in Jobs |-> NotSyncing]
    /\ offered = {} /\ passed = {}
    /\ syncs = 0 /\ kills = 0

DriveChanges ==
    /\ changes < MaxChanges
    /\ changes' = changes + 1
    /\ UNCHANGED <<cursorFile, lockFile, sync, offered, passed, syncs, kills>>

(***************************************************************************)
(* SyncLock._acquire.  The lock of a process that no longer runs is taken  *)
(* over; with a running owner schedule_sync raises, and nothing happens.   *)
(***************************************************************************)
Syncing(j) == sync[j].pc \in {"list", "process", "save"}

TestLock(j) ==
    /\ sync[j].pc = "idle"
    /\ syncs < MaxSyncs
    /\ lockFile # NoOwner => ~Syncing(lockFile)
    /\ syncs' = syncs + 1
    /\ sync' = [sync EXCEPT ![j].pc = "lock"]
    /\ UNCHANGED <<changes, cursorFile, lockFile, offered, passed, kills>>

WriteLock(j) ==
    /\ sync[j].pc = "lock"
    /\ lockFile' = j
    /\ sync' = [sync EXCEPT ![j].pc = "list"]
    /\ UNCHANGED <<changes, cursorFile, offered, passed, syncs, kills>>

\* All pages of the delta since the cursor; without a cursor that can be read, of the drive.
From == IF cursorFile = BadCursor THEN 0 ELSE IF cursorFile = Latest THEN changes ELSE cursorFile

\* The last page brings the next token, or it does not.
ListDriveItems(j) ==
    /\ sync[j].pc = "list"
    /\ \E token \in {changes, Latest} :
          sync' = [sync EXCEPT ![j] =
             [pc |-> IF From = changes THEN "save" ELSE "process",
              upto |-> changes, todo |-> (From + 1)..changes, token |-> token]]
    /\ passed' = passed \union (IF cursorFile = Latest THEN 1..changes ELSE {})
    /\ UNCHANGED <<changes, cursorFile, lockFile, offered, syncs, kills>>

\* Removes whatever lock file there is.
EndSync(j) ==
    /\ lockFile' = NoOwner
    /\ sync' = [sync EXCEPT ![j] = NotSyncing]

\* A page is not served after all retries.
ListFails(j) ==
    /\ sync[j].pc = "list"
    /\ EndSync(j)
    /\ UNCHANGED <<changes, cursorFile, offered, passed, syncs, kills>>

\* Items in order; one that cannot be fetched or parsed is left out, and the sync goes on.
ProcessItem(j) ==
    /\ sync[j].pc = "process"
    /\ LET n == Min(sync[j].todo) IN
          /\ offered' = offered \union {n}
          /\ sync' = [sync EXCEPT ![j].todo = @ \ {n},
                                  ![j].pc = IF n = sync[j].upto THEN "save" ELSE "process"]
    /\ UNCHANGED <<changes, cursorFile, lockFile, passed, syncs, kills>>

\* Mutant: the cursor is saved when the listing is there, before the items are processed.
SaveCursorEarly(j) ==
    /\ sync[j].pc \in {"process", "save"}
    /\ cursorFile' = sync[j].token
    /\ IF sync[j].pc = "save" THEN EndSync(j) ELSE UNCHANGED <<lockFile, sync>>
    /\ UNCHANGED <<changes, offered, passed, syncs, kills>>
SaveCursor(j) ==
    /\ sync[j].pc = "save"
    /\ cursorFile' = sync[j].token
    /\ EndSync(j)
    /\ UNCHANGED <<changes, offered, passed, syncs, kills>>

\* The process dies, its lock file stays; in the save it may leave half a cursor file.
SyncDies(j) ==
    /\ sync[j].pc # "idle"
    /\ kills < MaxKills
    /\ kills' = kills + 1
    /\ cursorFile' \in {cursorFile} \union (IF sync[j].pc = "save" THEN {BadCursor} ELSE {})
    /\ sync' = [sync EXCEPT ![j] = NotSyncing]
    /\ UNCHANGED <<changes, lockFile, offered, passed, syncs>>

ShareNext ==
    \/ DriveChanges
    \/ \E j \in Jobs :
          \/ TestLock(j) \/ WriteLock(j) \/ ListDriveItems(j) \/ ListFails(j)
          \/ ProcessItem(j) \/ SaveCursor(j) \/ SyncDies(j)

ShareSpec == ShareInit /\ [][ShareNext]_shareVars

-----------------------------------------------------------------------------
ShareTypeOK ==
    /\ changes \in 0..MaxChanges
    /\ cursorFile \in (0..MaxChanges) \union {BadCursor, Latest}
    /\ lockFile \in Jobs \union {NoOwner}
    /\ sync \in [Jobs -> [pc: {"idle", "lock", "list", "process", "save"},
                          upto: 0..MaxChanges, todo: SUBSET (1..MaxChanges),
                          token: (0..MaxChanges) \union {Latest}]]
    /\ offered \subseteq 1..MaxChanges /\ passed \subseteq 1..MaxChanges
    /\ syncs \in 0..MaxSyncs /\ kills \in 0..MaxKills

\* Nothing is behind the cursor that no sync has offered to the pipeline: not after a
\* death at any step, a listing that failed, half a cursor file, or two syncs that
\* both found the lock free.  Only a listing from "latest", which follows one whose last
\* page brought no token, goes past changes.
\* (sync_incremental saves the token last.)
CursorCovered ==
    cursorFile \in Nat => \A n \in 1..cursorFile : n \in offered \union passed
=============================================================================
