------------------------------- MODULE FileBus -------------------------------
(***************************************************************************)
(* The production context bus (router/bus.py, FileBus): bus.jsonl, one     *)
(* JSON row per line, appended by several processes under flock and read   *)
(* without it.  A process may die in the middle of an append.              *)
(***************************************************************************)
EXTENDS Naturals, Sequences

CONSTANTS
    Procs,      \* processes that publish
    Clearers,   \* processes that clear the bus
    Readers,    \* subscribers
    Items,      \* items that may be published: [id, hash]
    Legacy,     \* rows without a content hash that may be there at the start
    NoHash,     \* the content hash of a legacy row
    Torn,       \* a line that does not parse
    MaxClears,  \* bound: how often the bus is cleared
    None        \* nobody, nothing

Users == Procs \union Clearers

ASSUME ItemsAssumption ==
    /\ \A i \in Items \union Legacy : DOMAIN i = {"id", "hash"}
    /\ \A i, j \in Items : i.id = j.id => i = j
ASSUME LegacyAssumption == \A i \in Legacy : i.hash = NoHash
ASSUME NoneAssumption ==
    None \notin Users /\ Torn \notin Items \union Legacy /\ None \notin Items
ASSUME BoundsAssumption == MaxClears \in Nat

VARIABLES
    file,    \* the lines of bus.jsonl
    lock,    \* who holds the flock on it
    job,     \* what each process is doing
    answer,  \* the answer each publisher got last
    sent,    \* items that were given to publish (every call makes a new id)
    clears,
    reader   \* how many lines each subscriber has read, and what it got

vars == <<file, lock, job, answer, sent, clears, reader>>

\* Only the last line may lack its newline.
Line == [row: Items \union Legacy \union {Torn}, ended: BOOLEAN]
Job == [pc: {"idle", "waiting", "scan", "write", "rest", "truncate", "unlock"},
        item: Items \union {None}]
NoJob == [pc |-> "idle", item |-> None]
Reading == [at: Nat, got: SUBSET (Items \union Legacy), open: BOOLEAN]
NotReading == [at |-> 0, got |-> {}, open |-> FALSE]

At(p, state) == job[p].pc = state
Become(p, pc) == job' = [job EXCEPT ![p].pc = pc]

Rows == {file[k].row : k \in DOMAIN file} \ {Torn}
Ended(row) == [row |-> row, ended |-> TRUE]
Unended(row) == [row |-> row, ended |-> FALSE]

\* Line k has the content of item i.
\* Mutant: rows without a content hash match each other.
MatchesByHash(i, k) == file[k].row # Torn /\ file[k].row.hash = i.hash
Matches(i, k) == i.hash # NoHash /\ file[k].row # Torn /\ file[k].row.hash = i.hash

IsFirst(i, k) == Matches(i, k) /\ \A m \in 1..(k - 1) : ~Matches(i, m)

\* The lines after the separator, if the last line was left unended.
Terminated(lines) ==
    IF lines = <<>> THEN <<>>
    ELSE [lines EXCEPT ![Len(lines)].ended = TRUE]

\* The file after a row was appended, the newline at its end included or not.
\* Mutant: without the separator the row is glued to a torn line.
Glued(line) ==
    IF file = <<>> \/ file[Len(file)].ended THEN Append(file, line)
    ELSE [file EXCEPT ![Len(file)] = [row |-> Torn, ended |-> line.ended]]
Appended(line) == Append(Terminated(file), line)

Init ==
    /\ \E n \in 0..2 : file \in [1..n -> {Ended(i) : i \in Legacy}]
    /\ lock = None
    /\ job = [p \in Users |-> NoJob]
    /\ answer = [p \in Procs |-> None]
    /\ sent = {}
    /\ clears = 0
    /\ reader = [s \in Readers |-> NotReading]

(***************************************************************************)
(* publish.  A thread waits for the flock, scans the file, appends unless  *)
(* the scan found the content, and unlocks.                                *)
(***************************************************************************)
PublishStart(p, i) ==
    /\ At(p, "idle")
    /\ i \notin sent
    /\ job' = [job EXCEPT ![p] = [pc |-> "waiting", item |-> i]]
    /\ sent' = sent \union {i}
    /\ UNCHANGED <<file, lock, answer, clears, reader>>

Lock(p) ==
    /\ At(p, "waiting")
    /\ lock = None
    /\ lock' = p
    /\ Become(p, IF p \in Clearers THEN "truncate" ELSE "scan")
    /\ UNCHANGED <<file, answer, sent, clears, reader>>

Answered(p, id, deduped) ==
    answer' = [answer EXCEPT ![p] = [id |-> id, deduped |-> deduped]]

ScanFindsIt(p) ==
    /\ At(p, "scan")
    /\ \E k \in DOMAIN file :
          IsFirst(job[p].item, k) /\ Answered(p, file[k].row.id, TRUE)
    /\ Become(p, "unlock")
    /\ UNCHANGED <<file, lock, sent, clears, reader>>

ScanFindsNothing(p) ==
    /\ At(p, "scan")
    /\ \A k \in DOMAIN file : ~Matches(job[p].item, k)
    /\ Become(p, "write")
    /\ UNCHANGED <<file, lock, answer, sent, clears, reader>>

\* A row longer than the buffer reaches the file in parts.
WriteFragment(p) ==
    /\ At(p, "write")
    /\ file' = Appended(Unended(Torn))
    /\ Become(p, "rest")
    /\ UNCHANGED <<lock, answer, sent, clears, reader>>

\* The file when all of p's row is in it, the newline included or not.
Written(p, line) ==
    IF At(p, "rest") THEN [file EXCEPT ![Len(file)] = line] ELSE Appended(line)

WriteRow(p) ==
    /\ job[p].pc \in {"write", "rest"}
    /\ file' = Written(p, Ended(job[p].item))
    /\ Answered(p, job[p].item.id, FALSE)
    /\ Become(p, "unlock")
    /\ UNCHANGED <<lock, sent, clears, reader>>

Unlock(p) ==
    /\ At(p, "unlock")
    /\ lock' = None
    /\ job' = [job EXCEPT ![p] = NoJob]
    /\ UNCHANGED <<file, answer, sent, clears, reader>>

\* clear: truncate to nothing under the same flock.
ClearStart(p) ==
    /\ At(p, "idle")
    /\ clears < MaxClears
    /\ clears' = clears + 1
    /\ Become(p, "waiting")
    /\ UNCHANGED <<file, lock, answer, sent, reader>>

Truncate(p) ==
    /\ At(p, "truncate")
    /\ file' = <<>>
    /\ Become(p, "unlock")
    /\ UNCHANGED <<lock, answer, sent, clears, reader>>

(***************************************************************************)
(* A process dies: the kernel releases its flock; what it had written of   *)
(* its row stays, up to the newline at its end.                            *)
(***************************************************************************)
Stops(p) ==
    /\ job' = [job EXCEPT ![p] = NoJob]
    /\ lock' = IF lock = p THEN None ELSE lock
    /\ UNCHANGED <<answer, sent, clears, reader>>

Crash(p) == ~At(p, "idle") /\ Stops(p) /\ UNCHANGED file

CrashAfterSeparator(p) == At(p, "write") /\ Stops(p) /\ file' = Terminated(file)

CrashBeforeNewline(p) ==
    /\ job[p].pc \in {"write", "rest"}
    /\ Stops(p)
    /\ file' = Written(p, Unended(job[p].item))

(***************************************************************************)
(* subscribe reads without a lock, line by line, and skips what does not   *)
(* parse.                                                                  *)
(***************************************************************************)
Opened(s) ==
    /\ ~reader[s].open
    /\ reader' = [reader EXCEPT ![s] = [at |-> 0, got |-> {}, open |-> TRUE]]

ReadStart(s) == Opened(s) /\ UNCHANGED <<file, lock, job, answer, sent, clears>>

\* Where the subscriber is after line k.
\* Mutant: a line that does not parse ends the read.
EndIfTorn(k) == IF file[k].row = Torn THEN Len(file) ELSE k
After(k) == k

ReadLine(s) ==
    /\ reader[s].open
    /\ reader[s].at < Len(file)
    /\ LET k == reader[s].at + 1
       IN reader' = [reader EXCEPT
              ![s].at = After(k), ![s].got = @ \union ({file[k].row} \ {Torn})]
    /\ UNCHANGED <<file, lock, job, answer, sent, clears>>

Closed(s) ==
    /\ reader[s].open
    /\ reader[s].at >= Len(file)
    /\ reader' = [reader EXCEPT ![s].open = FALSE]

ReadEnd(s) == Closed(s) /\ UNCHANGED <<file, lock, job, answer, sent, clears>>

PublishNext(p) ==
    \/ \E i \in Items : PublishStart(p, i)
    \/ ScanFindsIt(p)
    \/ ScanFindsNothing(p)
    \/ WriteFragment(p)
    \/ WriteRow(p)
    \/ CrashAfterSeparator(p)
    \/ CrashBeforeNewline(p)

Next ==
    \/ \E p \in Procs : PublishNext(p)
    \/ \E p \in Clearers : ClearStart(p) \/ Truncate(p)
    \/ \E p \in Users : Lock(p) \/ Unlock(p) \/ Crash(p)
    \/ \E s \in Readers : ReadStart(s) \/ ReadLine(s) \/ ReadEnd(s)

Spec == Init /\ [][Next]_vars

(***************************************************************************)
(* History, for the reads: the rows that were on the bus all through a     *)
(* subscriber's read, and those that were on it at some time in it.        *)
(***************************************************************************)
VARIABLES stayed, seen

readVars == <<vars, stayed, seen>>

ReadInit ==
    /\ Init
    /\ stayed = [s \in Readers |-> {}]
    /\ seen = [s \in Readers |-> {}]

ReadNext ==
    /\ Next
    /\ stayed' = [s \in Readers |->
          IF Opened(s) THEN Rows'
          ELSE IF reader[s].open THEN stayed[s] \intersect Rows' ELSE stayed[s]]
    /\ seen' = [s \in Readers |->
          IF Opened(s) THEN Rows'
          ELSE IF reader[s].open THEN seen[s] \union Rows' ELSE seen[s]]

ReadSpec == ReadInit /\ [][ReadNext]_readVars

-----------------------------------------------------------------------------

Bus == INSTANCE ContextBus WITH items <- Rows

\* Every variable has its type; an answer names an item that was published,
\* never a legacy row, which has no hash to be matched by.
TypeOK ==
    /\ file \in Seq(Line)
    /\ lock \in Users \union {None}
    /\ job \in [Users -> Job]
    /\ answer \in [Procs -> Bus!Answer \union {None}]
    /\ sent \in SUBSET Items
    /\ clears \in 0..MaxClears
    /\ reader \in [Readers -> Reading]

\* FileBus keeps what InMemoryBus promises, processes that die in the middle of
\* an append included: no content is stored twice, a publisher that was told
\* "not deduped" has its row on the bus, one that was told "deduped" gets the id
\* of the row with its content, and no publish takes away another's row.
BusSpec == Bus!Spec

\* What subscribe returns, without a lock, while others append, die and clear:
\* every row that stayed on the bus through the read, and no row that was not
\* on the bus at some time in it.
ReadsWhatStayed ==
    \A s \in Readers :
        ~reader[s].open => stayed[s] \subseteq reader[s].got /\ reader[s].got \subseteq seen[s]
=============================================================================
