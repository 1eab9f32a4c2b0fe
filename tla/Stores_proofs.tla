----------------------------- MODULE Stores_proofs ----------------------------
EXTENDS SharePointSync, RecallFeedback, HnswIndex, MemoryLog, SearchCache, FileBus,
        FiniteSetTheorems, WellFoundedInduction, NaturalsInduction, TLAPS
(***************************************************************************)
(* Six stores, one after the other: an inductive invariant of each, and    *)
(* the safety property it carries.  FileBus implements ContextBus, for any *)
(* processes and items: publishers that die in the middle of an append     *)
(* included.                                                               *)
(***************************************************************************)

-----------------------------------------------------------------------------
(* Least elements                                                          *)

LEMMA LeastNatural ==
    ASSUME NEW S \in SUBSET Nat, S # {}
    PROVE  \E x \in S : \A y \in S : x <= y
<1>1. PICK x \in S : \A y \in S : ~(<<y, x>> \in OpToRel(<, Nat))
  BY NatLessThanWellFounded, WFMin
<1>2. \A y \in S : ~(y < x) BY <1>1 DEF OpToRel
<1>3. QED BY <1>2

LEMMA MinOfNaturals ==
    ASSUME NEW S \in SUBSET Nat, S # {}
    PROVE  Min(S) \in S /\ \A y \in S : Min(S) <= y
BY LeastNatural DEF Min

-----------------------------------------------------------------------------
(* SharePointSync                                                          *)

\* What a sync that is at its items does not still have to do, up to the token that it will
\* save, has been offered or passed over; when it saves, everything.
SyncCovered(j) ==
    /\ sync[j].pc = "process" =>
          /\ sync[j].todo \subseteq 1..sync[j].upto /\ sync[j].upto \in sync[j].todo
          /\ \A n \in 1..sync[j].upto : n \in sync[j].todo \union offered \union passed
    /\ sync[j].pc = "save" => \A n \in 1..sync[j].upto : n \in offered \union passed
    /\ sync[j].upto <= changes /\ sync[j].token \in {sync[j].upto, Latest}

ShareIInv ==
    /\ ShareTypeOK
    /\ cursorFile \in Nat => cursorFile <= changes
    /\ CursorCovered
    /\ \A j \in Jobs : SyncCovered(j)

SyncState == [pc: {"idle", "lock", "list", "process", "save"},
              upto: 0..MaxChanges, todo: SUBSET (1..MaxChanges),
              token: (0..MaxChanges) \union {Latest}]

LEMMA ShareInitIInv == ShareInit => ShareIInv
BY SyncBounds, CursorAssumption
   DEF ShareInit, ShareIInv, ShareTypeOK, CursorCovered, SyncCovered, NotSyncing

LEMMA DriveChangesKeeps == ShareIInv /\ DriveChanges => ShareIInv'
BY SyncBounds DEF DriveChanges, ShareIInv, ShareTypeOK, CursorCovered, SyncCovered

LEMMA LockKeeps == ASSUME NEW j \in Jobs, ShareIInv, TestLock(j) \/ WriteLock(j)
                   PROVE  ShareIInv'
<1>1. /\ cursorFile' = cursorFile /\ offered' = offered /\ passed' = passed /\ changes' = changes
      /\ sync' \in [Jobs -> SyncState]
      /\ \A i \in Jobs : /\ sync'[i].upto = sync[i].upto /\ sync'[i].token = sync[i].token
                         /\ sync'[i].pc \in {"process", "save"} => sync'[i] = sync[i]
  BY DEF TestLock, WriteLock, ShareIInv, ShareTypeOK, SyncState
<1>2. ShareTypeOK'
  BY <1>1, SyncBounds DEF TestLock, WriteLock, ShareIInv, ShareTypeOK, SyncState
<1>3. CursorCovered' /\ (cursorFile' \in Nat => cursorFile' <= changes')
  BY <1>1 DEF ShareIInv, CursorCovered
<1>4. \A i \in Jobs : SyncCovered(i)' BY <1>1 DEF ShareIInv, SyncCovered
<1>5. QED BY <1>2, <1>3, <1>4 DEF ShareIInv

LEMMA ListKeeps == ASSUME NEW j \in Jobs, ShareIInv, ListDriveItems(j)
                   PROVE  ShareIInv'
<1>1. /\ changes \in 0..MaxChanges /\ MaxChanges \in Nat
      /\ cursorFile = Latest => From = changes
      /\ cursorFile # Latest => /\ From \in 0..changes
                                /\ \A n \in 1..From : n \in offered \union passed
  BY SyncBounds, CursorAssumption DEF From, ShareIInv, ShareTypeOK, CursorCovered
<1>2. PICK token \in {changes, Latest} :
         sync' = [sync EXCEPT ![j] =
           [pc |-> IF From = changes THEN "save" ELSE "process",
            upto |-> changes, todo |-> (From + 1)..changes, token |-> token]]
  BY DEF ListDriveItems
<1>3. /\ cursorFile' = cursorFile /\ offered' = offered /\ changes' = changes
      /\ cursorFile = Latest => 1..changes \subseteq passed'
      /\ passed \subseteq passed' /\ passed' \subseteq 1..MaxChanges
  BY <1>1 DEF ListDriveItems, ShareIInv, ShareTypeOK
<1>4. sync' \in [Jobs -> SyncState]
  BY <1>1, <1>2 DEF ShareIInv, ShareTypeOK, SyncState
<1>5. ShareTypeOK' BY <1>3, <1>4 DEF ListDriveItems, ShareIInv, ShareTypeOK, SyncState
<1>6. CursorCovered' /\ (cursorFile' \in Nat => cursorFile' <= changes')
  BY <1>3 DEF ShareIInv, CursorCovered
<1>7. ASSUME NEW i \in Jobs, i # j PROVE SyncCovered(i)'
  BY <1>2, <1>3, <1>7 DEF ShareIInv, ShareTypeOK, SyncCovered
<1>8. SyncCovered(j)'
  <2>1. sync'[j] = [pc |-> IF From = changes THEN "save" ELSE "process",
                    upto |-> changes, todo |-> (From + 1)..changes, token |-> token]
    BY <1>2 DEF ShareIInv, ShareTypeOK
  <2>2. CASE cursorFile = Latest
    BY <1>1, <1>3, <2>1, <2>2 DEF SyncCovered
  <2>3. CASE cursorFile # Latest
    BY <1>1, <1>3, <2>1, <2>3 DEF SyncCovered
  <2>4. QED BY <2>2, <2>3
<1>9. QED BY <1>5, <1>6, <1>7, <1>8 DEF ShareIInv

\* Items are taken in order, so the token's own change is the last one.
LEMMA ProcessItemKeeps == ASSUME NEW j \in Jobs, ShareIInv, ProcessItem(j)
                          PROVE  ShareIInv'
<1> DEFINE n == Min(sync[j].todo)
<1>1. /\ sync[j] \in SyncState /\ sync \in [Jobs -> SyncState]
      /\ changes \in 0..MaxChanges /\ MaxChanges \in Nat
  BY SyncBounds DEF ShareIInv, ShareTypeOK, SyncState
<1>2. /\ sync[j].todo \subseteq 1..sync[j].upto /\ sync[j].upto \in sync[j].todo
      /\ \A k \in 1..sync[j].upto : k \in sync[j].todo \union offered \union passed
      /\ sync[j].upto <= changes /\ sync[j].token \in {sync[j].upto, Latest}
  BY DEF ShareIInv, SyncCovered, ProcessItem
<1>3. n \in sync[j].todo /\ \A k \in sync[j].todo : n <= k
  BY <1>1, <1>2, MinOfNaturals DEF SyncState
<1>4. /\ cursorFile' = cursorFile /\ changes' = changes
      /\ offered' = offered \union {n} /\ passed' = passed
      /\ sync' = [sync EXCEPT ![j].todo = @ \ {n},
                              ![j].pc = IF n = sync[j].upto THEN "save" ELSE "process"]
  BY DEF ProcessItem
<1> HIDE DEF n
<1>5. /\ sync'[j].todo = sync[j].todo \ {n} /\ sync'[j].upto = sync[j].upto
      /\ sync'[j].token = sync[j].token
      /\ sync'[j].pc = IF n = sync[j].upto THEN "save" ELSE "process"
      /\ sync' \in [Jobs -> SyncState]
      /\ \A i \in Jobs : i # j => sync'[i] = sync[i]
  BY <1>1, <1>4 DEF SyncState
<1>6. ShareTypeOK'
  BY <1>1, <1>3, <1>4, <1>5 DEF ProcessItem, ShareIInv, ShareTypeOK, SyncState
<1>7. CursorCovered' /\ (cursorFile' \in Nat => cursorFile' <= changes')
  BY <1>4 DEF ShareIInv, CursorCovered
<1>8. ASSUME NEW i \in Jobs, i # j PROVE SyncCovered(i)'
  BY <1>4, <1>5, <1>8 DEF ShareIInv, SyncCovered
<1>9. SyncCovered(j)'
  <2>1. CASE n = sync[j].upto
    <3>1. sync[j].todo = {n} BY <1>1, <1>2, <1>3, <2>1 DEF SyncState
    <3>2. QED BY <1>2, <1>4, <1>5, <2>1, <3>1 DEF SyncCovered
  <2>2. CASE n # sync[j].upto
    BY <1>2, <1>4, <1>5, <2>2 DEF SyncCovered
  <2>3. QED BY <2>1, <2>2
<1>10. QED BY <1>6, <1>7, <1>8, <1>9 DEF ShareIInv

LEMMA EndKeeps == ASSUME NEW j \in Jobs, ShareIInv,
                         ListFails(j) \/ SaveCursor(j) \/ SyncDies(j)
                  PROVE  ShareIInv'
<1>1. /\ offered' = offered /\ passed' = passed /\ changes' = changes
      /\ sync' = [sync EXCEPT ![j] = NotSyncing]
  BY DEF ListFails, SaveCursor, SyncDies, EndSync
<1>2. NotSyncing \in SyncState BY SyncBounds DEF NotSyncing, SyncState
<1>3. sync' \in [Jobs -> SyncState] /\ sync[j] \in SyncState
  BY <1>1, <1>2 DEF ShareIInv, ShareTypeOK, SyncState
<1>4. \/ cursorFile' = cursorFile \/ cursorFile' = BadCursor
      \/ sync[j].pc = "save" /\ cursorFile' \in {sync[j].upto, Latest}
  BY DEF ListFails, SaveCursor, SyncDies, ShareIInv, SyncCovered
<1>5. CursorCovered' /\ (cursorFile' \in Nat => cursorFile' <= changes')
  BY <1>1, <1>3, <1>4, CursorAssumption DEF ShareIInv, CursorCovered, SyncCovered, SyncState
<1>6. cursorFile' \in (0..MaxChanges) \union {BadCursor, Latest}
  BY <1>3, <1>4 DEF ShareIInv, ShareTypeOK, SyncState
<1>7. ShareTypeOK'
  BY <1>1, <1>3, <1>6, SyncBounds
     DEF ListFails, SaveCursor, SyncDies, EndSync, ShareIInv, ShareTypeOK, SyncState
<1>8. ASSUME NEW i \in Jobs PROVE SyncCovered(i)'
  <2>1. sync'[i] = NotSyncing \/ sync'[i] = sync[i] BY <1>1 DEF ShareIInv, ShareTypeOK
  <2>2. QED BY <1>1, <2>1, SyncBounds DEF ShareIInv, ShareTypeOK, SyncCovered, NotSyncing
<1>9. QED BY <1>5, <1>7, <1>8 DEF ShareIInv

THEOREM ShareInvariance == ShareSpec => []ShareIInv
<1>1. ShareIInv /\ [ShareNext]_shareVars => ShareIInv'
  <2> SUFFICES ASSUME ShareIInv, [ShareNext]_shareVars PROVE ShareIInv' OBVIOUS
  <2>1. CASE UNCHANGED shareVars
    BY <2>1 DEF shareVars, ShareIInv, ShareTypeOK, CursorCovered, SyncCovered
  <2>2. CASE ShareNext
    BY <2>2, DriveChangesKeeps, LockKeeps, ListKeeps, ProcessItemKeeps, EndKeeps DEF ShareNext
  <2>3. QED BY <2>1, <2>2
<1>2. QED BY <1>1, ShareInitIInv, PTL DEF ShareSpec

\* Nothing is behind the saved cursor that no sync has offered to the pipeline and no
\* listing from "latest" went past, for any number of syncs, deaths and changes.
\* (sync_incremental saves the token last.)
THEOREM CursorSafe == ShareSpec => []CursorCovered
<1>1. ShareIInv => CursorCovered BY DEF ShareIInv
<1>2. QED BY <1>1, ShareInvariance, PTL

-----------------------------------------------------------------------------
(* RecallFeedback                                                          *)

\* A call that moves files holds the lock; the chunks whose files it has still to move
\* have not been moved for its recall.
CallSound(t) ==
    /\ feedback[t].pc # "idle" => feedback[t].recall \in minted
    /\ feedback[t].pc = "apply" =>
          /\ mutex = t
          /\ \A c \in feedback[t].taken :
                FileOf[c] \in feedback[t].todo => moves[feedback[t].recall][c] = 0

\* Nothing is moved for a recall that is still to be minted.
MovesKnown == \A r \in Recalls \ minted : \A c \in Chunks : moves[r][c] = 0

FeedbackIInv ==
    /\ FeedbackTypeOK
    /\ MovedOnce
    /\ MovesKnown
    /\ \A t \in Threads : CallSound(t)

Busy == [pc: {"wait", "apply"}, recall: Recalls, given: SUBSET Chunks,
         todo: SUBSET ChunkFiles, taken: SUBSET Chunks]

LEMMA FeedbackInitIInv == FeedbackInit => FeedbackIInv
BY FeedbackAssumption
   DEF FeedbackInit, FeedbackIInv, FeedbackTypeOK, FeedbackCall, NoFeedback, RecallEntry,
       Unknown, MovedOnce, MovesKnown, CallSound

LEMMA RegisterKeeps ==
    ASSUME NEW r \in Recalls, NEW chunks \in SUBSET Chunks, FeedbackIInv,
           RegisterRecall(r, chunks)
    PROVE  FeedbackIInv'
<1>1. /\ UNCHANGED <<mutex, feedback, there, moves, feedbacks>>
      /\ minted' = minted \union {r} /\ r \notin minted /\ mutex = Nobody
      /\ entries' = [q \in Recalls |->
            IF q = r THEN [fresh |-> TRUE, chunks |-> chunks, applied |-> {}]
            ELSE IF entries[q].fresh THEN entries[q] ELSE Unknown]
  BY DEF RegisterRecall
<1>2. entries' \in [Recalls -> RecallEntry]
  BY <1>1 DEF FeedbackIInv, FeedbackTypeOK, RecallEntry, Unknown
<1>3. FeedbackTypeOK' BY <1>1, <1>2 DEF FeedbackIInv, FeedbackTypeOK
<1>4. MovedOnce'
  <2> SUFFICES ASSUME NEW q \in Recalls, NEW c \in Chunks
               PROVE  /\ moves[q][c] <= 1
                      /\ entries'[q].fresh => (c \in entries'[q].applied <=> moves[q][c] = 1)
    BY <1>1 DEF MovedOnce
  <2>1. CASE q = r BY <1>1, <2>1 DEF FeedbackIInv, MovesKnown, MovedOnce
  <2>2. CASE q # r BY <1>1, <2>2 DEF FeedbackIInv, MovedOnce, Unknown
  <2>3. QED BY <2>1, <2>2
<1>5. MovesKnown' BY <1>1 DEF FeedbackIInv, MovesKnown
<1>6. \A t \in Threads : CallSound(t)' BY <1>1 DEF FeedbackIInv, CallSound
<1>7. QED BY <1>3, <1>4, <1>5, <1>6 DEF FeedbackIInv

LEMMA ExpireKeeps ==
    ASSUME NEW r \in Recalls, FeedbackIInv, Expire(r)
    PROVE  FeedbackIInv'
<1>1. /\ UNCHANGED <<mutex, feedback, there, moves, minted, feedbacks>>
      /\ entries' = [entries EXCEPT ![r].fresh = FALSE]
  BY DEF Expire
<1>2. /\ entries' \in [Recalls -> RecallEntry]
      /\ \A q \in Recalls : /\ entries'[q].fresh => entries[q].fresh
                            /\ entries'[q].applied = entries[q].applied
  BY <1>1 DEF FeedbackIInv, FeedbackTypeOK, RecallEntry
<1>3. FeedbackTypeOK' BY <1>1, <1>2 DEF FeedbackIInv, FeedbackTypeOK
<1>4. MovedOnce' BY <1>1, <1>2 DEF FeedbackIInv, MovedOnce
<1>5. MovesKnown' BY <1>1 DEF FeedbackIInv, MovesKnown
<1>6. \A t \in Threads : CallSound(t)' BY <1>1 DEF FeedbackIInv, CallSound
<1>7. QED BY <1>3, <1>4, <1>5, <1>6 DEF FeedbackIInv

LEMMA GiveKeeps ==
    ASSUME NEW t \in Threads, NEW r \in Recalls, NEW given \in SUBSET Chunks, FeedbackIInv,
           GiveFeedback(t, r, given)
    PROVE  FeedbackIInv'
<1> DEFINE call == [pc |-> "wait", recall |-> r, given |-> given, todo |-> {}, taken |-> {}]
<1>1. /\ UNCHANGED <<entries, mutex, there, moves, minted>>
      /\ feedback' = [feedback EXCEPT ![t] = call]
      /\ r \in minted /\ feedbacks < MaxFeedback /\ feedbacks' = feedbacks + 1
  BY DEF GiveFeedback
<1>2. call \in Busy BY DEF Busy
<1>3. feedback' \in [Threads -> FeedbackCall]
  BY <1>1, <1>2 DEF FeedbackIInv, FeedbackTypeOK, FeedbackCall, Busy
<1>4. FeedbackTypeOK'
  BY <1>1, <1>3, FeedbackAssumption DEF FeedbackIInv, FeedbackTypeOK
<1>5. MovedOnce' BY <1>1 DEF FeedbackIInv, MovedOnce
<1>6. MovesKnown' BY <1>1 DEF FeedbackIInv, MovesKnown
<1>7. \A u \in Threads : CallSound(u)'
  BY <1>1 DEF FeedbackIInv, FeedbackTypeOK, CallSound
<1>8. QED BY <1>4, <1>5, <1>6, <1>7 DEF FeedbackIInv

LEMMA TakeKeeps ==
    ASSUME NEW t \in Threads, FeedbackIInv, TakeFeedback(t)
    PROVE  FeedbackIInv'
<1> DEFINE r == feedback[t].recall
           taken == IF entries[r].fresh THEN Takes(t) ELSE {}
           call == [feedback[t] EXCEPT !.pc = "apply", !.todo = {FileOf[c] : c \in taken},
                                       !.taken = taken]
<1>1. /\ UNCHANGED <<there, moves, minted, feedbacks>> /\ mutex = Nobody /\ mutex' = t
      /\ feedback[t].pc = "wait"
      /\ feedback' = [feedback EXCEPT ![t] = call]
      /\ entries' = [entries EXCEPT ![r] = IF entries[r].fresh THEN entries[r] ELSE Unknown]
  BY DEF TakeFeedback
<1>2. feedback[t] \in Busy /\ r \in Recalls /\ r \in minted
  BY <1>1 DEF FeedbackIInv, FeedbackTypeOK, FeedbackCall, Busy, CallSound
<1>3. taken \subseteq Chunks /\ {FileOf[c] : c \in taken} \subseteq ChunkFiles
  BY <1>2 DEF Takes, Busy, ChunkFiles
<1>4. call \in Busy /\ call.pc = "apply" /\ call.recall = r /\ call.taken = taken
  BY <1>2, <1>3 DEF Busy
<1>5. ASSUME NEW c \in taken PROVE moves[r][c] = 0
  <2>1. entries[r].fresh /\ c \in Chunks /\ c \notin entries[r].applied
    BY <1>3, <1>5 DEF Takes
  <2>2. moves[r][c] \in Nat /\ moves[r][c] <= 1 /\ moves[r][c] # 1
    BY <1>2, <2>1 DEF FeedbackIInv, FeedbackTypeOK, MovedOnce
  <2>3. QED BY <2>2
<1> HIDE DEF call, taken, r
<1>6. feedback' \in [Threads -> FeedbackCall]
  BY <1>1, <1>4 DEF FeedbackIInv, FeedbackTypeOK, FeedbackCall, Busy
<1>7. /\ entries' \in [Recalls -> RecallEntry]
      /\ \A q \in Recalls : entries'[q].fresh => entries'[q] = entries[q]
  BY <1>1, <1>2 DEF FeedbackIInv, FeedbackTypeOK, RecallEntry, Unknown
<1>8. FeedbackTypeOK' BY <1>1, <1>6, <1>7 DEF FeedbackIInv, FeedbackTypeOK
<1>9. MovedOnce' BY <1>1, <1>7 DEF FeedbackIInv, MovedOnce
<1>10. MovesKnown' BY <1>1 DEF FeedbackIInv, MovesKnown
<1>11. ASSUME NEW u \in Threads PROVE CallSound(u)'
  <2>1. CASE u = t
    BY <1>1, <1>2, <1>4, <1>5, <2>1 DEF FeedbackIInv, FeedbackTypeOK, CallSound
  <2>2. CASE u # t
    BY <1>1, <2>2, FeedbackAssumption DEF FeedbackIInv, FeedbackTypeOK, CallSound
  <2>3. QED BY <2>1, <2>2
<1>12. QED BY <1>8, <1>9, <1>10, <1>11 DEF FeedbackIInv

LEMMA MoveFileKeeps ==
    ASSUME NEW t \in Threads, NEW f \in ChunkFiles, FeedbackIInv, MoveFile(t, f)
    PROVE  FeedbackIInv'
<1> DEFINE r == feedback[t].recall
           moved == ChunksOf(t, f)
<1>1. /\ UNCHANGED <<mutex, there, minted, feedbacks>>
      /\ feedback[t].pc = "apply" /\ f \in feedback[t].todo
      /\ moves' = [moves EXCEPT ![r] =
            [c \in Chunks |-> IF c \in moved THEN moves[r][c] + 1 ELSE moves[r][c]]]
      /\ entries' = [entries EXCEPT ![r].applied = entries[r].applied \union moved]
      /\ feedback' = [feedback EXCEPT ![t].todo = feedback[t].todo \ {f}]
  BY DEF MoveFile
<1>2. feedback[t] \in Busy /\ r \in Recalls /\ r \in minted /\ mutex = t
  BY <1>1 DEF FeedbackIInv, FeedbackTypeOK, FeedbackCall, Busy, CallSound
<1>3. moved = {c \in feedback[t].taken : FileOf[c] = f} /\ moved \subseteq Chunks
  BY <1>2 DEF ChunksOf, Busy
<1>4. \A c \in moved : moves[r][c] = 0
  BY <1>1, <1>3 DEF FeedbackIInv, CallSound
<1> HIDE DEF moved, r
<1>5. /\ feedback' \in [Threads -> FeedbackCall]
      /\ feedback'[t].todo = feedback[t].todo \ {f} /\ feedback'[t].taken = feedback[t].taken
      /\ feedback'[t].pc = "apply" /\ feedback'[t].recall = feedback[t].recall
      /\ \A u \in Threads : u # t => feedback'[u] = feedback[u]
  BY <1>1, <1>2 DEF FeedbackIInv, FeedbackTypeOK, FeedbackCall, Busy
<1>6. /\ moves' \in [Recalls -> [Chunks -> Nat]]
      /\ \A q \in Recalls : q # r => moves'[q] = moves[q]
      /\ \A c \in Chunks : moves'[r][c] = IF c \in moved THEN 1 ELSE moves[r][c]
  BY <1>1, <1>2, <1>4 DEF FeedbackIInv, FeedbackTypeOK
<1>7. /\ entries' \in [Recalls -> RecallEntry]
      /\ \A q \in Recalls : q # r => entries'[q] = entries[q]
      /\ entries'[r].applied = entries[r].applied \union moved
      /\ entries'[r].fresh = entries[r].fresh
  BY <1>1, <1>2, <1>3 DEF FeedbackIInv, FeedbackTypeOK, RecallEntry
<1>8. FeedbackTypeOK' BY <1>1, <1>5, <1>6, <1>7 DEF FeedbackIInv, FeedbackTypeOK
<1>9. MovedOnce'
  <2> SUFFICES ASSUME NEW q \in Recalls, NEW c \in Chunks
               PROVE  /\ moves'[q][c] <= 1
                      /\ entries'[q].fresh => (c \in entries'[q].applied <=> moves'[q][c] = 1)
    BY DEF MovedOnce
  <2>1. CASE q = r BY <1>2, <1>6, <1>7, <2>1 DEF FeedbackIInv, MovedOnce
  <2>2. CASE q # r BY <1>6, <1>7, <2>2 DEF FeedbackIInv, MovedOnce
  <2>3. QED BY <2>1, <2>2
<1>10. MovesKnown' BY <1>1, <1>2, <1>6 DEF FeedbackIInv, MovesKnown
<1>11. ASSUME NEW u \in Threads PROVE CallSound(u)'
  <2>1. CASE u = t
    BY <1>1, <1>2, <1>3, <1>5, <1>6, <2>1 DEF FeedbackIInv, CallSound, r, Busy
  <2>2. CASE u # t
    BY <1>1, <1>2, <1>5, <2>2 DEF FeedbackIInv, CallSound
  <2>3. QED BY <2>1, <2>2
<1>12. QED BY <1>8, <1>9, <1>10, <1>11 DEF FeedbackIInv

LEMMA MoveFailsKeeps ==
    ASSUME NEW t \in Threads, NEW f \in ChunkFiles, FeedbackIInv, MoveFails(t, f)
    PROVE  FeedbackIInv'
<1>1. /\ UNCHANGED <<entries, mutex, there, moves, minted, feedbacks>>
      /\ feedback[t].pc = "apply"
      /\ feedback' = [feedback EXCEPT ![t].todo = feedback[t].todo \ {f}]
  BY DEF MoveFails
<1>2. feedback[t] \in Busy
  BY <1>1 DEF FeedbackIInv, FeedbackTypeOK, FeedbackCall, Busy
<1>3. /\ feedback' \in [Threads -> FeedbackCall]
      /\ feedback'[t].todo \subseteq feedback[t].todo /\ feedback'[t].taken = feedback[t].taken
      /\ feedback'[t].pc = "apply" /\ feedback'[t].recall = feedback[t].recall
      /\ \A u \in Threads : u # t => feedback'[u] = feedback[u]
  BY <1>1, <1>2 DEF FeedbackIInv, FeedbackTypeOK, FeedbackCall, Busy
<1>4. FeedbackTypeOK' BY <1>1, <1>3 DEF FeedbackIInv, FeedbackTypeOK
<1>5. MovedOnce' BY <1>1 DEF FeedbackIInv, MovedOnce
<1>6. MovesKnown' BY <1>1 DEF FeedbackIInv, MovesKnown
<1>7. \A u \in Threads : CallSound(u)' BY <1>1, <1>3 DEF FeedbackIInv, CallSound
<1>8. QED BY <1>4, <1>5, <1>6, <1>7 DEF FeedbackIInv

LEMMA DoneKeeps ==
    ASSUME NEW t \in Threads, FeedbackIInv, FeedbackDone(t)
    PROVE  FeedbackIInv'
<1>1. /\ UNCHANGED <<entries, there, moves, minted, feedbacks>>
      /\ mutex' = Nobody /\ feedback[t].pc = "apply"
      /\ feedback' = [feedback EXCEPT ![t] = NoFeedback]
  BY DEF FeedbackDone
<1>2. FeedbackTypeOK'
  BY <1>1 DEF FeedbackIInv, FeedbackTypeOK, FeedbackCall, NoFeedback
<1>3. MovedOnce' /\ MovesKnown' BY <1>1 DEF FeedbackIInv, MovedOnce, MovesKnown
<1>4. \A u \in Threads : CallSound(u)'
  BY <1>1 DEF FeedbackIInv, FeedbackTypeOK, CallSound, NoFeedback
<1>5. QED BY <1>2, <1>3, <1>4 DEF FeedbackIInv

LEMMA FilesKeep ==
    ASSUME NEW f \in ChunkFiles, FeedbackIInv, FileComesOrGoes(f)
    PROVE  FeedbackIInv'
BY DEF FileComesOrGoes, FeedbackIInv, FeedbackTypeOK, MovedOnce, MovesKnown, CallSound

THEOREM FeedbackInvariance == FeedbackSpec => []FeedbackIInv
<1>1. FeedbackIInv /\ [FeedbackNext]_feedbackVars => FeedbackIInv'
  <2> SUFFICES ASSUME FeedbackIInv, [FeedbackNext]_feedbackVars PROVE FeedbackIInv' OBVIOUS
  <2>1. CASE UNCHANGED feedbackVars
    BY <2>1 DEF feedbackVars, FeedbackIInv, FeedbackTypeOK, MovedOnce, MovesKnown, CallSound
  <2>2. CASE FeedbackNext
    BY <2>2, RegisterKeeps, ExpireKeeps, GiveKeeps, TakeKeeps, MoveFileKeeps, MoveFailsKeeps,
       DoneKeeps, FilesKeep
       DEF FeedbackNext
  <2>3. QED BY <2>1, <2>2
<1>2. QED BY <1>1, FeedbackInitIInv, PTL DEF FeedbackSpec

\* Whatever calls are repeated or concurrent, and whatever files come and go in them, a chunk
\* of a recall that is known is applied exactly if its file has been moved for it, once.
\* (apply_feedback: the snapshot under the lock, applied.add after the rewrite.)
THEOREM MovesOnce == FeedbackSpec => []MovedOnce
<1>1. FeedbackIInv => MovedOnce BY DEF FeedbackIInv
<1>2. QED BY <1>1, FeedbackInvariance, PTL

LEMMA MaxOfBounded ==
    ASSUME NEW m \in Nat, NEW S \in SUBSET (0..m), S # {}
    PROVE  Max(S) \in S /\ \A y \in S : Max(S) >= y
<1> DEFINE mirrored == {m - x : x \in S}
<1>1. \A x \in S : x \in Nat /\ x <= m /\ m - x \in Nat OBVIOUS
<1>2a. \A z \in mirrored : z \in Nat BY <1>1
<1>2b. mirrored \subseteq Nat /\ mirrored # {} BY <1>2a
<1>2. PICK z \in mirrored : \A y \in mirrored : z <= y BY <1>2b, LeastNatural
<1>3. PICK x \in S : z = m - x BY <1>2
<1>4. \A y \in S : x >= y BY <1>1, <1>2, <1>3
<1>5. QED BY <1>4 DEF Max

-----------------------------------------------------------------------------
(* HnswIndex                                                               *)

\* No two ids have the same label.
OneLabelEach(map) ==
    \A d, e \in Discoveries : map[d] # 0 /\ map[d] = map[e] => d = e

\* The two files go together, although they are not written together.
FilesMatch ==
    /\ "labels" \in filesThere => "index" \in filesThere
    /\ "labels" \notin filesThere => labelsFile = NoLabels
    /\ OneLabelEach(labelsFile)
    /\ \A d \in Discoveries \ notAdded : labelsFile[d] # 0 => indexFile[labelsFile[d]] = d

\* A label in memory is below the next one, and one that is saved is kept.
LabelsKept ==
    up => /\ OneLabelEach(labelMap)
          /\ \A d \in Discoveries : labelMap[d] < nextLabel
          /\ \A d \in Discoveries : labelsFile[d] # 0 => labelMap[d] = labelsFile[d]

HnswIInv ==
    /\ HnswTypeOK
    /\ LabelsMatch
    /\ FilesMatch
    /\ LabelsKept
    /\ saving => up /\ indexFile = vectors /\ "index" \in filesThere

LEMMA HnswInitIInv == HnswInit => HnswIInv
<1> SUFFICES ASSUME HnswInit PROVE HnswIInv OBVIOUS
<1>1. MaxLabel \in Nat /\ MaxDeaths \in Nat /\ 1 \in 1..(MaxLabel + 1) /\ 0 \in 0..MaxDeaths
  BY IndexBounds
<1>2. NoLabels \in [Discoveries -> 0..MaxLabel] BY <1>1 DEF NoLabels
<1>3. NoVectors \in [Labels -> Discoveries \union {NoVector}] BY DEF NoVectors
<1>4. HnswTypeOK BY <1>1, <1>2, <1>3 DEF HnswInit, HnswTypeOK
<1>5. QED
  BY <1>4 DEF HnswInit, HnswIInv, LabelsMatch, FilesMatch, LabelsKept, OneLabelEach, NoLabels

LEMMA LoadKeeps == HnswIInv /\ LoadIndex => HnswIInv'
<1> SUFFICES ASSUME HnswIInv, LoadIndex PROVE HnswIInv' OBVIOUS
<1>1. /\ ~up /\ up' = TRUE /\ ~saving
      /\ UNCHANGED <<indexFile, labelsFile, filesThere, saving, notAdded, deaths>>
  BY DEF LoadIndex, HnswIInv
<1>2. labelMap' = labelsFile
  BY DEF LoadIndex, HnswIInv, HnswTypeOK, FilesMatch
<1>3. labelMap' # NoLabels => vectors' = indexFile
  BY <1>2 DEF LoadIndex, HnswIInv, HnswTypeOK, FilesMatch
<1>4. labelMap' \in [Discoveries -> 0..MaxLabel] BY <1>2 DEF HnswIInv, HnswTypeOK
<1>5. vectors' \in [Labels -> Discoveries \union {NoVector}]
  BY DEF LoadIndex, HnswIInv, HnswTypeOK, NoVectors
<1>6. nextLabel' \in 1..(MaxLabel + 1) /\ \A d \in Discoveries : labelMap'[d] < nextLabel'
  <2> DEFINE given == {0} \union {labelMap'[d] : d \in Discoveries}
  <2>1. given \in SUBSET (0..MaxLabel) /\ MaxLabel \in Nat BY <1>4, IndexBounds
  <2>2. Max(given) \in given /\ \A y \in given : Max(given) >= y BY <2>1, MaxOfBounded
  <2>3. nextLabel' = 1 + Max(given) BY DEF LoadIndex
  <2>4. \A d \in Discoveries : labelMap'[d] \in given OBVIOUS
  <2> HIDE DEF given
  <2> DEFINE top == Max(given)
  <2>5. top \in 0..MaxLabel /\ \A d \in Discoveries : labelMap'[d] <= top
    BY <2>1, <2>2, <2>4
  <2>6. nextLabel' = 1 + top BY <2>3
  <2> HIDE DEF top
  <2>7. QED BY <1>4, <2>1, <2>5, <2>6
<1>7. HnswTypeOK' BY <1>1, <1>4, <1>5, <1>6 DEF HnswIInv, HnswTypeOK
<1>8. FilesMatch' BY <1>1 DEF HnswIInv, FilesMatch, OneLabelEach
<1>9. LabelsKept' BY <1>1, <1>2, <1>6 DEF HnswIInv, FilesMatch, LabelsKept, OneLabelEach
<1>10. LabelsMatch'
  BY <1>1, <1>2, <1>3 DEF HnswIInv, FilesMatch, LabelsMatch, NoLabels
<1>11. QED BY <1>1, <1>7, <1>8, <1>9, <1>10 DEF HnswIInv

\* A label is new, or the id's own; in either case no other id has it.
LEMMA LabelGiven ==
    ASSUME NEW d \in Discoveries, HnswIInv, up, GiveLabel(d)
    PROVE  /\ labelMap' \in [Discoveries -> 0..MaxLabel]
           /\ nextLabel' \in 1..(MaxLabel + 1)
           /\ labelMap'[d] \in Labels
           /\ \A e \in Discoveries : e # d => /\ labelMap'[e] = labelMap[e]
                                             /\ labelMap'[e] # labelMap'[d]
           /\ \A e \in Discoveries : /\ labelMap'[e] < nextLabel'
                                     /\ labelMap[e] # 0 => labelMap'[e] = labelMap[e]
           /\ OneLabelEach(labelMap')
<1>1. /\ labelMap \in [Discoveries -> 0..MaxLabel] /\ nextLabel \in 1..(MaxLabel + 1)
      /\ \A e \in Discoveries : labelMap[e] < nextLabel
      /\ OneLabelEach(labelMap) /\ MaxLabel \in Nat
  BY IndexBounds DEF HnswIInv, HnswTypeOK, LabelsKept
<1>2. CASE labelMap[d] # 0
  BY <1>1, <1>2 DEF GiveLabel, OneLabelEach, Labels
<1>3. CASE labelMap[d] = 0
  <2>1. /\ nextLabel <= MaxLabel /\ nextLabel' = nextLabel + 1
        /\ labelMap' = [labelMap EXCEPT ![d] = nextLabel]
    BY <1>3 DEF GiveLabel
  <2>2. /\ labelMap' \in [Discoveries -> 0..MaxLabel] /\ labelMap'[d] = nextLabel
        /\ \A e \in Discoveries : e # d => labelMap'[e] = labelMap[e]
    BY <1>1, <2>1
  <2>3. OneLabelEach(labelMap') BY <1>1, <2>2 DEF OneLabelEach
  <2>4. QED BY <1>1, <1>3, <2>1, <2>2, <2>3 DEF Labels
<1>4. QED BY <1>2, <1>3

LEMMA UpsertKeeps ==
    ASSUME NEW d \in Discoveries, HnswIInv, UpsertVector(d) \/ UpsertFails(d)
    PROVE  HnswIInv'
<1>1. /\ up /\ ~saving /\ GiveLabel(d)
      /\ UNCHANGED <<up, indexFile, labelsFile, filesThere, saving, deaths>>
      /\ \/ vectors' = [vectors EXCEPT ![labelMap'[d]] = d] /\ notAdded' = notAdded
         \/ vectors' = vectors /\ notAdded' = notAdded \union {d}
  BY DEF UpsertVector, UpsertFails
<1> DEFINE m == labelMap'
           n == nextLabel'
<1>2. /\ m \in [Discoveries -> 0..MaxLabel]
      /\ n \in 1..(MaxLabel + 1)
      /\ m[d] \in Labels
      /\ \A e \in Discoveries : e # d => m[e] = labelMap[e] /\ m[e] # m[d]
      /\ \A e \in Discoveries : m[e] < n /\ (labelMap[e] # 0 => m[e] = labelMap[e])
      /\ OneLabelEach(m)
  BY <1>1, LabelGiven
<1>3. HnswTypeOK' BY <1>1, <1>2 DEF HnswIInv, HnswTypeOK
<1>4. FilesMatch' BY <1>1 DEF HnswIInv, FilesMatch, OneLabelEach
<1>5. LabelsKept'
  <2>1. OneLabelEach(labelMap)' BY <1>2 DEF OneLabelEach
  <2>2. \A e \in Discoveries : labelsFile[e] # 0 => m[e] = labelsFile[e]
    BY <1>1, <1>2 DEF HnswIInv, LabelsKept
  <2>3. QED BY <1>1, <1>2, <2>1, <2>2 DEF LabelsKept
<1>6. LabelsMatch'
  <2> SUFFICES ASSUME NEW e \in Discoveries \ notAdded', m[e] # 0
               PROVE  vectors'[m[e]] = e
    BY DEF LabelsMatch
  <2>1. vectors \in [Labels -> Discoveries \union {NoVector}] BY DEF HnswIInv, HnswTypeOK
  <2>2. CASE e = d BY <1>1, <1>2, <2>1, <2>2
  <2>3. CASE e # d
    <3>1. m[e] = labelMap[e] /\ m[e] # m[d] /\ e \notin notAdded BY <1>1, <1>2, <2>3
    <3>2. vectors[m[e]] = e BY <1>1, <3>1 DEF HnswIInv, LabelsMatch
    <3>3. m[e] \in Labels BY <1>2, <3>1 DEF Labels
    <3> HIDE DEF m
    <3>4. QED BY <1>1, <2>1, <3>1, <3>2, <3>3 DEF m
  <2>4. QED BY <2>2, <2>3
<1>7. QED BY <1>1, <1>3, <1>4, <1>5, <1>6 DEF HnswIInv

\* With the index of now, the labels of an earlier save are still right.
LEMMA SaveIndexKeeps == HnswIInv /\ SaveIndex => HnswIInv'
<1> SUFFICES ASSUME HnswIInv, SaveIndex PROVE HnswIInv' OBVIOUS
<1>1. HnswTypeOK' BY DEF SaveIndex, HnswIInv, HnswTypeOK
<1>2. \A d \in Discoveries \ notAdded : labelsFile[d] # 0 => vectors[labelsFile[d]] = d
  BY DEF SaveIndex, HnswIInv, LabelsKept, LabelsMatch
<1>3. FilesMatch' BY <1>2 DEF SaveIndex, HnswIInv, FilesMatch, OneLabelEach
<1>4. LabelsKept' /\ LabelsMatch'
  BY DEF SaveIndex, HnswIInv, LabelsKept, LabelsMatch, OneLabelEach
<1>5. QED BY <1>1, <1>3, <1>4 DEF SaveIndex, HnswIInv

LEMMA SaveLabelsKeeps == HnswIInv /\ SaveLabels => HnswIInv'
<1> SUFFICES ASSUME HnswIInv, SaveLabels PROVE HnswIInv' OBVIOUS
<1>1. HnswTypeOK' BY DEF SaveLabels, HnswIInv, HnswTypeOK
<1>2. FilesMatch'
  BY DEF SaveLabels, HnswIInv, FilesMatch, LabelsKept, LabelsMatch, OneLabelEach
<1>3. LabelsKept' /\ LabelsMatch'
  BY DEF SaveLabels, HnswIInv, LabelsKept, LabelsMatch, OneLabelEach
<1>4. QED BY <1>1, <1>2, <1>3 DEF SaveLabels, HnswIInv

LEMMA SaveEndKeeps == HnswIInv /\ (SaveLabelsFails \/ ServerDies) => HnswIInv'
<1> SUFFICES ASSUME HnswIInv, SaveLabelsFails \/ ServerDies PROVE HnswIInv' OBVIOUS
<1>1. /\ UNCHANGED <<labelMap, vectors, nextLabel, indexFile, labelsFile, filesThere, notAdded>>
      /\ saving' = FALSE /\ up' \in BOOLEAN /\ (up' => up)
      /\ deaths' = deaths \/ (deaths < MaxDeaths /\ deaths' = deaths + 1)
  BY DEF SaveLabelsFails, ServerDies, HnswIInv, HnswTypeOK
<1>2. HnswTypeOK'
  <2>1. deaths' \in 0..MaxDeaths BY <1>1, IndexBounds DEF HnswIInv, HnswTypeOK
  <2>2. saving' \in BOOLEAN BY <1>1
  <2>3. QED BY <1>1, <2>1, <2>2 DEF HnswIInv, HnswTypeOK
<1>3. FilesMatch' BY <1>1 DEF HnswIInv, FilesMatch, OneLabelEach
<1>4. LabelsKept' /\ LabelsMatch'
  BY <1>1 DEF HnswIInv, LabelsKept, LabelsMatch, OneLabelEach
<1>5. QED BY <1>1, <1>2, <1>3, <1>4 DEF HnswIInv

THEOREM HnswInvariance == HnswSpec => []HnswIInv
<1>1. HnswIInv /\ [HnswNext]_hnswVars => HnswIInv'
  <2> SUFFICES ASSUME HnswIInv, [HnswNext]_hnswVars PROVE HnswIInv' OBVIOUS
  <2>1. CASE UNCHANGED hnswVars
    BY <2>1 DEF hnswVars, HnswIInv, HnswTypeOK, FilesMatch, LabelsKept, LabelsMatch,
                OneLabelEach
  <2>2. CASE HnswNext
    BY <2>2, LoadKeeps, UpsertKeeps, SaveIndexKeeps, SaveLabelsKeeps, SaveEndKeeps DEF HnswNext
  <2>3. QED BY <2>1, <2>2
<1>2. QED BY <1>1, HnswInitIInv, PTL DEF HnswSpec

\* A search never shows one discovery for another's vector, after any deaths between the
\* two files.  (The order of the replaces in HNSWStore.save, _next_label in _init_index.)
THEOREM LabelsRight == HnswSpec => []LabelsMatch
<1>1. HnswIInv => LabelsMatch BY DEF HnswIInv
<1>2. QED BY <1>1, HnswInvariance, PTL

-----------------------------------------------------------------------------
(* MemoryLog                                                               *)

\* The event of the call that process c executes.
Working(c) == tool[c].pc # "idle"

\* An event is appended once: no two calls have the same, and it is not in the log before.
EventsApart ==
    /\ \A e \in logged : e.n <= events
    /\ \A c \in Callers : Working(c) =>
          /\ tool[c].event.n <= events
          /\ tool[c].pc = "append" => tool[c].event \notin logged
          /\ tool[c].pc = "upsert" => tool[c].event \in logged
          /\ \A d \in Callers : Working(d) /\ d # c => tool[d].event.n # tool[c].event.n

\* The record that a call will write shows nothing but what is logged and its own event.
RecordLogged(c) ==
    LET m == tool[c].event.memory
        kind == tool[c].event.kind
        record == tool[c].record
    IN  /\ kind = "created" \/ Logged(m, "created")
        /\ record.superseded => kind = "superseded" \/ Logged(m, "superseded")
        /\ \A n \in record.outcomes :
              n = tool[c].event.n \/ \E e \in logged : e.n = n /\ e.memory = m

\* A line without an end is of an append that a death cut short, and is paid for.
TearsPaid ==
    /\ IsFiniteSet(logged)
    /\ ~LogEnded => lines[Len(lines)].row \notin logged
    /\ Cardinality(logged \ ReplayEvents) + (IF LogEnded THEN 0 ELSE 1) <= tears

LogIInv ==
    /\ LogTypeOK
    /\ LoggedFirst
    /\ EventsApart
    /\ \A c \in Callers : Working(c) => RecordLogged(c)
    /\ TearsPaid

LogLine == [row: LogEvent \union {Scrap}, ended: BOOLEAN]
Call == [pc: {"append", "upsert"}, event: LogEvent, record: MemoryRecord]

LEMMA CallsTyped ==
    ASSUME LogTypeOK, NEW c \in Callers, Working(c)
    PROVE  tool[c] \in Call
BY DEF LogTypeOK, Working, ToolCall, Call

LEMMA LogInitIInv == LogInit => LogIInv
<1> SUFFICES ASSUME LogInit PROVE LogIInv OBVIOUS
<1>1. LogTypeOK BY LogBounds DEF LogInit, LogTypeOK, ToolCall, NoCall
<1>2. \A c \in Callers : ~Working(c) BY DEF LogInit, NoCall, Working
<1>3. LoggedFirst BY DEF LogInit, LoggedFirst
<1>4. EventsApart BY <1>2 DEF LogInit, EventsApart
<1>5. TearsPaid
  <2>1. LogEnded /\ logged \ ReplayEvents = {} /\ tears = 0 /\ logged = {}
    BY DEF LogInit, LogEnded
  <2>2. QED BY <2>1, FS_EmptySet DEF TearsPaid
<1>6. QED BY <1>1, <1>2, <1>3, <1>4, <1>5 DEF LogIInv

\* What is logged stays logged, so a record goes on showing only that.
LEMMA StartKeeps ==
    ASSUME NEW c \in Callers, NEW m \in Memories, LogIInv,
           RecordDecision(c, m) \/ ReportOutcome(c, m) \/ MarkSuperseded(c, m)
    PROVE  LogIInv'
<1>1. PICK kind \in {"created", "superseded", "outcome"}, record \in MemoryRecord :
          /\ StartTool(c, m, kind, record)
          /\ kind = "created" \/ Logged(m, "created")
          /\ record.superseded => kind = "superseded" \/ Logged(m, "superseded")
          /\ \A n \in record.outcomes :
                n = events + 1 \/ \E e \in logged : e.n = n /\ e.memory = m
  <2>1. CASE RecordDecision(c, m)
    <3>1. StartTool(c, m, "created", NewMemory) BY <2>1 DEF RecordDecision
    <3>2. NewMemory \in MemoryRecord /\ ~NewMemory.superseded /\ NewMemory.outcomes = {}
      BY DEF NewMemory, MemoryRecord
    <3>3. QED BY <3>1, <3>2
  <2>2. memories[m] # Missing => memories[m] \in MemoryRecord
    BY DEF LogIInv, LogTypeOK
  <2>3. CASE ReportOutcome(c, m)
    <3> DEFINE record == [memories[m] EXCEPT !.outcomes = @ \union {events + 1}]
    <3>1. memories[m] # Missing /\ StartTool(c, m, "outcome", record)
      BY <2>3 DEF ReportOutcome
    <3>2. events + 1 \in 1..MaxEvents
      BY <3>1, LogBounds DEF StartTool, LogIInv, LogTypeOK
    <3>3. record \in MemoryRecord /\ record.superseded = memories[m].superseded
          /\ record.outcomes = memories[m].outcomes \union {events + 1}
      BY <2>2, <3>1, <3>2 DEF MemoryRecord
    <3> HIDE DEF record
    <3>4. QED BY <3>1, <3>3 DEF LogIInv, LoggedFirst
  <2>4. CASE MarkSuperseded(c, m)
    <3> DEFINE record == [memories[m] EXCEPT !.superseded = TRUE]
    <3>1. memories[m] # Missing /\ StartTool(c, m, "superseded", record)
      BY <2>4 DEF MarkSuperseded
    <3>2. record \in MemoryRecord /\ record.outcomes = memories[m].outcomes
      BY <2>2, <3>1 DEF MemoryRecord
    <3> HIDE DEF record
    <3>3. QED BY <3>1, <3>2 DEF LogIInv, LoggedFirst
  <2>5. QED BY <2>1, <2>3, <2>4
<1> DEFINE event == [n |-> events + 1, memory |-> m, kind |-> kind]
           call == [pc |-> "append", event |-> event, record |-> record]
<1>2. /\ UNCHANGED <<lines, memories, logged, tears>> /\ events < MaxEvents
      /\ events' = events + 1 /\ ~Working(c)
      /\ tool' = [tool EXCEPT ![c] = call]
  BY <1>1 DEF StartTool, Working
<1>3. events \in 0..MaxEvents /\ MaxEvents \in Nat BY LogBounds DEF LogIInv, LogTypeOK
<1>4. event \in LogEvent BY <1>2, <1>3 DEF LogEvent
<1>5. call \in Call BY <1>4 DEF Call
<1>6. tool' \in [Callers -> ToolCall]
  BY <1>2, <1>5 DEF LogIInv, LogTypeOK, ToolCall, Call
<1>7. named' \subseteq Memories
  BY DEF RecordDecision, ReportOutcome, MarkSuperseded, LogIInv, LogTypeOK
<1>8. LogTypeOK' BY <1>2, <1>3, <1>6, <1>7 DEF LogIInv, LogTypeOK
<1>9. LoggedFirst' BY <1>2 DEF LogIInv, LoggedFirst, Logged
<1>10. tool'[c] = call /\ \A d \in Callers : d # c => tool'[d] = tool[d]
  BY <1>2 DEF LogIInv, LogTypeOK
<1>11. event \notin logged /\ \A e \in logged : e.n <= events'
  <2>1. \A e \in logged : e.n <= events /\ e.n \in Nat
    BY DEF LogIInv, LogTypeOK, EventsApart, LogEvent
  <2>2. QED BY <1>2, <1>3, <2>1
<1>12. \A d \in Callers : Working(d) => tool[d].event.n \in Nat /\ tool[d].event.n <= events
  BY CallsTyped DEF LogIInv, EventsApart, Call, LogEvent
<1>13. EventsApart'
  <2> HIDE DEF event
  <2>1. event.n = events + 1 BY DEF event
  <2>2. QED
    BY <1>2, <1>3, <1>10, <1>11, <1>12, <2>1 DEF LogIInv, EventsApart, Working
<1>14. ASSUME NEW d \in Callers, Working(d)' PROVE RecordLogged(d)'
  <2>1. CASE d = c BY <1>1, <1>2, <1>10, <2>1 DEF RecordLogged, Logged
  <2>2. CASE d # c
    BY <1>2, <1>10, <1>14, <2>2 DEF LogIInv, RecordLogged, Logged, Working
  <2>3. QED BY <2>1, <2>2
<1>15. TearsPaid' BY <1>2 DEF LogIInv, TearsPaid, ReplayEvents, LogEnded
<1>16. QED BY <1>8, <1>9, <1>13, <1>14, <1>15 DEF LogIInv

\* Writing a line ends or replaces the last one, and leaves the others.
LEMMA PutLines ==
    ASSUME lines \in Seq(LogLine), NEW row \in LogEvent \union {Scrap}, NEW ended \in BOOLEAN,
           PutLine(row, ended)
    PROVE  /\ lines' \in Seq(LogLine)
           /\ lines' # <<>>
           /\ lines'[Len(lines')].ended = ended
           /\ LogEnded => /\ ReplayEvents \subseteq ReplayEvents'
                          /\ row # Scrap => row \in ReplayEvents'
                          /\ lines'[Len(lines')].row = row
           /\ ~LogEnded => /\ ReplayEvents \ {lines[Len(lines)].row} \subseteq ReplayEvents'
                           /\ lines'[Len(lines')].row = Scrap
<1>1. CASE LogEnded
  <2>1. lines' = Append(lines, [row |-> row, ended |-> ended]) BY <1>1 DEF PutLine
  <2>2. [row |-> row, ended |-> ended] \in LogLine BY DEF LogLine
  <2>3. /\ lines' \in Seq(LogLine) /\ Len(lines') = Len(lines) + 1 /\ Len(lines) \in Nat
        /\ lines'[Len(lines')] = [row |-> row, ended |-> ended]
        /\ \A k \in DOMAIN lines : k \in DOMAIN lines' /\ lines'[k] = lines[k]
        /\ Len(lines') \in DOMAIN lines'
    BY <2>1, <2>2
  <2>4. ReplayEvents \subseteq ReplayEvents' BY <2>3 DEF ReplayEvents
  <2>5. row # Scrap => row \in ReplayEvents' BY <2>3 DEF ReplayEvents
  <2>6. QED BY <1>1, <2>3, <2>4, <2>5
<1>2. CASE ~LogEnded
  <2>1. lines' = [lines EXCEPT ![Len(lines)] = [row |-> Scrap, ended |-> ended]]
        /\ lines # <<>>
    BY <1>2 DEF PutLine, LogEnded
  <2>2. [row |-> Scrap, ended |-> ended] \in LogLine BY DEF LogLine
  <2>3. /\ lines' \in Seq(LogLine) /\ Len(lines') = Len(lines)
        /\ Len(lines) \in DOMAIN lines /\ DOMAIN lines' = DOMAIN lines
        /\ lines'[Len(lines)] = [row |-> Scrap, ended |-> ended]
        /\ \A k \in DOMAIN lines : k # Len(lines) => lines'[k] = lines[k]
    BY <2>1, <2>2
  <2>4. ReplayEvents \ {lines[Len(lines)].row} \subseteq ReplayEvents'
    BY <2>3 DEF ReplayEvents
  <2>5. lines' # <<>> BY <2>3
  <2>6. QED BY <1>2, <2>3, <2>4, <2>5
<1>3. QED BY <1>1, <1>2

\* An event glued to an unended line is lost, and the line's tear has paid for it.
LEMMA AppendPaid ==
    ASSUME NEW c \in Callers, LogIInv, AppendEvent(c)
    PROVE  TearsPaid' /\ lines' \in Seq(LogLine)
<1> DEFINE e == tool[c].event
           lost == logged \ ReplayEvents
           lostNow == logged' \ ReplayEvents'
<1>1. /\ tool[c].pc = "append" /\ PutLine(e, TRUE) /\ logged' = logged \union {e}
      /\ tears' = tears
  BY DEF AppendEvent
<1>2. e \in LogEvent /\ e # Scrap
  BY <1>1, CallsTyped, ScrapAssumption DEF LogIInv, Working, Call
<1>3. lines \in Seq(LogLine) BY DEF LogIInv, LogTypeOK, LogLine
<1>4. /\ lines' \in Seq(LogLine) /\ LogEnded'
      /\ LogEnded => ReplayEvents \subseteq ReplayEvents' /\ e \in ReplayEvents'
      /\ ~LogEnded => ReplayEvents \ {lines[Len(lines)].row} \subseteq ReplayEvents'
  <2>1. lines'[Len(lines')].ended = TRUE BY <1>1, <1>2, <1>3, PutLines
  <2>2. LogEnded' BY <2>1 DEF LogEnded
  <2>3. QED BY <1>1, <1>2, <1>3, <2>2, PutLines
<1>5. /\ IsFiniteSet(logged) /\ IsFiniteSet(lost) /\ IsFiniteSet(logged')
      /\ Cardinality(lost) \in Nat
  BY <1>1, FS_AddElement, FS_Subset, FS_CardinalityType DEF LogIInv, TearsPaid
<1>6. LogEnded => lostNow \subseteq lost BY <1>1, <1>4
<1>7. ~LogEnded => lostNow \subseteq lost \union {e}
  BY <1>1, <1>4 DEF LogIInv, TearsPaid
<1> HIDE DEF lost, lostNow
<1>8. Cardinality(lostNow) \in Nat
      /\ Cardinality(lostNow) <= Cardinality(lost) + (IF LogEnded THEN 0 ELSE 1)
  <2>1. CASE LogEnded BY <1>5, <1>6, <2>1, FS_Subset, FS_CardinalityType
  <2>2. CASE ~LogEnded
    <3>1. /\ IsFiniteSet(lost \union {e})
          /\ Cardinality(lost \union {e}) <= Cardinality(lost) + 1
      <4>1. /\ IsFiniteSet(lost \union {e})
            /\ Cardinality(lost \union {e})
                 = IF e \in lost THEN Cardinality(lost) ELSE Cardinality(lost) + 1
        BY <1>5, FS_AddElement
      <4>2. QED BY <1>5, <4>1
    <3>2. Cardinality(lost \union {e}) \in Nat BY <3>1, FS_CardinalityType
    <3>3. IsFiniteSet(lostNow) /\ Cardinality(lostNow) <= Cardinality(lost \union {e})
      BY <1>7, <2>2, <3>1, FS_Subset
    <3>4. Cardinality(lostNow) \in Nat BY <3>3, FS_CardinalityType
    <3>5. QED BY <1>5, <2>2, <3>1, <3>2, <3>3, <3>4
  <2>3. QED BY <2>1, <2>2
<1>9. Cardinality(lost) + (IF LogEnded THEN 0 ELSE 1) <= tears /\ tears \in Nat
  BY LogBounds DEF LogIInv, TearsPaid, LogTypeOK, lost
<1>10. Cardinality(lostNow) <= tears BY <1>5, <1>8, <1>9
<1>11. QED BY <1>1, <1>4, <1>5, <1>8, <1>10 DEF TearsPaid, lostNow

LEMMA AppendKeeps ==
    ASSUME NEW c \in Callers, LogIInv, AppendEvent(c)
    PROVE  LogIInv'
<1> DEFINE e == tool[c].event
<1>1. /\ tool[c].pc = "append" /\ logged' = logged \union {e}
      /\ tool' = [tool EXCEPT ![c].pc = "upsert"]
      /\ UNCHANGED <<memories, named, events, tears>>
  BY DEF AppendEvent
<1>2. tool[c] \in Call /\ e \in LogEvent /\ Working(c)
  BY <1>1, CallsTyped DEF LogIInv, Working, Call
<1>3. /\ tool'[c].pc = "upsert" /\ tool'[c].event = e /\ tool'[c].record = tool[c].record
      /\ tool'[c] \in Call
      /\ \A d \in Callers : d # c => tool'[d] = tool[d]
      /\ tool' \in [Callers -> ToolCall]
  BY <1>1, <1>2 DEF LogIInv, LogTypeOK, ToolCall, Call
<1>4. TearsPaid' /\ lines' \in Seq(LogLine) BY AppendPaid
<1>5. LogTypeOK' BY <1>1, <1>2, <1>3, <1>4 DEF LogIInv, LogTypeOK, LogLine
<1>6. LoggedFirst' BY <1>1 DEF LogIInv, LoggedFirst, Logged
<1>7. EventsApart'
  <2>1. \A x \in logged' : x.n <= events' BY <1>1, <1>2 DEF LogIInv, EventsApart
  <2>2. \A d \in Callers : /\ Working(d)' <=> Working(d)
                           /\ Working(d) => tool'[d].event = tool[d].event
    BY <1>2, <1>3 DEF Working
  <2>3. ASSUME NEW d \in Callers, Working(d)
        PROVE  /\ tool'[d].pc = "append" => tool'[d].event \notin logged'
               /\ tool'[d].pc = "upsert" => tool'[d].event \in logged'
    BY <1>1, <1>2, <1>3, <2>3 DEF LogIInv, EventsApart
  <2>4. QED BY <1>1, <2>1, <2>2, <2>3 DEF LogIInv, EventsApart
<1>8. ASSUME NEW d \in Callers, Working(d)' PROVE RecordLogged(d)'
  <2>1. Working(d) /\ tool'[d].event = tool[d].event /\ tool'[d].record = tool[d].record
    BY <1>2, <1>3, <1>8 DEF Working
  <2>2. RecordLogged(d) BY <2>1 DEF LogIInv
  <2>3. QED BY <1>1, <2>1, <2>2 DEF RecordLogged, Logged
<1>9. QED BY <1>4, <1>5, <1>6, <1>7, <1>8 DEF LogIInv

\* A call that ends takes nothing from the log, and the others go on.
LEMMA CallEnds ==
    ASSUME NEW c \in Callers, LogIInv, tool' = [tool EXCEPT ![c] = NoCall],
           UNCHANGED <<logged, named, events>>
    PROVE  /\ tool' \in [Callers -> ToolCall]
           /\ EventsApart'
           /\ \A d \in Callers : Working(d)' => RecordLogged(d)'
<1>1. tool' \in [Callers -> ToolCall] BY DEF LogIInv, LogTypeOK, ToolCall, NoCall
<1>2. \A d \in Callers : Working(d)' => Working(d) /\ tool'[d] = tool[d]
  BY DEF LogIInv, LogTypeOK, Working, NoCall
<1>3. EventsApart' BY <1>2 DEF LogIInv, EventsApart
<1>4. \A d \in Callers : Working(d)' => RecordLogged(d)'
  BY <1>2 DEF LogIInv, RecordLogged, Logged
<1>5. QED BY <1>1, <1>3, <1>4

LEMMA TearKeeps ==
    ASSUME NEW c \in Callers, LogIInv, TearLine(c)
    PROVE  LogIInv'
<1>1. /\ tool[c].pc = "append" /\ tears < MaxTears /\ tears' = tears + 1
      /\ tool' = [tool EXCEPT ![c] = NoCall]
      /\ UNCHANGED <<memories, logged, named, events>>
  BY DEF TearLine
<1>2. PICK row \in {tool[c].event, Scrap} : PutLine(row, FALSE) BY DEF TearLine
<1>3. tool[c].event \in LogEvent /\ tool[c].event \notin logged /\ Scrap \notin logged
  BY <1>1, CallsTyped, ScrapAssumption DEF LogIInv, LogTypeOK, Working, Call, EventsApart
<1>4. lines \in Seq(LogLine) BY DEF LogIInv, LogTypeOK, LogLine
<1>5. /\ lines' \in Seq(LogLine) /\ lines' # <<>> /\ lines'[Len(lines')].ended = FALSE
      /\ lines'[Len(lines')].row \in {row, Scrap}
      /\ logged \ ReplayEvents' \subseteq logged \ ReplayEvents
  <2>1. row \in LogEvent \union {Scrap} BY <1>3
  <2>2. ~LogEnded => lines[Len(lines)].row \notin logged BY DEF LogIInv, TearsPaid
  <2>3. QED BY <1>2, <1>4, <2>1, <2>2, PutLines
<1>6. TearsPaid'
  <2> DEFINE lost == logged \ ReplayEvents
             lostNow == logged' \ ReplayEvents'
  <2>1. IsFiniteSet(lost) /\ lostNow \subseteq lost
    BY <1>1, <1>5, FS_Subset DEF LogIInv, TearsPaid
  <2>2. Cardinality(lost) + (IF LogEnded THEN 0 ELSE 1) <= tears /\ tears \in Nat
    BY LogBounds DEF LogIInv, TearsPaid, LogTypeOK
  <2> HIDE DEF lost, lostNow
  <2>3. /\ Cardinality(lostNow) \in Nat /\ Cardinality(lost) \in Nat
        /\ Cardinality(lostNow) <= Cardinality(lost)
    BY <2>1, FS_Subset, FS_CardinalityType
  <2>4. Cardinality(lostNow) + 1 <= tears' BY <1>1, <2>2, <2>3
  <2>5. ~LogEnded' BY <1>5 DEF LogEnded
  <2>6. IsFiniteSet(logged') /\ lines'[Len(lines')].row \notin logged'
    BY <1>1, <1>2, <1>3, <1>5 DEF LogIInv, TearsPaid
  <2>7. QED BY <2>4, <2>5, <2>6 DEF TearsPaid, lostNow
<1>7. LoggedFirst' BY <1>1 DEF LogIInv, LoggedFirst, Logged
<1>8. tears' \in 0..MaxTears BY <1>1, LogBounds DEF LogIInv, LogTypeOK
<1>9. LogTypeOK'
  BY <1>1, <1>5, <1>8, CallEnds DEF LogIInv, LogTypeOK, LogLine
<1>10. QED BY <1>1, <1>6, <1>7, <1>9, CallEnds DEF LogIInv

LEMMA UpsertMemoryKeeps ==
    ASSUME NEW c \in Callers, LogIInv, UpsertMemory(c)
    PROVE  LogIInv'
<1> DEFINE m == tool[c].event.memory
<1>1. /\ tool[c].pc = "upsert"
      /\ memories' = [memories EXCEPT ![m] = tool[c].record]
      /\ tool' = [tool EXCEPT ![c] = NoCall]
      /\ UNCHANGED <<lines, logged, named, events, tears>>
  BY DEF UpsertMemory
<1>2. /\ tool[c] \in Call /\ Working(c) /\ RecordLogged(c) /\ tool[c].event \in logged
  BY <1>1, CallsTyped DEF LogIInv, Working, EventsApart
<1>3. tool[c].record \in MemoryRecord /\ m \in Memories BY <1>2 DEF Call, LogEvent
<1>4. LogTypeOK' BY <1>1, <1>3, CallEnds DEF LogIInv, LogTypeOK
<1>5. LoggedFirst'
  <2> SUFFICES ASSUME NEW k \in Memories, memories'[k] # Missing
               PROVE  /\ Logged(k, "created")
                      /\ memories'[k].superseded => Logged(k, "superseded")
                      /\ \A n \in memories'[k].outcomes :
                            \E e \in logged : e.n = n /\ e.memory = k
    BY <1>1 DEF LoggedFirst, Logged
  <2>1. CASE k = m
    <3>1. memories'[k] = tool[c].record BY <1>1, <1>3, <2>1 DEF LogIInv, LogTypeOK
    <3>2. QED BY <1>2, <2>1, <3>1 DEF RecordLogged, Logged
  <2>2. CASE k # m
    <3>1. memories'[k] = memories[k] BY <1>1, <2>2 DEF LogIInv, LogTypeOK
    <3>2. QED BY <3>1 DEF LogIInv, LoggedFirst
  <2>3. QED BY <2>1, <2>2
<1>6. TearsPaid' BY <1>1 DEF LogIInv, TearsPaid, ReplayEvents, LogEnded
<1>7. QED BY <1>1, <1>4, <1>5, <1>6, CallEnds DEF LogIInv

LEMMA ToolDiesKeeps ==
    ASSUME NEW c \in Callers, LogIInv, ToolDies(c)
    PROVE  LogIInv'
<1>1. /\ tool' = [tool EXCEPT ![c] = NoCall]
      /\ UNCHANGED <<lines, memories, logged, named, events, tears>>
  BY DEF ToolDies
<1>2. LogTypeOK' BY <1>1, CallEnds DEF LogIInv, LogTypeOK
<1>3. LoggedFirst' BY <1>1 DEF LogIInv, LoggedFirst, Logged
<1>4. TearsPaid' BY <1>1 DEF LogIInv, TearsPaid, ReplayEvents, LogEnded
<1>5. QED BY <1>1, <1>2, <1>3, <1>4, CallEnds DEF LogIInv

THEOREM LogInvariance == LogSpec => []LogIInv
<1>1. LogIInv /\ [LogNext]_logVars => LogIInv'
  <2> SUFFICES ASSUME LogIInv, [LogNext]_logVars PROVE LogIInv' OBVIOUS
  <2>1. CASE UNCHANGED logVars
    BY <2>1 DEF logVars, LogIInv, LogTypeOK, LoggedFirst, Logged, EventsApart, Working,
                RecordLogged, TearsPaid, ReplayEvents, LogEnded
  <2>2. CASE LogNext
    BY <2>2, StartKeeps, AppendKeeps, TearKeeps, UpsertMemoryKeeps, ToolDiesKeeps DEF LogNext
  <2>3. QED BY <2>1, <2>2
<1>2. QED BY <1>1, LogInitIInv, PTL DEF LogSpec

\* The log has every change that the store shows, and a death in an append costs at most one
\* acknowledged event, for any processes, memories and deaths.
\* (The order of append and upsert in mcp/tools/decisions.py; EventLog.append.)
THEOREM LogRebuilds == LogSpec => []LogSound
<1>1. LogIInv => LogSound
  <2> SUFFICES ASSUME LogIInv PROVE LogSound OBVIOUS
  <2> DEFINE lost == logged \ ReplayEvents
  <2>1. IsFiniteSet(lost) /\ Cardinality(lost) + (IF LogEnded THEN 0 ELSE 1) <= tears
    BY FS_Subset DEF LogIInv, TearsPaid
  <2> HIDE DEF lost
  <2>2. Cardinality(lost) \in Nat /\ tears \in Nat
    BY <2>1, FS_CardinalityType, LogBounds DEF LogIInv, LogTypeOK
  <2>3. Cardinality(lost) <= tears BY <2>1, <2>2
  <2>4. QED BY <2>3 DEF LogSound, TearLosesOne, LogIInv, lost
<1>2. QED BY <1>1, LogInvariance, PTL

-----------------------------------------------------------------------------
(* SearchCache                                                             *)

\* What the types say of a row, and of a request that waits.
LEMMA RowTyped ==
    ASSUME CacheTypeOK, NEW k \in Keys
    PROVE  /\ rows[k].size \in Nat
           /\ rows[k] # NoRow => rows[k] \in [size: Sizes, hits: 1..MaxHits]
           /\ rows[k].hits \in Nat
<1>1. rows[k] \in [size: Sizes, hits: 1..MaxHits] \union {NoRow}
  BY DEF CacheTypeOK
<1>2. CASE rows[k] \in [size: Sizes, hits: 1..MaxHits]
  <2>1. rows[k].size \in Sizes /\ rows[k].hits \in 1..MaxHits
    BY <1>2
  <2>2. rows[k].size \in Nat
    BY <2>1, SizesAssumption
  <2>3. rows[k].hits \in Nat
    BY <2>1, CacheBounds
  <2> QED BY <1>2, <2>2, <2>3
<1>3. CASE rows[k] = NoRow
  BY <1>3 DEF NoRow
<1> QED BY <1>1, <1>2, <1>3

LEMMA RequestTyped ==
    ASSUME CacheTypeOK, NEW s \in Searches, search[s].busy
    PROVE  search[s].key \in Keys
<1>1. search[s] \in {NotSearching} \union [busy: {TRUE}, key: Keys]
  BY DEF CacheTypeOK
<1>2. search[s] # NotSearching
  BY DEF NotSearching
<1> QED BY <1>1, <1>2

\* The bytes of some rows are finitely many.
LEMMA BytesFinite ==
    ASSUME CacheTypeOK, NEW ks \in SUBSET Keys
    PROVE  IsFiniteSet(Bytes(ks)) /\ SizeOf(ks) \in Nat
<1>1. \A k \in Keys : rows[k].size \in Nat
  BY RowTyped
<1>2. IsFiniteSet(ks)
  BY KeysAssumption, FS_Subset
<1>3. \A k \in ks : rows[k].size \in Nat
  BY <1>1
<1>a. \A n \in Nat : IsFiniteSet(1..n)
  BY FS_Interval
<1>4. \A k \in ks : IsFiniteSet({k} \X (1..rows[k].size))
  BY <1>3, <1>a, FS_Singleton, FS_Product
<1>b. PICK g : g = [k \in ks |-> {k} \X (1..rows[k].size)]
  OBVIOUS
<1>c. g \in Surjection(ks, {g[k] : k \in ks})
  BY <1>b DEF Surjection
<1>d. IsFiniteSet({g[k] : k \in ks})
  BY <1>2, <1>c, FS_Surjection
<1>e. \A s \in {g[k] : k \in ks} : IsFiniteSet(s)
  BY <1>b, <1>4
<1>5. Bytes(ks) = UNION {g[k] : k \in ks}
  BY <1>b DEF Bytes
<1>6. IsFiniteSet(Bytes(ks))
  BY <1>d, <1>e, <1>5, FS_UNION
<1> QED BY <1>6, FS_CardinalityType DEF SizeOf

\* Fewer rows are no more bytes.
LEMMA FewerBytes ==
    ASSUME CacheTypeOK, NEW ks \in SUBSET Keys, NEW js \in SUBSET ks
    PROVE  SizeOf(js) <= SizeOf(ks)
<1>1. IsFiniteSet(Bytes(ks))
  BY BytesFinite
<1>2. Bytes(js) \subseteq Bytes(ks)
  BY DEF Bytes
<1> QED BY <1>1, <1>2, FS_Subset DEF SizeOf

CacheIInv == CacheTypeOK /\ WithinLimit

\* A step that only removes rows, or touches them, keeps the limit.
LEMMA FewerRows ==
    ASSUME CacheIInv, CacheTypeOK',
           \A k \in Keys : rows'[k].size = rows[k].size \/ rows'[k] = NoRow,
           \A k \in Keys : rows[k] = NoRow => rows'[k] = NoRow
    PROVE  WithinLimit'
<1>1. Cached' \subseteq Cached /\ Cached \subseteq Keys
  BY DEF Cached
<1>2. \A k \in Cached' : rows'[k].size = rows[k].size
  BY DEF Cached
<1>3. Bytes(Cached)' = Bytes(Cached')
  BY <1>2 DEF Bytes
<1>4. SizeOf(Cached)' = SizeOf(Cached')
  BY <1>3 DEF SizeOf
<1>5. SizeOf(Cached') <= SizeOf(Cached)
  BY <1>1, FewerBytes DEF CacheIInv
<1>6. SizeOf(Cached) \in Nat /\ SizeOf(Cached') \in Nat
  BY <1>1, BytesFinite DEF CacheIInv
<1>7. CASE SizeOf(Cached) <= Capacity
  BY <1>4, <1>5, <1>6, <1>7, CacheBounds DEF WithinLimit
<1>8. CASE Cardinality(Cached) = 1
  <2>1. IsFiniteSet(Cached)
    BY <1>1, KeysAssumption, FS_Subset
  <2>2. PICK k : Cached = {k}
    BY <2>1, <1>8, FS_Singleton
  <2>3. CASE Cached' = {}
    <3>1. Bytes(Cached') = {}
      BY <2>3 DEF Bytes
    <3>2. SizeOf(Cached') = 0
      BY <3>1, FS_EmptySet DEF SizeOf
    <3> QED BY <1>4, <3>2, CacheBounds DEF WithinLimit
  <2>4. CASE Cached' = {k}
    BY <2>4, FS_Singleton DEF WithinLimit
  <2> QED BY <1>1, <2>2, <2>3, <2>4
<1> QED BY <1>7, <1>8 DEF CacheIInv, WithinLimit

\* An answer is put when it fits beside the rows that stay, or when no other stays.
LEMMA PutFits ==
    ASSUME CacheIInv, CacheTypeOK', NEW k \in Keys, NEW size \in Sizes, Put(k, size)
    PROVE  WithinLimit'
<1>1. PICK gone \in SUBSET Keys :
         /\ MakeRoom(k, size, gone)
         /\ rows' = [j \in Keys |->
               IF j = k THEN [size |-> size, hits |-> rows[k].hits + 1]
               ELSE IF j \in gone THEN NoRow ELSE rows[j]]
  BY DEF Put
<1> DEFINE stay == (Cached \ {k}) \ gone
           own == {k} \X (1..size)
<1>2. size \in Nat /\ size # 0
  BY SizesAssumption
<1>3. Cached' = stay \union {k}
  <2>1. rows'[k] # NoRow
    BY <1>1, <1>2 DEF NoRow
  <2>2. \A j \in Keys \ {k} : rows'[j] = IF j \in gone THEN NoRow ELSE rows[j]
    BY <1>1
  <2> QED BY <2>1, <2>2 DEF Cached
<1>4. CASE gone = Cached \ {k}
  <2>1. Cached' = {k}
    BY <1>3, <1>4
  <2> QED BY <2>1, FS_Singleton DEF WithinLimit
<1>5. CASE SizeOf(stay) + size <= Capacity
  <2>1. Bytes(Cached)' = UNION {{j} \X (1..rows'[j].size) : j \in Cached'}
    BY DEF Bytes
  <2>2. rows'[k].size = size
    BY <1>1
  <2>3. \A j \in stay : rows'[j] = rows[j]
    BY <1>1 DEF Cached
  <2>4. Bytes(Cached)' = Bytes(stay) \union own
    <3>1. UNION {{j} \X (1..rows'[j].size) : j \in Cached'}
            = (UNION {{j} \X (1..rows'[j].size) : j \in stay}) \union own
      BY <1>3, <2>2
    <3>2. UNION {{j} \X (1..rows'[j].size) : j \in stay} = Bytes(stay)
      BY <2>3 DEF Bytes
    <3> QED BY <2>1, <3>1, <3>2
  <2>5. stay \in SUBSET Keys
    BY DEF Cached
  <2>6. IsFiniteSet(Bytes(stay)) /\ SizeOf(stay) \in Nat
    BY <2>5, BytesFinite DEF CacheIInv
  <2>7. IsFiniteSet(own) /\ Cardinality(own) = size
    <3>1. IsFiniteSet(1..size) /\ Cardinality(1..size) = size
      BY <1>2, FS_Interval
    <3>2. IsFiniteSet({k}) /\ Cardinality({k}) = 1
      BY FS_Singleton
    <3>3. IsFiniteSet(own) /\ Cardinality(own) = 1 * size
      BY <3>1, <3>2, FS_Product
    <3> QED BY <3>3, <1>2
  <2>8. /\ IsFiniteSet(Bytes(stay) \union own) /\ Cardinality(Bytes(stay) \cap own) \in Nat
        /\ Cardinality(Bytes(stay) \union own)
              = Cardinality(Bytes(stay)) + Cardinality(own) - Cardinality(Bytes(stay) \cap own)
    <3>1. IsFiniteSet(Bytes(stay) \cap own)
      BY <2>6, FS_Intersection
    <3>2. Cardinality(Bytes(stay) \cap own) \in Nat
      BY <3>1, FS_CardinalityType
    <3> QED BY <2>6, <2>7, <3>2, FS_Union
  <2>9. SizeOf(Cached)' = Cardinality(Bytes(stay) \union own)
    BY <2>4 DEF SizeOf
  <2>10. SizeOf(Cached)' <= SizeOf(stay) + size
    <3> HIDE DEF stay, own
    <3> QED BY <2>6, <2>7, <2>8, <2>9, <1>2 DEF SizeOf
  <2>11. SizeOf(Cached)' \in Nat
    BY <2>8, <2>9, FS_CardinalityType
  <2>12. SizeOf(Cached)' <= Capacity
    BY <2>6, <2>10, <2>11, <1>2, <1>5, CacheBounds
  <2> QED BY <2>12 DEF WithinLimit
<1> QED BY <1>1, <1>4, <1>5 DEF MakeRoom

\* Every step keeps the types.
LEMMA CacheTypeKept == CacheTypeOK /\ [CacheNext]_cacheVars => CacheTypeOK'
<1> SUFFICES ASSUME CacheTypeOK, [CacheNext]_cacheVars PROVE CacheTypeOK'
  OBVIOUS
<1> USE CacheBounds DEF CacheTypeOK
<1>1. ASSUME NEW k \in Keys, Hit(k) PROVE CacheTypeOK'
  <2>1. rows[k] \in [size: Sizes, hits: 1..MaxHits]
    BY <1>1, RowTyped DEF Hit, Cached
  <2>2. [rows[k] EXCEPT !.hits = @ + 1] \in [size: Sizes, hits: 1..MaxHits]
    BY <1>1, <2>1 DEF Hit
  <2> QED BY <1>1, <2>2 DEF Hit
<1>2. ASSUME NEW k \in Keys, DeleteRow(k) PROVE CacheTypeOK'
  BY <1>2 DEF DeleteRow
<1>3. ASSUME NEW s \in Searches, PutAnswer(s) PROVE CacheTypeOK'
  <2>1. PICK size \in Sizes : Put(search[s].key, size)
    BY <1>3 DEF PutAnswer
  <2>2. search[s].key \in Keys
    BY <1>3, RequestTyped DEF PutAnswer
  <2>3. rows[search[s].key].hits \in Nat /\ rows[search[s].key].hits < MaxHits
    BY <2>1, <2>2, RowTyped DEF Put
  <2>4. rows' \in [Keys -> [size: Sizes, hits: 1..MaxHits] \union {NoRow}]
    <3>1. [size |-> size, hits |-> rows[search[s].key].hits + 1]
            \in [size: Sizes, hits: 1..MaxHits]
      BY <2>3
    <3> QED BY <2>1, <3>1 DEF Put
  <2> QED BY <1>3, <2>4 DEF PutAnswer
<1>4. ASSUME NEW s \in Searches, RecallFails(s) PROVE CacheTypeOK'
  BY <1>4 DEF RecallFails
<1>5. ASSUME NEW s \in Searches, NEW k \in Keys, Miss(s, k) PROVE CacheTypeOK'
  BY <1>5 DEF Miss
<1>6. ASSUME NEW n \in 1..Cardinality(Keys), EvictLowest(n) PROVE CacheTypeOK'
  BY <1>6 DEF EvictLowest
<1>7. CASE UNCHANGED cacheVars
  BY <1>7 DEF cacheVars
<1> QED BY <1>1, <1>2, <1>3, <1>4, <1>5, <1>6, <1>7 DEF CacheNext

THEOREM CacheInvariance == CacheSpec => []CacheIInv
<1>1. CacheInit => CacheIInv
  <2> SUFFICES ASSUME CacheInit PROVE CacheIInv
    OBVIOUS
  <2>1. CacheTypeOK
    BY DEF CacheInit, CacheTypeOK
  <2>2. Bytes(Cached) = {}
    BY DEF CacheInit, Cached, Bytes
  <2> QED BY <2>1, <2>2, FS_EmptySet, CacheBounds DEF CacheIInv, WithinLimit, SizeOf
<1>2. CacheIInv /\ [CacheNext]_cacheVars => CacheIInv'
  <2> SUFFICES ASSUME CacheIInv, [CacheNext]_cacheVars PROVE WithinLimit'
    BY CacheTypeKept DEF CacheIInv
  <2>0. CacheTypeOK /\ CacheTypeOK'
    BY CacheTypeKept DEF CacheIInv
  <2>1. ASSUME NEW k \in Keys, Hit(k) \/ DeleteRow(k) PROVE WithinLimit'
    <3>1. \A j \in Keys : rows'[j].size = rows[j].size \/ rows'[j] = NoRow
      BY <2>0, <2>1 DEF Hit, DeleteRow, CacheTypeOK
    <3>2. \A j \in Keys : rows[j] = NoRow => rows'[j] = NoRow
      BY <2>0, <2>1 DEF Hit, DeleteRow, CacheTypeOK, Cached
    <3> QED BY <2>0, <3>1, <3>2, FewerRows
  <2>2. ASSUME NEW s \in Searches, PutAnswer(s) PROVE WithinLimit'
    <3>1. PICK size \in Sizes : Put(search[s].key, size)
      BY <2>2 DEF PutAnswer
    <3>2. search[s].key \in Keys
      BY <2>0, <2>2, RequestTyped DEF PutAnswer
    <3> QED BY <2>0, <3>1, <3>2, PutFits
  <2>3. ASSUME UNCHANGED rows PROVE WithinLimit'
    <3>1. \A j \in Keys : rows'[j] = rows[j]
      BY <2>3
    <3> QED BY <2>0, <3>1, FewerRows
  <2>4. ASSUME NEW n \in 1..Cardinality(Keys), EvictLowest(n) PROVE WithinLimit'
    <3>1. PICK gone : rows' = [k \in Keys |-> IF k \in gone THEN NoRow ELSE rows[k]]
      BY <2>4 DEF EvictLowest
    <3>2. \A j \in Keys : rows'[j] = rows[j] \/ rows'[j] = NoRow
      BY <3>1
    <3> QED BY <2>0, <3>1, <3>2, FewerRows
  <2> QED BY <2>1, <2>2, <2>3, <2>4 DEF CacheNext, RecallFails, Miss, cacheVars
<1> QED BY <1>1, <1>2, PTL DEF CacheSpec

THEOREM CacheWithinLimit == CacheSpec => []WithinLimit
BY CacheInvariance, PTL DEF CacheIInv

-----------------------------------------------------------------------------
(* FileBus                                                                 *)

\* A process between taking and giving back the flock.
HoldsLock ==
    \A p \in Users :
        job[p].pc \in {"scan", "write", "rest", "truncate", "unlock"} => lock = p

\* A process that publishes knows its item.
KnowsItem ==
    \A p \in Users :
        /\ job[p].pc \in {"scan", "write", "rest"} => p \in Procs /\ job[p].item \in Items
        /\ job[p].pc = "waiting" /\ p \notin Clearers => job[p].item \in Items

\* What a process is writing is not yet in the file.
Fresh ==
    \A p \in Users : job[p].pc \in {"write", "rest"} =>
        \A k \in DOMAIN file : ~Matches(job[p].item, k)

\* A process in the middle of its row has left the last line torn.
TornEnd ==
    \A p \in Users : job[p].pc = "rest" =>
        Len(file) > 0 /\ file[Len(file)].row = Torn

IInv == TypeOK /\ HoldsLock /\ KnowsItem /\ Fresh /\ TornEnd

-----------------------------------------------------------------------------
(* What appending does to the lines and rows of the file                   *)

LEMMA TerminatedLines ==
    ASSUME NEW ls \in Seq(Line)
    PROVE  /\ Terminated(ls) \in Seq(Line)
           /\ Len(Terminated(ls)) = Len(ls)
           /\ \A k \in 1..Len(ls) : Terminated(ls)[k].row = ls[k].row
<1>1. CASE ls = <<>>
  BY <1>1 DEF Terminated
<1>2. CASE ls # <<>>
  <2>1. Len(ls) \in 1..Len(ls) BY <1>2
  <2>2. \A k \in 1..Len(ls) : ls[k] \in Line OBVIOUS
  <2>3. [ls[Len(ls)] EXCEPT !.ended = TRUE] \in Line BY <2>1, <2>2 DEF Line
  <2>4. Terminated(ls)
          = [ls EXCEPT ![Len(ls)] = [ls[Len(ls)] EXCEPT !.ended = TRUE]]
    BY <1>2 DEF Terminated
  <2>5. [ls[Len(ls)] EXCEPT !.ended = TRUE].row = ls[Len(ls)].row
    BY <2>1, <2>2 DEF Line
  <2>6. QED BY <2>1, <2>2, <2>3, <2>4, <2>5
<1>3. QED BY <1>1, <1>2

LEMMA AppendedLines ==
    ASSUME file \in Seq(Line), NEW line \in Line
    PROVE  /\ Appended(line) \in Seq(Line)
           /\ Len(Appended(line)) = Len(file) + 1
           /\ \A k \in 1..Len(file) : Appended(line)[k].row = file[k].row
           /\ Appended(line)[Len(file) + 1] = line
BY TerminatedLines DEF Appended

LEMMA LinesOfRows ==
    /\ \A row \in Items \union Legacy \union {Torn} : Ended(row) \in Line /\ Unended(row) \in Line
    /\ \A row : Ended(row).row = row /\ Unended(row).row = row
BY DEF Ended, Unended, Line

\* A write adds its row, or nothing if it is torn, and leaves the other rows.
LEMMA AppendedRows ==
    ASSUME file \in Seq(Line), NEW line \in Line, file' = Appended(line)
    PROVE  /\ file' \in Seq(Line)
           /\ Rows' = Rows \union ({line.row} \ {Torn})
           /\ Len(file') = Len(file) + 1
           /\ file'[Len(file')] = line
           /\ \A k \in DOMAIN file : k \in DOMAIN file' /\ file'[k].row = file[k].row
           /\ \A k \in DOMAIN file' : k \in DOMAIN file \/ file'[k] = line
<1>1. /\ file' \in Seq(Line) /\ Len(file') = Len(file) + 1
      /\ \A k \in 1..Len(file) : file'[k].row = file[k].row
      /\ file'[Len(file) + 1] = line
  BY AppendedLines
<1>2. DOMAIN file = 1..Len(file) /\ DOMAIN file' = 1..(Len(file) + 1) BY <1>1
<1>3. \A k \in DOMAIN file : k \in DOMAIN file' /\ file'[k].row = file[k].row BY <1>1, <1>2
<1>4. \A k \in DOMAIN file' : k \in DOMAIN file \/ file'[k] = line BY <1>1, <1>2
<1>5. Len(file) + 1 \in DOMAIN file' BY <1>1, <1>2
<1>6. Rows' = Rows \union ({line.row} \ {Torn}) BY <1>1, <1>3, <1>4, <1>5 DEF Rows
<1>7. QED BY <1>1, <1>3, <1>4, <1>6

LEMMA WrittenRows ==
    ASSUME IInv, NEW p \in Users, job[p].pc \in {"write", "rest"},
           NEW line \in Line, line.row # Torn, file' = Written(p, line)
    PROVE  file' \in Seq(Line) /\ Rows' = Rows \union {line.row}
<1>1. file \in Seq(Line) BY DEF IInv, TypeOK
<1>2. CASE At(p, "rest")
  <2>1. Len(file) > 0 /\ file[Len(file)].row = Torn BY <1>2 DEF IInv, TornEnd, At
  <2>2. file' = [file EXCEPT ![Len(file)] = line] BY <1>2 DEF Written
  <2>3. /\ file' \in Seq(Line) /\ DOMAIN file' = DOMAIN file /\ Len(file) \in DOMAIN file
        /\ file'[Len(file)] = line
        /\ \A k \in DOMAIN file : k # Len(file) => file'[k] = file[k]
    BY <1>1, <2>1, <2>2
  <2>4. QED BY <2>1, <2>3 DEF Rows
<1>3. CASE ~At(p, "rest")
  <2>1. file' = Appended(line) BY <1>3 DEF Written
  <2>2. QED BY <1>1, <2>1, AppendedRows
<1>4. QED BY <1>2, <1>3

-----------------------------------------------------------------------------
(* The invariant                                                           *)

THEOREM InitIInv == Init => IInv
<1> SUFFICES ASSUME Init PROVE IInv OBVIOUS
<1>1. file \in Seq(Line)
  <2>1. PICK n \in 0..2 : file \in [1..n -> {Ended(i) : i \in Legacy}] BY DEF Init
  <2>2. {Ended(i) : i \in Legacy} \subseteq Line BY LinesOfRows
  <2>3. file \in [1..n -> Line] /\ n \in Nat BY <2>1, <2>2
  <2>4. QED BY <2>3
<1>2. NoJob \in Job BY DEF NoJob, Job
<1>3. NotReading \in Reading BY DEF NotReading, Reading
<1>4. TypeOK BY <1>1, <1>2, <1>3, BoundsAssumption DEF Init, TypeOK
<1>5. \A p \in Users : job[p].pc = "idle" BY DEF Init, NoJob
<1>6. QED BY <1>4, <1>5 DEF IInv, HoldsLock, KnowsItem, Fresh, TornEnd

\* Only the holder of the flock is in the middle of an operation.
LEMMA OneHolder ==
    ASSUME IInv, NEW p \in Users, NEW q \in Users,
           job[p].pc \in {"scan", "write", "rest", "truncate", "unlock"},
           job[q].pc \in {"scan", "write", "rest", "truncate", "unlock"}
    PROVE  p = q
BY DEF IInv, HoldsLock

\* What one process does to its job leaves the others' as they are.
LEMMA OneJob ==
    ASSUME TypeOK, NEW p \in Users, NEW j \in Job, job' = [job EXCEPT ![p] = j]
    PROVE  /\ job' \in [Users -> Job]
           /\ job'[p] = j
           /\ \A q \in Users : q # p => job'[q] = job[q]
BY DEF TypeOK

LEMMA BecomeJob ==
    ASSUME TypeOK, NEW p \in Users,
           NEW pc \in {"idle", "waiting", "scan", "write", "rest", "truncate", "unlock"},
           Become(p, pc)
    PROVE  /\ job' \in [Users -> Job]
           /\ job'[p].pc = pc /\ job'[p].item = job[p].item
           /\ \A q \in Users : q # p => job'[q] = job[q]
BY DEF TypeOK, Become, Job

LEMMA PublishStartIInv ==
    ASSUME IInv, NEW p \in Procs, NEW i \in Items, PublishStart(p, i)
    PROVE  IInv'
<1> DEFINE j == [pc |-> "waiting", item |-> i]
<1>1. p \in Users /\ j \in Job BY DEF Users, Job
<1>2. job' = [job EXCEPT ![p] = j] BY DEF PublishStart
<1>3. /\ job' \in [Users -> Job] /\ job'[p] = j
      /\ \A q \in Users : q # p => job'[q] = job[q]
  BY <1>1, <1>2, OneJob DEF IInv
<1>4. TypeOK' BY <1>3 DEF IInv, TypeOK, PublishStart
<1>5. HoldsLock' /\ KnowsItem' /\ Fresh' /\ TornEnd'
  BY <1>3 DEF IInv, HoldsLock, KnowsItem, Fresh, TornEnd, Matches, PublishStart
<1>6. QED BY <1>4, <1>5 DEF IInv

LEMMA LockIInv ==
    ASSUME IInv, NEW p \in Users, Lock(p)
    PROVE  IInv'
<1> DEFINE pc == IF p \in Clearers THEN "truncate" ELSE "scan"
<1>1. /\ job' \in [Users -> Job] /\ job'[p].pc = pc /\ job'[p].item = job[p].item
      /\ \A q \in Users : q # p => job'[q] = job[q]
  BY BecomeJob DEF IInv, Lock
<1>2. TypeOK' BY <1>1 DEF IInv, TypeOK, Lock
<1>3. HoldsLock' BY <1>1, NoneAssumption DEF IInv, HoldsLock, Lock
<1>4. KnowsItem' BY <1>1 DEF IInv, KnowsItem, Lock, At, Users
<1>5. Fresh' /\ TornEnd' BY <1>1 DEF IInv, Fresh, TornEnd, Matches, Lock
<1>6. QED BY <1>2, <1>3, <1>4, <1>5 DEF IInv

\* A row found by its hash is an item: legacy rows have none.
LEMMA MatchedRows ==
    ASSUME TypeOK, NEW i, NEW k \in DOMAIN file, Matches(i, k)
    PROVE  /\ file[k].row \in Items /\ file[k].row \in Rows
           /\ i.hash # NoHash /\ file[k].row.hash = i.hash
<1>1. file[k] \in Line BY DEF TypeOK
<1>2. file[k].row \in Items \union Legacy BY <1>1 DEF Line, Matches
<1>3. QED BY <1>2, LegacyAssumption DEF Matches, Rows

LEMMA ScanFindsItIInv ==
    ASSUME IInv, NEW p \in Procs, ScanFindsIt(p)
    PROVE  IInv'
<1>1. p \in Users BY DEF Users
<1>2. /\ job' \in [Users -> Job] /\ job'[p].pc = "unlock" /\ job'[p].item = job[p].item
      /\ \A q \in Users : q # p => job'[q] = job[q]
  BY <1>1, BecomeJob DEF IInv, ScanFindsIt
<1>3. PICK k \in DOMAIN file : IsFirst(job[p].item, k) /\ Answered(p, file[k].row.id, TRUE)
  BY DEF ScanFindsIt
<1>4. file[k].row \in Items BY <1>3, MatchedRows DEF IInv, IsFirst
<1>5. [id |-> file[k].row.id, deduped |-> TRUE] \in Bus!Answer
  BY <1>4 DEF Bus!Answer, Bus!Ids
<1>6. answer' \in [Procs -> Bus!Answer \union {None}]
  BY <1>3, <1>5 DEF Answered, IInv, TypeOK
<1>7. TypeOK' BY <1>2, <1>6 DEF IInv, TypeOK, ScanFindsIt
<1>8. HoldsLock' /\ KnowsItem' /\ Fresh' /\ TornEnd'
  BY <1>1, <1>2 DEF IInv, HoldsLock, KnowsItem, Fresh, TornEnd, Matches, ScanFindsIt, At
<1>9. QED BY <1>7, <1>8 DEF IInv

LEMMA ScanFindsNothingIInv ==
    ASSUME IInv, NEW p \in Procs, ScanFindsNothing(p)
    PROVE  IInv'
<1>1. p \in Users BY DEF Users
<1>2. /\ job' \in [Users -> Job] /\ job'[p].pc = "write" /\ job'[p].item = job[p].item
      /\ \A q \in Users : q # p => job'[q] = job[q]
  BY <1>1, BecomeJob DEF IInv, ScanFindsNothing
<1>3. TypeOK' BY <1>2 DEF IInv, TypeOK, ScanFindsNothing
<1>4. HoldsLock' /\ KnowsItem' /\ TornEnd'
  BY <1>1, <1>2 DEF IInv, HoldsLock, KnowsItem, TornEnd, ScanFindsNothing, At
<1>5. Fresh'
  BY <1>1, <1>2 DEF IInv, Fresh, Matches, ScanFindsNothing
<1>6. QED BY <1>3, <1>4, <1>5 DEF IInv

\* While p writes, no other process writes or rests.
LEMMA OnlyWriter ==
    ASSUME IInv, NEW p \in Users, job[p].pc \in {"write", "rest"}
    PROVE  \A q \in Users : q # p => job[q].pc \notin {"write", "rest"}
BY OneHolder

LEMMA WriteFragmentIInv ==
    ASSUME IInv, NEW p \in Procs, WriteFragment(p)
    PROVE  IInv'
<1> USE DEF At
<1>1. p \in Users /\ job[p].pc = "write" BY DEF Users, WriteFragment
<1>2. /\ job' \in [Users -> Job] /\ job'[p].pc = "rest" /\ job'[p].item = job[p].item
      /\ \A q \in Users : q # p => job'[q] = job[q]
  BY <1>1, BecomeJob DEF IInv, WriteFragment
<1>3. file \in Seq(Line) /\ Unended(Torn) \in Line /\ Unended(Torn).row = Torn
  BY LinesOfRows DEF IInv, TypeOK
<1>4. file' = Appended(Unended(Torn)) BY DEF WriteFragment
<1>5. /\ file' \in Seq(Line)
      /\ Len(file') = Len(file) + 1
      /\ file'[Len(file')] = Unended(Torn)
      /\ \A k \in DOMAIN file : k \in DOMAIN file' /\ file'[k].row = file[k].row
      /\ \A k \in DOMAIN file' : k \in DOMAIN file \/ file'[k] = Unended(Torn)
  BY <1>3, <1>4, AppendedRows
<1>6. \A q \in Users : q # p => job[q].pc \notin {"write", "rest"}
  BY <1>1, OnlyWriter
<1>7. TypeOK' BY <1>2, <1>5 DEF IInv, TypeOK, WriteFragment
<1>8. HoldsLock' /\ KnowsItem'
  BY <1>1, <1>2 DEF IInv, HoldsLock, KnowsItem, WriteFragment
<1>9. Fresh'
  <2>1. \A k \in DOMAIN file : ~Matches(job[p].item, k) BY <1>1 DEF IInv, Fresh
  <2>2. \A k \in DOMAIN file' : file'[k].row = Torn \/ (k \in DOMAIN file /\ file'[k].row = file[k].row)
    BY <1>3, <1>5
  <2>3. \A k \in DOMAIN file' : ~Matches(job[p].item, k)' BY <1>2, <2>1, <2>2 DEF Matches
  <2>4. QED BY <1>2, <1>6, <2>3 DEF Fresh
<1>10. TornEnd'
  <2>1. Len(file') > 0 /\ file'[Len(file')].row = Torn BY <1>3, <1>5
  <2>2. QED BY <1>2, <1>6, <2>1 DEF TornEnd
<1>11. QED BY <1>7, <1>8, <1>9, <1>10 DEF IInv

\* Any change of the file by the only writer, who then stops writing.
LEMMA WritingEnds ==
    ASSUME IInv, NEW p \in Users, job[p].pc \in {"write", "rest", "truncate"},
           \A q \in Users : q # p => job'[q] = job[q],
           job'[p].pc \in {"idle", "unlock"}
    PROVE  KnowsItem' /\ Fresh' /\ TornEnd'
<1>1. \A q \in Users : q # p => job[q].pc \notin {"scan", "write", "rest", "truncate", "unlock"}
  BY OneHolder
<1>2. \A q \in Users : job'[q].pc \notin {"scan", "write", "rest"} BY <1>1
<1>3. KnowsItem' BY <1>2 DEF IInv, KnowsItem
<1>4. QED BY <1>2, <1>3 DEF Fresh, TornEnd

LEMMA WriteRowIInv ==
    ASSUME IInv, NEW p \in Procs, WriteRow(p)
    PROVE  IInv'
<1> DEFINE i == job[p].item
<1>1. p \in Users /\ job[p].pc \in {"write", "rest"} /\ i \in Items
  BY DEF Users, WriteRow, IInv, KnowsItem
<1>2. /\ job' \in [Users -> Job] /\ job'[p].pc = "unlock"
      /\ \A q \in Users : q # p => job'[q] = job[q]
  BY <1>1, BecomeJob DEF IInv, WriteRow
<1>3. Ended(i) \in Line /\ Ended(i).row # Torn
  BY <1>1, LinesOfRows, NoneAssumption
<1>4. file' = Written(p, Ended(i)) BY DEF WriteRow
<1>5. file' \in Seq(Line) BY <1>1, <1>3, <1>4, WrittenRows
<1>6. [id |-> i.id, deduped |-> FALSE] \in Bus!Answer BY <1>1 DEF Bus!Answer, Bus!Ids
<1>7. answer' \in [Procs -> Bus!Answer \union {None}]
  BY <1>6 DEF Answered, IInv, TypeOK, WriteRow
<1>8. TypeOK' BY <1>2, <1>5, <1>7 DEF IInv, TypeOK, WriteRow
<1>9. HoldsLock' BY <1>1, <1>2 DEF IInv, HoldsLock, WriteRow
<1>10. QED BY <1>1, <1>2, <1>8, <1>9, WritingEnds DEF IInv

LEMMA UnlockIInv ==
    ASSUME IInv, NEW p \in Users, Unlock(p)
    PROVE  IInv'
<1>1. NoJob \in Job /\ NoJob.pc = "idle" BY DEF NoJob, Job
<1>2. /\ job' \in [Users -> Job] /\ job'[p] = NoJob
      /\ \A q \in Users : q # p => job'[q] = job[q]
  BY <1>1, OneJob DEF IInv, Unlock
<1>3. TypeOK' BY <1>2 DEF IInv, TypeOK, Unlock
<1>4. \A q \in Users : q # p => job[q].pc \notin {"scan", "write", "rest", "truncate", "unlock"}
  BY OneHolder DEF Unlock, At
<1>5. \A q \in Users : job'[q].pc \notin {"scan", "write", "rest", "truncate", "unlock"}
  BY <1>1, <1>2, <1>4
<1>6. HoldsLock' /\ Fresh' /\ TornEnd' BY <1>5 DEF HoldsLock, Fresh, TornEnd
<1>7. KnowsItem' BY <1>1, <1>2 DEF IInv, KnowsItem
<1>8. QED BY <1>3, <1>6, <1>7 DEF IInv

LEMMA ClearStartIInv ==
    ASSUME IInv, NEW p \in Clearers, ClearStart(p)
    PROVE  IInv'
<1>1. p \in Users BY DEF Users
<1>2. /\ job' \in [Users -> Job] /\ job'[p].pc = "waiting" /\ job'[p].item = job[p].item
      /\ \A q \in Users : q # p => job'[q] = job[q]
  BY <1>1, BecomeJob DEF IInv, ClearStart
<1>3. clears' \in 0..MaxClears BY BoundsAssumption DEF IInv, TypeOK, ClearStart
<1>4. TypeOK' BY <1>2, <1>3 DEF IInv, TypeOK, ClearStart
<1>5. HoldsLock' /\ KnowsItem' /\ Fresh' /\ TornEnd'
  BY <1>2 DEF IInv, HoldsLock, KnowsItem, Fresh, TornEnd, Matches, ClearStart
<1>6. QED BY <1>4, <1>5 DEF IInv

LEMMA TruncateIInv ==
    ASSUME IInv, NEW p \in Clearers, Truncate(p)
    PROVE  IInv'
<1>1. p \in Users /\ job[p].pc = "truncate" BY DEF Users, Truncate, At
<1>2. /\ job' \in [Users -> Job] /\ job'[p].pc = "unlock"
      /\ \A q \in Users : q # p => job'[q] = job[q]
  BY <1>1, BecomeJob DEF IInv, Truncate
<1>3. file' \in Seq(Line) BY DEF Truncate
<1>4. TypeOK' BY <1>2, <1>3 DEF IInv, TypeOK, Truncate
<1>5. HoldsLock' BY <1>1, <1>2 DEF IInv, HoldsLock, Truncate
<1>6. QED BY <1>1, <1>2, <1>4, <1>5, WritingEnds DEF IInv

\* The process that stops is idle, and its flock is free.
LEMMA StopsJob ==
    ASSUME IInv, NEW p \in Users, Stops(p)
    PROVE  /\ job' \in [Users -> Job] /\ job'[p].pc = "idle"
           /\ \A q \in Users : q # p => job'[q] = job[q]
           /\ HoldsLock'
           /\ file' \in Seq(Line) => TypeOK'
<1>1. NoJob \in Job /\ NoJob.pc = "idle" BY DEF NoJob, Job
<1>2. /\ job' \in [Users -> Job] /\ job'[p] = NoJob
      /\ \A q \in Users : q # p => job'[q] = job[q]
  BY <1>1, OneJob DEF IInv, Stops
<1>3. HoldsLock' BY <1>1, <1>2 DEF IInv, HoldsLock, Stops
<1>4. file' \in Seq(Line) => TypeOK' BY <1>2 DEF IInv, TypeOK, Stops
<1>5. QED BY <1>1, <1>2, <1>3, <1>4

LEMMA CrashIInv ==
    ASSUME IInv, NEW p \in Users, Crash(p)
    PROVE  IInv'
<1>1. /\ job'[p].pc = "idle" /\ HoldsLock' /\ file' = file
      /\ \A q \in Users : q # p => job'[q] = job[q]
      /\ file' \in Seq(Line) => TypeOK'
  BY StopsJob DEF Crash
<1>2. TypeOK' BY <1>1 DEF IInv, TypeOK
<1>3. KnowsItem' /\ Fresh' /\ TornEnd'
  BY <1>1 DEF IInv, KnowsItem, Fresh, TornEnd, Matches
<1>4. QED BY <1>1, <1>2, <1>3 DEF IInv

LEMMA CrashAfterSeparatorIInv ==
    ASSUME IInv, NEW p \in Procs, CrashAfterSeparator(p)
    PROVE  IInv' /\ Rows' = Rows
<1>1. p \in Users /\ job[p].pc = "write" BY DEF Users, CrashAfterSeparator, At
<1>2. /\ job'[p].pc = "idle" /\ HoldsLock'
      /\ \A q \in Users : q # p => job'[q] = job[q]
      /\ file' \in Seq(Line) => TypeOK'
  BY <1>1, StopsJob DEF CrashAfterSeparator
<1>3. file \in Seq(Line) BY DEF IInv, TypeOK
<1>4. /\ file' \in Seq(Line) /\ Len(file') = Len(file)
      /\ \A k \in 1..Len(file) : file'[k].row = file[k].row
  BY <1>3, TerminatedLines DEF CrashAfterSeparator
<1>5. Rows' = Rows BY <1>3, <1>4 DEF Rows
<1>6. QED BY <1>1, <1>2, <1>4, <1>5, WritingEnds DEF IInv

LEMMA CrashBeforeNewlineIInv ==
    ASSUME IInv, NEW p \in Procs, CrashBeforeNewline(p)
    PROVE  IInv'
<1>1. p \in Users /\ job[p].pc \in {"write", "rest"} /\ job[p].item \in Items
  BY DEF Users, CrashBeforeNewline, IInv, KnowsItem
<1>2. /\ job'[p].pc = "idle" /\ HoldsLock'
      /\ \A q \in Users : q # p => job'[q] = job[q]
      /\ file' \in Seq(Line) => TypeOK'
  BY <1>1, StopsJob DEF CrashBeforeNewline
<1>3. Unended(job[p].item) \in Line /\ Unended(job[p].item).row # Torn
  BY <1>1, LinesOfRows, NoneAssumption
<1>4. file' \in Seq(Line) BY <1>1, <1>3, WrittenRows DEF CrashBeforeNewline
<1>5. QED BY <1>1, <1>2, <1>4, WritingEnds DEF IInv

LEMMA ReadIInv ==
    ASSUME IInv, NEW s \in Readers, ReadStart(s) \/ ReadLine(s) \/ ReadEnd(s)
    PROVE  IInv' /\ UNCHANGED <<file, answer>>
<1>1. UNCHANGED <<file, lock, job, answer, sent, clears>>
  BY DEF ReadStart, ReadLine, ReadEnd
<1>2. reader' \in [Readers -> Reading]
  <2>1. reader \in [Readers -> Reading] /\ file \in Seq(Line) BY DEF IInv, TypeOK
  <2>2. CASE ReadStart(s) BY <2>1, <2>2 DEF ReadStart, Opened, Reading
  <2>3. CASE ReadLine(s)
    <3> DEFINE k == reader[s].at + 1
    <3>1. reader[s] \in Reading BY <2>1
    <3>2. k \in 1..Len(file) BY <2>1, <2>3, <3>1 DEF ReadLine, Reading
    <3>3. {file[k].row} \ {Torn} \in SUBSET (Items \union Legacy)
      <4>1. file[k] \in Line BY <2>1, <3>2
      <4>2. file[k].row \in Items \union Legacy \union {Torn} BY <4>1 DEF Line
      <4>3. QED BY <4>2
    <3>4. k \in Nat BY <3>1 DEF Reading
    <3>5. reader' = [reader EXCEPT ![s] = [reader[s] EXCEPT
              !.at = k, !.got = @ \union ({file[k].row} \ {Torn})]]
      BY <2>1, <2>3, <3>1 DEF ReadLine, After, Reading
    <3>6. [reader[s] EXCEPT !.at = k, !.got = @ \union ({file[k].row} \ {Torn})] \in Reading
      BY <3>1, <3>3, <3>4 DEF Reading
    <3>7. QED BY <2>1, <3>5, <3>6
  <2>4. CASE ReadEnd(s)
    <3>1. reader[s] \in Reading BY <2>1
    <3>2. [reader[s] EXCEPT !.open = FALSE] \in Reading BY <3>1 DEF Reading
    <3>3. reader' = [reader EXCEPT ![s] = [reader[s] EXCEPT !.open = FALSE]]
      BY <2>1, <2>4 DEF ReadEnd, Closed
    <3>4. QED BY <2>1, <3>2, <3>3
  <2>5. QED BY <2>2, <2>3, <2>4
<1>3. TypeOK' BY <1>1, <1>2 DEF IInv, TypeOK
<1>4. QED BY <1>1, <1>3 DEF IInv, HoldsLock, KnowsItem, Fresh, TornEnd, Matches

LEMMA NextIInv == IInv /\ [Next]_vars => IInv'
<1> SUFFICES ASSUME IInv, [Next]_vars PROVE IInv' OBVIOUS
<1>1. CASE \E p \in Procs : PublishNext(p)
  <2>1. PICK p \in Procs : PublishNext(p) BY <1>1
  <2>2. CASE \E i \in Items : PublishStart(p, i) BY <2>2, PublishStartIInv
  <2>3. CASE ScanFindsIt(p) BY <2>3, ScanFindsItIInv
  <2>4. CASE ScanFindsNothing(p) BY <2>4, ScanFindsNothingIInv
  <2>5. CASE WriteFragment(p) BY <2>5, WriteFragmentIInv
  <2>6. CASE WriteRow(p) BY <2>6, WriteRowIInv
  <2>7. CASE CrashAfterSeparator(p) BY <2>7, CrashAfterSeparatorIInv
  <2>8. CASE CrashBeforeNewline(p) BY <2>8, CrashBeforeNewlineIInv
  <2>9. QED BY <2>1, <2>2, <2>3, <2>4, <2>5, <2>6, <2>7, <2>8 DEF PublishNext
<1>2. CASE \E p \in Clearers : ClearStart(p) \/ Truncate(p)
  BY <1>2, ClearStartIInv, TruncateIInv
<1>3. CASE \E p \in Users : Lock(p) \/ Unlock(p) \/ Crash(p)
  BY <1>3, LockIInv, UnlockIInv, CrashIInv
<1>4. CASE \E s \in Readers : ReadStart(s) \/ ReadLine(s) \/ ReadEnd(s)
  BY <1>4, ReadIInv
<1>5. CASE UNCHANGED vars
  <2>1. TypeOK' BY <1>5 DEF IInv, TypeOK, vars
  <2>2. QED BY <1>5, <2>1
          DEF IInv, HoldsLock, KnowsItem, Fresh, TornEnd, Matches, vars
<1>6. QED BY <1>1, <1>2, <1>3, <1>4, <1>5 DEF Next

\* In every state of the bus, for any processes, items and file: the variables
\* have their types, the flock's holder is the only one in the middle of an
\* operation, and what it writes is not yet in the file.
THEOREM IInvHolds == Spec => []IInv
BY InitIInv, NextIInv, PTL DEF Spec

\* Every variable keeps its type; an answer names an item that was published.
THEOREM TypeCorrect == Spec => []TypeOK
<1>1. IInv => TypeOK BY DEF IInv
<1>2. QED BY <1>1, IInvHolds, PTL

-----------------------------------------------------------------------------
(* Every step is a step of the abstract bus, or none of its steps          *)

LEMMA InitBus == Init => Bus!Init
<1> SUFFICES ASSUME Init PROVE Bus!Init OBVIOUS
<1>1. PICK n \in 0..2 : file \in [1..n -> {Ended(i) : i \in Legacy}] BY DEF Init
<1>2. \A k \in DOMAIN file : file[k].row \in Legacy BY <1>1, LinesOfRows
<1>3. Rows \in SUBSET Legacy BY <1>2 DEF Rows
<1>4. QED BY <1>3 DEF Bus!Init, Init

\* No row on the bus has the content of an item the scan did not find.
LEMMA UnmatchedRows ==
    ASSUME NEW i, \A k \in DOMAIN file : ~Matches(i, k)
    PROVE  \A j \in Rows : ~Bus!Same(i, j)
BY DEF Rows, Matches, Bus!Same

LEMMA ScanFindsItBus ==
    ASSUME IInv, NEW p \in Procs, ScanFindsIt(p)
    PROVE  Bus!Next
<1> DEFINE i == job[p].item
<1>1. PICK k \in DOMAIN file : IsFirst(i, k) /\ Answered(p, file[k].row.id, TRUE)
  BY DEF ScanFindsIt
<1>2. Matches(i, k) BY <1>1 DEF IsFirst
<1>3. file[k].row \in Rows /\ Bus!Same(i, file[k].row)
  BY <1>2, MatchedRows DEF IInv, Bus!Same
<1>4. Bus!Answered(p, file[k].row.id, TRUE) BY <1>1 DEF Answered, Bus!Answered
<1>5. i \in Items BY DEF IInv, KnowsItem, ScanFindsIt, At, Users
<1>6. UNCHANGED Rows BY DEF ScanFindsIt, Rows
<1>7. Bus!Publish(p, i) BY <1>3, <1>4, <1>6 DEF Bus!Publish
<1>8. QED BY <1>5, <1>7 DEF Bus!Next

LEMMA WrittenBus ==
    ASSUME IInv, NEW p \in Procs, job[p].pc \in {"write", "rest"},
           NEW line \in Line, line.row = job[p].item, file' = Written(p, line)
    PROVE  job[p].item \in Items /\ Bus!Stored(job[p].item)
<1> DEFINE i == job[p].item
<1>1. p \in Users BY DEF Users
<1>2. i \in Items /\ i # Torn BY <1>1, NoneAssumption DEF IInv, KnowsItem
<1>3. \A j \in Rows : ~Bus!Same(i, j) BY <1>1, UnmatchedRows DEF IInv, Fresh
<1>4. Rows' = Rows \union {i} BY <1>1, <1>2, WrittenRows
<1>5. QED BY <1>2, <1>3, <1>4 DEF Bus!Stored

LEMMA WriteRowBus ==
    ASSUME IInv, NEW p \in Procs, WriteRow(p)
    PROVE  Bus!Next
<1> DEFINE i == job[p].item
<1>1. i \in Items BY DEF IInv, KnowsItem, WriteRow, Users
<1>2. Ended(i) \in Line /\ Ended(i).row = i BY <1>1, LinesOfRows
<1>3. Bus!Stored(i) BY <1>2, WrittenBus DEF WriteRow
<1>4. Bus!Answered(p, i.id, FALSE) BY DEF WriteRow, Answered, Bus!Answered
<1>5. Bus!Publish(p, i) BY <1>3, <1>4 DEF Bus!Publish
<1>6. QED BY <1>1, <1>5 DEF Bus!Next

LEMMA CrashBeforeNewlineBus ==
    ASSUME IInv, NEW p \in Procs, CrashBeforeNewline(p)
    PROVE  Bus!Next
<1> DEFINE i == job[p].item
<1>1. i \in Items BY DEF IInv, KnowsItem, CrashBeforeNewline, Users
<1>2. Unended(i) \in Line /\ Unended(i).row = i BY <1>1, LinesOfRows
<1>3. Bus!Stored(i) BY <1>2, WrittenBus DEF CrashBeforeNewline
<1>4. Bus!PublishUnanswered(i)
  BY <1>3 DEF CrashBeforeNewline, Stops, Bus!PublishUnanswered
<1>5. QED BY <1>1, <1>4 DEF Bus!Next

LEMMA WriteFragmentBus ==
    ASSUME IInv, NEW p \in Procs, WriteFragment(p)
    PROVE  UNCHANGED Bus!busVars
<1>1. file \in Seq(Line) /\ Unended(Torn) \in Line /\ Unended(Torn).row = Torn
  BY LinesOfRows DEF IInv, TypeOK
<1>2. Rows' = Rows \union ({Torn} \ {Torn}) BY <1>1, AppendedRows DEF WriteFragment
<1>3. QED BY <1>2 DEF WriteFragment, Bus!busVars

LEMMA TruncateBus ==
    ASSUME NEW p \in Clearers, Truncate(p)
    PROVE  Bus!Next
<1>1. Rows' = {} BY DEF Truncate, Rows
<1>2. QED BY <1>1 DEF Truncate, Bus!Clear, Bus!Next

LEMMA UntouchedBus ==
    ASSUME UNCHANGED <<file, answer>>
    PROVE  UNCHANGED Bus!busVars
BY DEF Bus!busVars, Rows

LEMMA NextBus == IInv /\ [Next]_vars => [Bus!Next]_(Bus!busVars)
<1> SUFFICES ASSUME IInv, [Next]_vars PROVE Bus!Next \/ UNCHANGED Bus!busVars OBVIOUS
<1>1. CASE \E p \in Procs : PublishNext(p)
  <2>1. PICK p \in Procs : PublishNext(p) BY <1>1
  <2>2. CASE \E i \in Items : PublishStart(p, i) BY <2>2, UntouchedBus DEF PublishStart
  <2>3. CASE ScanFindsIt(p) BY <2>3, ScanFindsItBus
  <2>4. CASE ScanFindsNothing(p) BY <2>4, UntouchedBus DEF ScanFindsNothing
  <2>5. CASE WriteFragment(p) BY <2>5, WriteFragmentBus
  <2>6. CASE WriteRow(p) BY <2>6, WriteRowBus
  <2>7. CASE CrashAfterSeparator(p)
    <3>1. Rows' = Rows BY <2>7, CrashAfterSeparatorIInv
    <3>2. QED BY <2>7, <3>1 DEF CrashAfterSeparator, Stops, Bus!busVars
  <2>8. CASE CrashBeforeNewline(p) BY <2>8, CrashBeforeNewlineBus
  <2>9. QED BY <2>1, <2>2, <2>3, <2>4, <2>5, <2>6, <2>7, <2>8 DEF PublishNext
<1>2. CASE \E p \in Clearers : ClearStart(p) \/ Truncate(p)
  <2>1. PICK p \in Clearers : ClearStart(p) \/ Truncate(p) BY <1>2
  <2>2. CASE ClearStart(p) BY <2>2, UntouchedBus DEF ClearStart
  <2>3. CASE Truncate(p) BY <2>3, TruncateBus
  <2>4. QED BY <2>1, <2>2, <2>3
<1>3. CASE \E p \in Users : Lock(p) \/ Unlock(p) \/ Crash(p)
  BY <1>3, UntouchedBus DEF Lock, Unlock, Crash, Stops
<1>4. CASE \E s \in Readers : ReadStart(s) \/ ReadLine(s) \/ ReadEnd(s)
  BY <1>4, ReadIInv, UntouchedBus
<1>5. CASE UNCHANGED vars BY <1>5, UntouchedBus DEF vars
<1>6. QED BY <1>1, <1>2, <1>3, <1>4, <1>5 DEF Next

\* FileBus implements the bus InMemoryBus promises: with the rows of the file as
\* its items, every behaviour of the file, crashes in the middle of an append
\* included, is a behaviour of the abstract bus.
THEOREM Implements == Spec => BusSpec
BY InitBus, NextBus, IInvHolds, PTL DEF Spec, BusSpec, Bus!Spec

-----------------------------------------------------------------------------
(* A read without the lock                                                 *)

\* The file is emptied, or every row in it keeps its line.
RowsStay ==
    \/ file' = <<>>
    \/ /\ Len(file) <= Len(file')
       /\ \A k \in 1..Len(file) : file[k].row # Torn => file'[k].row = file[k].row

LEMMA WrittenStay ==
    ASSUME IInv, NEW p \in Users, job[p].pc \in {"write", "rest"},
           NEW line \in Line, file' = Written(p, line)
    PROVE  RowsStay
<1>1. file \in Seq(Line) BY DEF IInv, TypeOK
<1>2. CASE At(p, "rest")
  <2>1. Len(file) > 0 /\ file[Len(file)].row = Torn BY <1>2 DEF IInv, TornEnd, At
  <2>2. file' = [file EXCEPT ![Len(file)] = line] BY <1>2 DEF Written
  <2> QED BY <1>1, <2>1, <2>2 DEF RowsStay
<1>3. CASE ~At(p, "rest")
  <2>1. file' = Appended(line) BY <1>3 DEF Written
  <2>2. /\ Len(file') = Len(file) + 1
        /\ \A k \in 1..Len(file) : file'[k].row = file[k].row
    BY <1>1, <2>1, AppendedLines
  <2> QED BY <1>1, <2>2 DEF RowsStay
<1> QED BY <1>2, <1>3

LEMMA NextRowsStay ==
    ASSUME IInv, [Next]_vars
    PROVE  RowsStay
<1>1. file \in Seq(Line) BY DEF IInv, TypeOK
<1>2. CASE UNCHANGED file BY <1>1, <1>2 DEF RowsStay
<1>3. ASSUME NEW p \in Procs, PublishNext(p)
      PROVE  RowsStay
  <2>1. p \in Users BY DEF Users
  <2>2. CASE WriteFragment(p)
    <3>1. Unended(Torn) \in Line BY LinesOfRows
    <3>2. file' = Written(p, Unended(Torn)) BY <2>2 DEF WriteFragment, Written, At
    <3> QED BY <2>1, <2>2, <3>1, <3>2, WrittenStay DEF WriteFragment, At
  <2>3. CASE WriteRow(p)
    <3>1. Ended(job[p].item) \in Line
      BY <2>1, <2>3, LinesOfRows DEF WriteRow, IInv, KnowsItem
    <3> QED BY <2>1, <2>3, <3>1, WrittenStay DEF WriteRow
  <2>4. CASE CrashBeforeNewline(p)
    <3>1. Unended(job[p].item) \in Line
      BY <2>1, <2>4, LinesOfRows DEF CrashBeforeNewline, IInv, KnowsItem
    <3> QED BY <2>1, <2>4, <3>1, WrittenStay DEF CrashBeforeNewline
  <2>5. CASE CrashAfterSeparator(p)
    BY <1>1, <2>5, TerminatedLines DEF CrashAfterSeparator, RowsStay
  <2>6. CASE UNCHANGED file BY <1>2, <2>6
  <2> QED BY <1>3, <2>2, <2>3, <2>4, <2>5, <2>6
          DEF PublishNext, PublishStart, ScanFindsIt, ScanFindsNothing
<1>4. ASSUME NEW p \in Clearers, ClearStart(p) \/ Truncate(p)
      PROVE  RowsStay
  BY <1>2, <1>4 DEF ClearStart, Truncate, RowsStay
<1>5. ASSUME NEW p \in Users, Lock(p) \/ Unlock(p) \/ Crash(p)
      PROVE  UNCHANGED file
  BY <1>5 DEF Lock, Unlock, Crash
<1>6. ASSUME NEW s \in Readers, ReadStart(s) \/ ReadLine(s) \/ ReadEnd(s)
      PROVE  UNCHANGED file
  BY <1>6 DEF ReadStart, ReadLine, ReadEnd
<1> QED BY <1>2, <1>3, <1>4, <1>5, <1>6 DEF Next, vars

\* What an open read has found was there at some time, and of what was there all the
\* time it has found each row or has it before it.
ReadSound(s) ==
    reader[s].open =>
        /\ reader[s].got \subseteq seen[s]
        /\ stayed[s] \subseteq Rows
        /\ \A row \in stayed[s] :
              \/ row \in reader[s].got
              \/ \E k \in 1..Len(file) : k > reader[s].at /\ file[k].row = row

ReadsIInv ==
    /\ IInv
    /\ ReadsWhatStayed
    /\ \A s \in Readers : ReadSound(s)

\* A step that does not concern the subscriber.
LEMMA OthersMove ==
    ASSUME ReadsIInv, RowsStay, file' \in Seq(Line), NEW s \in Readers, reader'[s] = reader[s],
           \/ ~reader[s].open /\ stayed'[s] = stayed[s] /\ seen'[s] = seen[s]
           \/ /\ reader[s].open
              /\ stayed'[s] = stayed[s] \intersect Rows'
              /\ seen'[s] = seen[s] \union Rows'
    PROVE  /\ ReadSound(s)'
           /\ ~reader'[s].open =>
                 stayed'[s] \subseteq reader'[s].got /\ reader'[s].got \subseteq seen'[s]
<1>1. CASE ~reader[s].open BY <1>1 DEF ReadsIInv, ReadsWhatStayed, ReadSound
<1>2. CASE reader[s].open
  <2>1. /\ stayed'[s] = stayed[s] \intersect Rows' /\ seen'[s] = seen[s] \union Rows'
        /\ reader[s].got \subseteq seen[s] /\ stayed[s] \subseteq Rows
        /\ file \in Seq(Line)
    BY <1>2 DEF ReadsIInv, ReadSound, IInv, TypeOK
  <2>2. ASSUME NEW row \in stayed'[s], row \notin reader[s].got
        PROVE  \E k \in 1..Len(file') : k > reader[s].at /\ file'[k].row = row
    <3>1. row \in stayed[s] /\ row \in Rows' /\ row # Torn BY <2>1, <2>2 DEF Rows
    <3>2. PICK k \in 1..Len(file) : k > reader[s].at /\ file[k].row = row
      BY <1>2, <2>2, <3>1 DEF ReadsIInv, ReadSound
    <3>3. file' # <<>> BY <3>1 DEF Rows
    <3>4. Len(file) <= Len(file') /\ file'[k].row = row BY <3>1, <3>2, <3>3 DEF RowsStay
    <3>5. k \in 1..Len(file') BY <2>1, <3>4
    <3> QED BY <3>2, <3>4, <3>5
  <2>3. ReadSound(s)' BY <2>1, <2>2 DEF ReadSound
  <2> QED BY <1>2, <2>3
<1> QED BY <1>1, <1>2

\* A step of the subscriber.
LEMMA ReadMoves ==
    ASSUME ReadsIInv, NEW s \in Readers, ReadStart(s) \/ ReadLine(s) \/ ReadEnd(s), ReadNext
    PROVE  /\ ReadSound(s)'
           /\ ~reader'[s].open =>
                 stayed'[s] \subseteq reader'[s].got /\ reader'[s].got \subseteq seen'[s]
<1>1. /\ reader \in [Readers -> Reading] /\ file \in Seq(Line)
      /\ reader[s].at \in Nat /\ reader[s].open \in BOOLEAN
  BY DEF ReadsIInv, IInv, TypeOK, Reading
<1>2. file' = file /\ Rows' = Rows BY DEF ReadStart, ReadLine, ReadEnd, Rows
<1>3. CASE ReadStart(s)
  <2>1. Opened(s) BY <1>3 DEF ReadStart
  <2>2. stayed'[s] = Rows /\ seen'[s] = Rows BY <1>2, <2>1 DEF ReadNext
  <2>3. reader'[s] = [at |-> 0, got |-> {}, open |-> TRUE] BY <1>1, <2>1 DEF Opened
  <2>4. \A row \in Rows : \E k \in 1..Len(file) : k > 0 /\ file[k].row = row
    BY <1>1 DEF Rows
  <2> QED BY <1>2, <2>2, <2>3, <2>4 DEF ReadSound
<1>4. CASE ReadLine(s) \/ ReadEnd(s)
  <2>1. reader[s].open /\ ~Opened(s) BY <1>4 DEF ReadLine, ReadEnd, Closed, Opened
  <2>2. stayed'[s] = stayed[s] \intersect Rows /\ seen'[s] = seen[s] \union Rows
    BY <1>2, <2>1 DEF ReadNext
  <2>3. /\ reader[s].got \subseteq seen[s] /\ stayed'[s] \subseteq stayed[s]
        /\ \A row \in stayed[s] :
              \/ row \in reader[s].got
              \/ \E k \in 1..Len(file) : k > reader[s].at /\ file[k].row = row
    BY <2>1, <2>2 DEF ReadsIInv, ReadSound
  <2>4. CASE ReadLine(s)
    <3> DEFINE n == reader[s].at + 1
    <3>1. /\ reader'[s].open = reader[s].open /\ reader'[s].at = n
          /\ reader'[s].got = reader[s].got \union ({file[n].row} \ {Torn})
          /\ n \in 1..Len(file)
      <4>1. reader[s] \in Reading BY <1>1
      <4>2. n \in 1..Len(file) BY <1>1, <2>4 DEF ReadLine
      <4>3. reader' = [reader EXCEPT ![s] = [reader[s] EXCEPT
                  !.at = n, !.got = @ \union ({file[n].row} \ {Torn})]]
        BY <1>1, <2>4, <4>1 DEF ReadLine, After, Reading
      <4> QED BY <1>1, <4>1, <4>2, <4>3 DEF Reading
    <3>2. {file[n].row} \ {Torn} \subseteq Rows BY <1>1, <3>1 DEF Rows
    <3>3. ASSUME NEW row \in stayed'[s], row \notin reader'[s].got
          PROVE  \E k \in 1..Len(file) : k > n /\ file[k].row = row
      <4>1. PICK k \in 1..Len(file) : k > reader[s].at /\ file[k].row = row
        BY <2>3, <3>1, <3>3
      <4>2. row # Torn BY <2>2, <3>3 DEF Rows
      <4>3. k # n BY <3>1, <3>3, <4>1, <4>2
      <4>4. k > n BY <1>1, <4>1, <4>3
      <4> QED BY <4>1, <4>4
    <3>4. /\ reader'[s].got \subseteq seen'[s] /\ stayed'[s] \subseteq Rows
      BY <2>2, <2>3, <3>1, <3>2
    <3> QED BY <1>2, <2>1, <3>1, <3>3, <3>4 DEF ReadSound
  <2>5. CASE ReadEnd(s)
    <3>1. ~reader'[s].open /\ reader'[s].got = reader[s].got /\ reader[s].at >= Len(file)
      BY <1>1, <2>5 DEF ReadEnd, Closed, Reading
    <3>2. \A k \in 1..Len(file) : ~(k > reader[s].at) BY <1>1, <3>1
    <3>3. stayed'[s] \subseteq reader[s].got BY <2>3, <3>2
    <3> QED BY <2>2, <2>3, <3>1, <3>3 DEF ReadSound
  <2> QED BY <1>4, <2>4, <2>5
<1> QED BY <1>3, <1>4

LEMMA ReadNextKeeps == ReadsIInv /\ [ReadNext]_readVars => ReadsIInv'
<1> SUFFICES ASSUME ReadsIInv, [ReadNext]_readVars PROVE ReadsIInv' OBVIOUS
<1>1. IInv /\ reader \in [Readers -> Reading] BY DEF ReadsIInv, IInv, TypeOK
<1>2. [Next]_vars BY DEF ReadNext, readVars
<1>3. IInv' BY <1>1, <1>2, NextIInv
<1>4. RowsStay /\ file' \in Seq(Line) BY <1>1, <1>2, <1>3, NextRowsStay DEF IInv, TypeOK
<1>5. ASSUME NEW s \in Readers
      PROVE  /\ ReadSound(s)'
             /\ ~reader'[s].open =>
                   stayed'[s] \subseteq reader'[s].got /\ reader'[s].got \subseteq seen'[s]
  <2>1. CASE UNCHANGED readVars
    BY <2>1 DEF ReadsIInv, ReadSound, ReadsWhatStayed, Rows, readVars, vars
  <2>2. CASE ReadNext /\ (ReadStart(s) \/ ReadLine(s) \/ ReadEnd(s))
    BY <2>2, ReadMoves
  <2>3. CASE ReadNext /\ ~(ReadStart(s) \/ ReadLine(s) \/ ReadEnd(s))
    <3>1. reader'[s] = reader[s]
      BY <1>1, <2>3 DEF ReadNext, Next, PublishNext, PublishStart, ScanFindsIt, ScanFindsNothing,
        WriteFragment, WriteRow, CrashAfterSeparator, CrashBeforeNewline, Stops, ClearStart,
        Truncate, Lock, Unlock, Crash, ReadStart, ReadLine, ReadEnd, Opened, Closed
    <3>2. reader[s].open \in BOOLEAN BY <1>1 DEF Reading
    <3>3. ~Opened(s) BY <1>1, <3>1 DEF Opened
    <3>4. /\ stayed'[s] = IF reader[s].open THEN stayed[s] \intersect Rows' ELSE stayed[s]
          /\ seen'[s] = IF reader[s].open THEN seen[s] \union Rows' ELSE seen[s]
      BY <2>3, <3>3 DEF ReadNext
    <3> QED BY <1>4, <3>1, <3>2, <3>4, OthersMove
  <2> QED BY <2>1, <2>2, <2>3
<1> QED BY <1>3, <1>5 DEF ReadsIInv, ReadsWhatStayed

\* While others append, die in the middle of a row and clear: an open read has found
\* nothing that was not on the bus, and nothing that stays on it is behind the reader.
THEOREM ReadInvariance == ReadSpec => []ReadsIInv
<1>1. ReadInit => ReadsIInv
  BY InitIInv DEF ReadInit, Init, ReadsIInv, ReadsWhatStayed, ReadSound, NotReading
<1> QED BY <1>1, ReadNextKeeps, PTL DEF ReadSpec

\* What subscribe returns has every row that stayed on the bus through the read, and none
\* that was never on it, for any number of publishers, clearers and subscribers.
THEOREM ReadsAreSound == ReadSpec => []ReadsWhatStayed
<1>1. ReadsIInv => ReadsWhatStayed BY DEF ReadsIInv
<1> QED BY <1>1, ReadInvariance, PTL
=============================================================================
