------------------------------- MODULE MCStores -------------------------------
(***************************************************************************)
(* The stores on small instances, one of them at a time: which one is      *)
(* chosen in the initial state, and the others keep a single state.        *)
(***************************************************************************)
EXTENDS FileBus, MemoryLog, SharePointSync, SearchCache, RecallFeedback,
        HnswIndex, GraphAlgorithms, SyncEngine, SessionLinks, TLC

-----------------------------------------------------------------------------
(* The file bus with two publishers, a process that clears and one         *)
(* subscriber.  Two of the three items have the same content; the third    *)
(* and the legacy rows have no hash.                                       *)

CONSTANTS h, noHash, a, b, c, l, c1, c2

MCItems == {[id |-> a, hash |-> h], [id |-> b, hash |-> h], [id |-> c, hash |-> noHash]}
MCLegacy == {[id |-> l, hash |-> noHash]}

-----------------------------------------------------------------------------
(* The stores, one of them at a time.                                      *)

VARIABLE part

storesVars == <<readVars, logVars, shareVars, cacheVars, feedbackVars, hnswVars, walkVars,
                clusterVars, syncVars, sessionVars, part>>

MCPenalty == 2 :> 1 @@ 4 :> 2 @@ 8 :> 3
MCFileOf == c1 :> "file" @@ c2 :> "file"

StoresInit ==
    /\ part \in {"bus", "log", "share", "cache", "feedback", "index", "walk", "clusters",
                 "sync", "sessions", "nights"}
    /\ ReadInit /\ (part # "bus" => file = <<>>)
    /\ LogInit /\ ShareInit /\ CacheInit /\ FeedbackInit /\ HnswInit /\ SyncInit
    /\ SessionInit
    /\ IF part = "walk" THEN WalkInit
       ELSE links = {} /\ known = {Origin} /\ visible = {Origin} /\ depth = 0 /\ WalkInit
    /\ IF part = "clusters" THEN ClusterInit ELSE similar = {} /\ ClusterInit

StoresNext ==
    /\ UNCHANGED part
    /\ IF part = "bus" THEN ReadNext ELSE UNCHANGED readVars
    /\ IF part = "log" THEN LogNext ELSE UNCHANGED logVars
    /\ IF part = "share" THEN ShareNext ELSE UNCHANGED shareVars
    /\ IF part = "cache" THEN CacheNext ELSE UNCHANGED cacheVars
    /\ IF part = "feedback" THEN FeedbackNext ELSE UNCHANGED feedbackVars
    /\ IF part = "index" THEN HnswNext ELSE UNCHANGED hnswVars
    /\ IF part = "walk" THEN WalkNext ELSE UNCHANGED walkVars
    /\ IF part = "clusters" THEN ClusterNext ELSE UNCHANGED clusterVars
    /\ IF part = "sync" THEN SyncNext ELSE UNCHANGED syncVars
    /\ IF part = "sessions" THEN LinkNext ELSE UNCHANGED linkVars
    /\ IF part = "nights" THEN LoopNext ELSE UNCHANGED loop

\* Only the bus never stops: a walk and a clustering end, and the others have bounds.
PartEnded == part # "bus" /\ UNCHANGED storesVars

StoresSpec == StoresInit /\ [][StoresNext \/ PartEnded]_storesVars

\* The part that runs is in a state of its own kind.
PartsTypeOK ==
    CASE part = "bus" -> TypeOK
      [] part = "log" -> LogTypeOK
      [] part = "share" -> ShareTypeOK
      [] part = "cache" -> CacheTypeOK
      [] part = "feedback" -> FeedbackTypeOK
      [] part = "index" -> HnswTypeOK
      [] part = "walk" -> WalkTypeOK
      [] part = "clusters" -> ClusterTypeOK
      [] part = "sync" -> SyncTypeOK
      [] part \in {"sessions", "nights"} -> SessionTypeOK

\* The walk, the clusters and the links between sessions are what they are said to be.
GraphSound == WalkIsExact /\ RootsAreComponents /\ LinksSound
=============================================================================
