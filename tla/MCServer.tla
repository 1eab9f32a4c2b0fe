------------------------------- MODULE MCServer -------------------------------
(***************************************************************************)
(* The parts of the server on small instances, one of them at a time:      *)
(* which one is chosen in the initial state, and the others keep a single  *)
(* state.                                                                  *)
(***************************************************************************)
EXTENDS McpSessions, EventFabric, RateLimiter, PolicyEngine, Recall, Fusion, TLC

CONSTANTS w1, r1, r2, n1, n2, n3, n4, k1, k2, v1, v2, x1, x2, x3, NoX

VARIABLE part

serverVars == <<sessionVars, fabricVars, limiterVars, policyVars, recallVars,
                fusionVars, part>>

-----------------------------------------------------------------------------
(* Instances                                                               *)

\* The watcher follows one project, or two of them.
MCFollows == w1 :> <<r1>>
BothProjects == w1 :> <<r1, r2>>

\* Two files of one stem, one of them without a project; a file of another project and
\* room; an ambient trace.
Note(stem, project, room, ambient, sections) ==
    [stem |-> stem, project |-> project, room |-> room, ambient |-> ambient,
     sections |-> sections]
MCAbout ==
    n1 :> Note("a", "here", Untold, FALSE, 2) @@ n2 :> Note("b", "there", "attic", FALSE, 1) @@
    n3 :> Note("a", Untold, Untold, FALSE, 1) @@ n4 :> Note("c", "other", Untold, TRUE, 1)

Query(project, cross, mentions, room, ambient, mode, blank, topK) ==
    [project |-> project, cross |-> cross, mentions |-> mentions, room |-> room,
     ambient |-> ambient, mode |-> mode, blank |-> blank, topK |-> topK]
MCQueries ==
    {Query("here", FALSE, {}, Untold, FALSE, "full", FALSE, 2),
     Query("here", FALSE, {"there"}, "cellar", TRUE, "full", FALSE, 2),
     Query("here", FALSE, {"there"}, Untold, FALSE, "full", FALSE, 1),
     Query("there", FALSE, {"here"}, "attic", FALSE, "index", FALSE, 2),
     Query("here", TRUE, {}, "attic", TRUE, "timeline", FALSE, 2),
     Query(Untold, FALSE, {}, Untold, TRUE, "full", TRUE, 1),
     Query(Untold, FALSE, {}, Untold, TRUE, "full", FALSE, 2)}
AnyQuery == CHOOSE q \in MCQueries : TRUE

MCWorkerOf == k1 :> v1 @@ k2 :> v2

Input(principal, groups, capability, acl, label) ==
    [principal |-> principal, groups |-> groups, capability |-> capability, acl |-> acl,
     classification |-> label]
MCInputs ==
    {Input("p1", {"viewer"}, "read_shared_records", {"p1"}, "internal"),
     Input("p1", {"external"}, "read_shared_records", {"p1"}, "internal"),
     Input("p1", {"admin"}, "read_shared_records", {"p2"}, "restricted"),
     Input("p1", {"viewer"}, "read_shared_records", {"p2"}, "none"),
     Input("p2", {"owner", "member"}, "write_all_records", {}, "internal"),
     Input("p2", {"owner"}, "write_all_records", {"p2"}, "secret")}

MCCallers ==
    {[principal |-> "p1", groups |-> {"viewer", "external"}],
     [principal |-> "p1", groups |-> {"member"}]}
MCToolNames == {"recall_relevant", "set_scope", "no_tool"}

\* Two vectors are alike, and each of them hardly like the third.
Angle(v, w) ==
    IF v = w THEN 100 ELSE IF {v, w} = {x1, x2} THEN 85 ELSE IF {v, w} = {x2, x3} THEN 40
    ELSE 10
MCCosine == [p \in {x1, x2, x3} \X {x1, x2, x3} |-> Angle(p[1], p[2])]
MCWeightings == {[least |-> 20, near |-> 30, decay |-> 3, floor |-> 20],
                 [least |-> 60, near |-> 90, decay |-> 2, floor |-> 50]}
MCGatings == {[alpha |-> 30, b |-> 10, c |-> 5, delta |-> 0],
              [alpha |-> 60, b |-> 20, c |-> 50, delta |-> 40]}
Find(id, score, vec) == [id |-> id, score |-> score, vec |-> vec]
MCFinds == {Find(1, 3, x1), Find(2, 2, x2), Find(3, 2, x3), Find(1, 1, NoX), Find(4, 0, x3)}
MCNames == {<<"x", 1>>, <<"x", 2>>, <<"y", 1>>, <<"z", 1>>}

-----------------------------------------------------------------------------
ServerInit ==
    /\ part \in {"sessions", "graph", "stream", "limiter", "policy", "tools", "recall", "keeping",
                 "chunks", "blocks", "pools"}
    /\ SessionsInit
    /\ PolicyInit /\ (part # "tools" => flags = {})
    /\ FabricInit
    /\ part # "graph" => store = "sqlite"
    /\ part # "stream" => \A w \in Watchers : watch[w].since = 0
    /\ LimiterInit /\ (part # "limiter" => backend = "memory")
    /\ RecallInit /\ (part # "recall" => request = AnyQuery)
    /\ FusionInit

\* Watchers do not read the graph, and publishers do not look at who watches: the graph
\* without watchers, with one call less, and as the publishers are alike, with a first call
\* of a certain one; the stream with events of that one which name no memory.  (To a stream
\* the death of a publisher is a notification that fails.)
OnePublisher == CHOOSE p \in Producers : TRUE
GraphNext ==
    /\ FabricNext
    /\ UNCHANGED watch
    /\ calls' < MaxPublishes
    /\ calls = 0 => \A p \in Producers \ {OnePublisher} : publishing'[p] = publishing[p]
StreamNext ==
    /\ FabricNext
    /\ UNCHANGED crashes
    /\ \A p \in Producers : ~Publishes(p, "idle")' => p = OnePublisher /\ Published(p).refs' = {}

ServerNext ==
    /\ UNCHANGED part
    /\ IF part = "sessions" THEN SessionsNext ELSE UNCHANGED sessionVars
    /\ CASE part = "graph" -> GraphNext
         [] part = "stream" -> StreamNext
         [] OTHER -> UNCHANGED fabricVars
    /\ IF part = "limiter" THEN LimiterNext ELSE UNCHANGED limiterVars
    /\ CASE part = "policy" -> RecordNext
         [] part = "tools" -> ToolNext
         [] OTHER -> UNCHANGED policyVars
    /\ IF part = "recall" THEN RecallNext ELSE UNCHANGED recallVars
    /\ IF part = "keeping" THEN KeepNext ELSE UNCHANGED keepVars
    /\ IF part = "chunks" THEN ChunkNext ELSE UNCHANGED chunkVars
    /\ IF part = "blocks" THEN FitNext ELSE UNCHANGED indexVars

\* The fairness of the sessions and of the fabric, each where it is the part that runs.
\* (A session's steps are not enabled in the state that the sessions keep in other parts.)
ServerFairness ==
    /\ Fairness
    /\ \A w \in Watchers :
          /\ WF_fabricVars(part = "stream" /\ Connect(w))
          /\ WF_fabricVars(part = "stream" /\ XReadBegins(w))
          /\ WF_fabricVars(part = "stream" /\ XRead(w))
          /\ WF_fabricVars(part = "stream" /\ Yield(w))

ServerSpec == ServerInit /\ [][ServerNext]_serverVars /\ ServerFairness

\* The part that runs is in a state of its own kind.
PartsTypeOK ==
    CASE part = "sessions" -> TypeOK
      [] part \in {"graph", "stream"} -> FabricTypeOK
      [] part = "limiter" -> LimiterTypeOK
      [] part \in {"policy", "tools"} -> PolicyTypeOK
      [] part = "recall" -> RecallTypeOK
      [] OTHER -> FusionTypeOK

\* How the candidates of a recall are weighed, fused and kept; what is only computed has a
\* state.
RankingSound == FusionKept /\ (part = "pools" => FusionComputed)

\* A session or a server that is to end ends, and what is published arrives.
\* (The publishers of checkpoints, and the subscribers of the stream.)
ServerProgress == SessionsEnd /\ (part # "graph" => Delivered)
=============================================================================
