---------------------------- MODULE MCDiscoveries ----------------------------
(***************************************************************************)
(* Discovery files and where they come from on small instances, one part   *)
(* at a time: "files" is MCDiscoveryStore, "capture" are the learners that *)
(* make discoveries of sessions, "persona" what is made of discoveries,    *)
(* "commits" the hook after a commit, and "texts" what texts come to.      *)
(***************************************************************************)
EXTENDS MCDiscoveryStore, Capture, SessionFiles

CONSTANTS t1, t2, l1

\* The first three are alike in pairs, the others differ from them in scope, are pinned or
\* differ in most words.
Notion(id, scope, words, score, kept) ==
    [id |-> id, scope |-> scope, words |-> words, score |-> score, kept |-> kept]
MCNotions ==
    {Notion(1, "p", {"a", "b"}, 5, FALSE), Notion(2, "p", {"a", "b", "c"}, 5, FALSE),
     Notion(3, "p", {"b", "c"}, 6, FALSE), Notion(4, "q", {"a", "b"}, 4, FALSE),
     Notion(5, "p", {"a", "b"}, 7, TRUE), Notion(6, "p", {"b", "c", "d"}, 5, FALSE)}

MCKinds == <<"decisions", "negatives">>

VARIABLE part

discoveriesVars == <<mcVars, captureVars, personaVars, commitVars, part>>

\* The two sessions are alike, so that one order of them at first stands for both; and so
\* are the learners, so that one of them may be the first.
DiscoveriesInit ==
    /\ part \in {"files", "capture", "persona", "commits", "texts"}
    /\ MCInit
    /\ part # "files" => scenario = "hygiene" /\ LiveNames = {}
    /\ CaptureInit /\ lately = <<t1, t2>>
    /\ PersonaInit
    /\ CommitInit

DiscoveriesNext ==
    /\ UNCHANGED part
    /\ IF part = "files" THEN MCNext ELSE UNCHANGED mcVars
    /\ IF part = "capture" THEN CaptureNext ELSE UNCHANGED captureVars
    /\ learned = 0 => \A l \in Learners \ {l1} : learner'[l] = learner[l]
    /\ IF part = "persona" THEN PersonaNext ELSE UNCHANGED personaVars
    /\ IF part = "commits" THEN CommitNext ELSE UNCHANGED commitVars

\* Learning ends when the bound on calls is reached and the last of them is done, and so
\* do commits; texts are computed in one state.
PartEnded ==
    /\ CASE part = "capture" ->
               learned = MaxLearned /\ \A l \in Learners : learner[l].pc \in {"idle", "ended"}
         [] part = "commits" ->
               head = MaxCommits /\ date > MaxMidnights /\ \A h \in Hooks : hook[h] = Quiet
         [] part = "texts" -> TRUE
         [] OTHER -> FALSE
    /\ UNCHANGED discoveriesVars

DiscoveriesSpec ==
    DiscoveriesInit /\ [][DiscoveriesNext \/ PartEnded]_discoveriesVars

\* The learners and the persona are in a state of their kind (the files: TypeOK).
SessionsTypeOK == CaptureTypeOK /\ PersonaTypeOK /\ CommitTypeOK

\* What is made of sessions and commits is of its kind and whole, and loses no more than it
\* says.
ExtractsSound ==
    part # "files" =>
        SessionsTypeOK /\ CaptureSound /\ CommitsSound /\ (part = "texts" => TextsSound)
=============================================================================
