------------------------------ MODULE MCServices ------------------------------
(***************************************************************************)
(* The services around the stores on small instances, one of them at a     *)
(* time: which one is chosen in the initial state, and the others keep a   *)
(* single state.                                                           *)
(***************************************************************************)
EXTENDS AuditTrail, CheckpointHistory, Migration, QueryPages, DocumentIngest,
        Administration, Backends, ModelTelemetry, Publishing, Installation, TLC

CONSTANTS u1, u2, f1, f2, h1, h1x, h2, h3, g1, g2, m1, r1, r2, o2, o3, d1, d2, d3, d4, l1, l2

VARIABLE part

servicesVars == <<auditVars, historyVars, migrationVars, pagesVars, ingestVars,
                  adminVars, backendsVars, telemetryVars, publishingVars, installVars, part>>

\* An export that the policy allows and one that it forbids though it was approved.
MCAsks == {[level |-> "internal", format |-> "json", approved |-> FALSE],
           [level |-> "restricted", format |-> "json", approved |-> TRUE]}

\* Paths h1 and h1x are one path spelled in two ways; h3 holds a secret, and an old
\* checkpoint has it, and a diff under a name that is no key.
MCKeyOf == h1 :> h1 @@ h1x :> h1 @@ h2 :> h2 @@ h3 :> h3
MCTouched == {<<h1x, h1, h3>>, <<h2, h1>>}
MCOld == {[id |-> 0, slug |-> g1, at |-> -1, diffs |-> {h1, h1x, h3}, whole |-> TRUE]}
MCClaims == {{}, {g1}}
MCSelectors == {h1, h3, NoKey}

MCDatabases == <<f1, f2>>
MCSteps == <<u1, u2>>
MCAdds == u1 :> Columns @@ u2 :> {}

\* The two days of the history, and the first of them only.
MCRanges == {[from |-> 0, to |-> 99], [from |-> 0, to |-> 4]}
MCAclOf == 1 :> {"alice"} @@ 2 :> {"team"} @@ 3 :> {"bob"}
MCAskers == {{"alice", "team"}}

\* Calls of two sessions: at once, late, from another zone, and one that lasts.
MCReports ==
    {[by |-> "s1", back |-> 0, zone |-> 0, took |-> 0, mode |-> m1],
     [by |-> "s1", back |-> 1, zone |-> 0, took |-> 2, mode |-> m1],
     [by |-> "s2", back |-> 0, zone |-> 0, took |-> 0, mode |-> m1],
     [by |-> "s1", back |-> 2, zone |-> 1, took |-> 0, mode |-> m1]}

\* Two runs of one connector; the second content of the file is too large.
MCFileOfRun == r1 :> f1 @@ r2 :> f1
MCLengthOf == 1 :> 7 @@ 2 :> 3 @@ 3 :> 10

\* One who may do all, and an auditor.
MCMayDo == o2 :> {"assign_roles", "manage_settings", "view_audit_log"} @@ o3 :> {"view_audit_log"}

\* Two threads of one process and one of another, and an adviser.
MCServerOf == d1 :> "p" @@ d2 :> "p" @@ d3 :> "q" @@ d4 :> "p"
MCPrice == o2 :> 2

MCSources == <<"backlog">>

\* No env file, or one with a comment, a token and the settings of another mode.
MCEvents == <<"pre", "post">>
MCAtFirst ==
    {NoEnv, <<Line("#", "mine"), Line("MODE", "vps_cpu"), Line("TOKEN", "t"),
              Line("RERANKER", "true")>>}

PagesOf(kind) ==
    \A p \in Pagers : pager'[p] # Gone => pager'[p].query.of = kind

CallsForRoles(yes) ==
    \A c \in Consoles : call'[c] # NoCall => IsRoleOp(call'[c].op) = yes

\* Two threads are alike while they are idle: the second one begins only beside the first.
SecondWaits ==
    /\ call[l1] = NoCall /\ call[l2] = NoCall => call'[l2] = NoCall
    /\ dispatch[d1] = NotLogging /\ dispatch[d2] = NotLogging => dispatch'[d2] = NotLogging

\* So are two roles before the first call.
OwnerFirst ==
    calls = 0 => \A c \in Consoles : call'[c] # NoCall => call'[c].op.role = "owner"

ServicesInit ==
    /\ part \in {"audit", "history", "migration", "pages", "notes", "calls", "ingest",
                "roles", "console", "backends", "stats", "skills", "send", "registry", "setup"}
    /\ AuditInit /\ HistoryInit
    /\ MigrationInit /\ (part # "migration" => \A n \in Names : live[n] = NoFile)
    /\ PagesInit /\ (part # "notes" => listed = {})
    /\ IngestInit /\ (part # "ingest" => \A f \in IngestFiles : body[f] = NoBody)
    /\ AdminInit /\ BackendsInit /\ TelemetryInit /\ PublishingInit
    /\ InstallationInit /\ (part # "setup" => env = NoEnv /\ settings = NoSettings)

ServicesNext ==
    /\ UNCHANGED part
    /\ IF part = "audit" THEN AuditNext ELSE UNCHANGED auditVars
    /\ IF part = "history" THEN HistoryNext ELSE UNCHANGED historyVars
    /\ IF part = "migration" THEN MigrationNext ELSE UNCHANGED migrationVars
    /\ IF part \in {"pages", "notes", "calls"} THEN PagesNext ELSE UNCHANGED pagesVars
    /\ part = "pages" => PagesOf("events") /\ UNCHANGED <<listed, metered>>
    /\ part = "notes" => PagesOf("notes") /\ UNCHANGED <<utcHour, numbered, metered>>
    /\ part = "calls" => PagesOf("calls") /\ UNCHANGED <<numbered, listed>>
    /\ IF part = "ingest" THEN IngestNext ELSE UNCHANGED ingestVars
    /\ IF part \in {"roles", "console"} THEN AdminNext ELSE UNCHANGED adminVars
    /\ IF part = "backends" THEN BackendsNext ELSE UNCHANGED backendsVars
    /\ IF part = "stats" THEN RecordNext ELSE UNCHANGED recordVars
    /\ IF part = "skills" THEN DraftNext ELSE UNCHANGED draftVars
    /\ IF part = "send" THEN SendNext ELSE UNCHANGED sendVars
    /\ IF part = "registry" THEN RegistryNext ELSE UNCHANGED registryVars
    /\ IF part = "setup" THEN InstallationNext ELSE UNCHANGED installVars
    /\ SecondWaits
    /\ part = "roles" => CallsForRoles(TRUE) /\ OwnerFirst /\ UNCHANGED today
    /\ part = "console" => CallsForRoles(FALSE)

ServicesSpec == ServicesInit /\ [][ServicesNext]_servicesVars

\* The part that runs is in a state of its own kind.
PartsTypeOK ==
    CASE part = "audit" -> AuditTypeOK
      [] part = "history" -> HistoryTypeOK
      [] part = "migration" -> MigrationTypeOK
      [] part \in {"pages", "notes", "calls"} -> PagesTypeOK
      [] part = "ingest" -> IngestTypeOK
      [] part \in {"roles", "console"} -> AdminTypeOK
      [] part = "backends" -> BackendsTypeOK
      [] part \in {"stats", "skills"} -> TelemetryTypeOK
      [] part \in {"send", "registry"} -> PublishingTypeOK
      [] part = "setup" -> InstallationTypeOK

\* What one asks for is what one gets: of a log in pages that grow, of statistics that lag,
\* of a reranker whatever its model answers, and of a text whose short sentences are merged.
AnswersSound == PagesSound /\ TelemetrySound /\ RerankSound /\ SentencesKept

\* What flows in, documents and publications, gets where it belongs.
InflowSound == IngestSound /\ PublishingSound

\* What an administrator or an installer sets up is what is there.
SetupSound == AdministrationSound /\ InstallationSound
=============================================================================
