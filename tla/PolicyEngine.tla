---------------------------- MODULE PolicyEngine ----------------------------
(***************************************************************************)
(* The policy engine (authz/policy_engine.py): a decision from the roles   *)
(* of a principal, the ACL and the classification of a resource, and a     *)
(* cache of decisions with a life time and a limited size, shared by the   *)
(* threads of a process.  A miss evaluates outside the cache's lock.       *)
(*                                                                         *)
(* The tool server asks it before it runs a tool (mcp/server.py,           *)
(* mcp/authz.py): a thread serves one tools/call at a time.                *)
(***************************************************************************)
EXTENDS Naturals, FiniteSets

CONSTANTS
    Deciders,    \* threads that ask for decisions
    Inputs,      \* what they ask: principal, groups, capability, acl, classification
    CacheSize,   \* max_size
    Callers,     \* who calls tools: principal and groups
    Nobody,      \* no principal is bound, as over stdio
    ToolNames    \* the tools that are called, of which the server may not know some

ASSUME CacheSizeAssumption == CacheSize \in Nat \ {0}

\* A classification is a label, or absent; an empty label is never given.
ASSUME InputsAssumption ==
    \A i \in Inputs : DOMAIN i = {"principal", "groups", "capability", "acl", "classification"}

VARIABLES
    decisions,   \* the entries of the cache
    older,       \* pairs of their keys, of which the first expires before the second
    asked,       \* the miss each thread is evaluating
    served,      \* the last decision that was returned
    flags,       \* the feature flags that are on
    call         \* the tools/call each thread serves

policyVars == <<decisions, older, asked, served, flags, call>>

NotAsking == [busy |-> FALSE]
NoCall == [pc |-> "idle"]

\* TOOL_CAPABILITIES and _TOOL_FLAGS, a tool of each kind.
ToolCapabilities ==
    [recall_relevant |-> "read_own_records", auto_learn |-> "write_own_records",
     sync_project |-> "manage_settings", query_telemetry |-> "view_audit_log",
     graph_traverse |-> "read_own_records", set_scope |-> "write_own_records",
     publish_context |-> "write_own_records", retrieve_context |-> "read_own_records",
     record_decision |-> "write_own_records", report_outcome |-> "write_own_records"]
ToolFlags ==
    [graph_traverse |-> "graph", set_scope |-> "graph", publish_context |-> "router",
     retrieve_context |-> "cognitive_retrieval", record_decision |-> "decision_memory",
     report_outcome |-> "operational_memory"]
FlagsOf(tools) == {ToolFlags[n] : n \in tools \intersect DOMAIN ToolFlags}

PolicyInit ==
    /\ decisions = {} /\ older = {}
    /\ asked = [t \in Deciders |-> NotAsking]
    /\ served = <<>>
    /\ flags \in SUBSET FlagsOf(ToolNames)
    /\ call = [t \in Deciders |-> NoCall]

(***************************************************************************)
(* _evaluate                                                               *)
(***************************************************************************)
ViewerCaps == {"read_own_records", "read_shared_records"}
MemberCaps == ViewerCaps \union {"create_own_records", "write_own_records"}
AdminCaps == MemberCaps \union {"read_all_records", "manage_users", "manage_devices",
                                "manage_settings", "view_audit_log"}
OwnerCaps == AdminCaps \union {"read_restricted", "write_all_records", "assign_roles",
                               "revoke_roles"}
RoleCapabilities ==
    [viewer |-> ViewerCaps, member |-> MemberCaps, admin |-> AdminCaps, owner |-> OwnerCaps]

RestrictedRoles == {"admin"}
ConfidentialRoles == {"admin", "data_engineer"}
InternalRoles == ConfidentialRoles \union {"analyst", "member", "viewer"}
ClassificationPolicy ==
    [public |-> InternalRoles \union {"external"}, internal |-> InternalRoles,
     confidential |-> ConfidentialRoles, restricted |-> RestrictedRoles]

ReadCaps == {"read_own_records", "read_shared_records", "read_all_records",
             "read_restricted", "view_audit_log"}
WriteCaps == {"create_own_records", "write_own_records", "write_all_records"}

CapsOf(groups) ==
    UNION {RoleCapabilities[g] : g \in groups \intersect DOMAIN RoleCapabilities}

InAcl(i) ==
    \/ i.principal \in i.acl
    \/ i.capability \in ReadCaps /\ "read_all_records" \in CapsOf(i.groups)
    \/ i.capability \in WriteCaps /\ "write_all_records" \in CapsOf(i.groups)

Cleared(i) ==
    \/ i.classification = "none"
    \/ /\ i.classification \in DOMAIN ClassificationPolicy
       /\ i.groups \intersect ClassificationPolicy[i.classification] # {}

Evaluate(i) == i.capability \in CapsOf(i.groups) /\ InAcl(i) /\ Cleared(i)

(***************************************************************************)
(* decide: a hit, or an evaluation whose result is put.                    *)
(***************************************************************************)
\* Mutant: the key leaves out the groups of the principal.
CacheKeyWithoutGroups(i) == <<i.principal, i.capability, i.acl, i.classification>>
CacheKey(i) == <<i.principal, i.groups, i.capability, i.acl, i.classification>>

Hits(i) == {e \in decisions : e.key = CacheKey(i) /\ ~e.expired}

\* The cache is left with the entries of kept.
Among(kept) == LET keys == {e.key : e \in kept} IN older \intersect (keys \X keys)
Keep(kept) == decisions' = kept /\ older' = Among(kept)

DecideFromCache(t, i) ==
    /\ ~asked[t].busy
    /\ \E e \in Hits(i) : served' = <<i, e.allow>>
    /\ UNCHANGED <<decisions, older, asked>>

\* An expired entry is deleted when it is looked up.
DecideMiss(t, i) ==
    /\ ~asked[t].busy
    /\ Hits(i) = {}
    /\ Keep({e \in decisions : e.key # CacheKey(i)})
    /\ asked' = [asked EXCEPT ![t] = [busy |-> TRUE, input |-> i]]
    /\ UNCHANGED served

\* A full cache drops what has expired, and if that is nothing its oldest entries.
OlderThan(e) == {d \in decisions : <<d.key, e.key>> \in older}
Alive == {e \in decisions : ~e.expired}
MadeRoom ==
    IF Cardinality(decisions) < CacheSize THEN decisions
    ELSE IF Cardinality(Alive) < CacheSize THEN Alive
    ELSE {e \in Alive :
             Cardinality(OlderThan(e) \intersect Alive) > Cardinality(Alive) - CacheSize}

DecidePut(t) ==
    /\ asked[t].busy
    /\ LET i == asked[t].input
           entry == [key |-> CacheKey(i), allow |-> Evaluate(i), expired |-> FALSE]
           kept == {e \in MadeRoom : e.key # entry.key}
       IN  /\ decisions' = kept \union {entry}
           /\ older' = Among(kept) \union {<<e.key, entry.key>> : e \in kept}
           /\ served' = <<i, entry.allow>>
    /\ asked' = [asked EXCEPT ![t] = NotAsking]

\* The life time of the oldest entry that is still alive runs out.
DecisionExpires ==
    /\ \E e \in Alive :
          /\ \A d \in OlderThan(e) : d.expired
          /\ decisions' = (decisions \ {e}) \union {[e EXCEPT !.expired = TRUE]}
    /\ UNCHANGED <<older, asked, served>>

\* invalidate, which role administration calls.
InvalidatePrincipal(p) ==
    /\ Keep({e \in decisions : e.key[1] # p})
    /\ UNCHANGED <<asked, served>>

(***************************************************************************)
(* _handle_tools_call: an unknown tool, one that is switched off and a     *)
(* caller without the capability are refused, in this order; what runs     *)
(* ends with a result or an error.                                         *)
(***************************************************************************)
Enabled == {n \in DOMAIN ToolCapabilities :
               n \in DOMAIN ToolFlags => ToolFlags[n] \in flags}

\* check_tool_access: the caller itself is the ACL.
\* Mutant: every tool asks for the least capability.
AccessToRead(who, tool) ==
    [principal |-> who.principal, groups |-> who.groups, acl |-> {who.principal},
     classification |-> "none", capability |-> "read_own_records"]
Access(who, tool) ==
    [principal |-> who.principal, groups |-> who.groups, acl |-> {who.principal},
     classification |-> "none", capability |-> ToolCapabilities[tool]]

CallTool(t, who, tool) ==
    /\ call[t] = NoCall /\ ~asked[t].busy
    /\ call' = [call EXCEPT ![t] =
          [pc |-> IF tool \in Enabled /\ who # Nobody THEN "check" ELSE "refused",
           who |-> who, tool |-> tool]]
    /\ UNCHANGED <<decisions, older, asked, served, flags>>

CheckAccess(t) ==
    LET wanted == Access(call[t].who, call[t].tool) IN
    /\ call[t].pc = "check"
    /\ \/ DecideMiss(t, wanted) /\ UNCHANGED call
       \/ /\ DecideFromCache(t, wanted) \/ DecidePut(t)
          /\ call' = [call EXCEPT ![t].pc = IF served'[2] THEN "run" ELSE "refused"]
    /\ UNCHANGED flags

\* _dispatch_tool, and the answer.
CallEnds(t) ==
    /\ call[t].pc \in {"run", "refused"}
    /\ call' = [call EXCEPT ![t] = NoCall]
    /\ UNCHANGED <<decisions, older, asked, served, flags>>

Decide(t) ==
    /\ call[t] = NoCall
    /\ (\E i \in Inputs : DecideFromCache(t, i) \/ DecideMiss(t, i)) \/ DecidePut(t)
    /\ UNCHANGED <<flags, call>>

CacheStep ==
    /\ DecisionExpires \/ \E p \in {i.principal : i \in Inputs} : InvalidatePrincipal(p)
    /\ UNCHANGED <<flags, call>>

RecordNext == (\E t \in Deciders : Decide(t)) \/ CacheStep
ToolNext ==
    \/ \E t \in Deciders :
          \/ \E who \in Callers \union {Nobody}, tool \in ToolNames : CallTool(t, who, tool)
          \/ CheckAccess(t) \/ CallEnds(t)
    \/ CacheStep

PolicyNext == RecordNext \/ ToolNext

PolicySpec == PolicyInit /\ [][PolicyNext]_policyVars

-----------------------------------------------------------------------------
DecisionInputs ==
    Inputs \union {Access(who, tool) : who \in Callers,
                                       tool \in ToolNames \intersect DOMAIN ToolCapabilities}
PolicyTypeOK ==
    /\ decisions \subseteq [key: {CacheKey(i) : i \in DecisionInputs}, allow: BOOLEAN,
                             expired: BOOLEAN]
    /\ Cardinality(decisions) <= CacheSize
    /\ \A d, e \in decisions : d = e \/ <<d.key, e.key>> \in older \/ <<e.key, d.key>> \in older
    /\ LET keys == {e.key : e \in decisions} IN older \subseteq keys \X keys
    /\ asked \in [Deciders -> {NotAsking} \union [busy: {TRUE}, input: DecisionInputs]]
    /\ served \in {<<>>} \union (DecisionInputs \X BOOLEAN)
    /\ flags \subseteq FlagsOf(ToolNames)
    /\ call \in [Deciders -> {NoCall} \union
                    [pc: {"check", "run", "refused"}, who: Callers \union {Nobody},
                     tool: ToolNames]]

\* A decision that is served is the one the policy gives for the request itself, with
\* the groups the principal has now: not one made for it when its groups, the ACL or the
\* label were others, whatever the threads put, evicted, let expire or invalidated.
\* (_make_cache_key, _DecisionCache.)
ServedAsEvaluated == served # <<>> => served[2] = Evaluate(served[1])

\* A tool runs if and only if it is switched on and one of the roles that its caller has
\* in this request gives the capability that the tool is annotated with, whatever was
\* decided before for the same caller, for another tool or with other roles.
\* (_handle_tools_call, check_tool_access.)
MayUse(c) ==
    /\ c.who # Nobody /\ c.tool \in Enabled
    /\ \E g \in c.who.groups \intersect DOMAIN RoleCapabilities :
          ToolCapabilities[c.tool] \in RoleCapabilities[g]
ToolsRunByRole ==
    \A t \in Deciders : /\ (call[t].pc = "run" => MayUse(call[t]))
                         /\ (call[t].pc = "refused" => ~MayUse(call[t]))

\* What the policy says holds for records and for tools.  (PolicyEngine.decide.)
PolicyObeyed == ServedAsEvaluated /\ ToolsRunByRole
=============================================================================
