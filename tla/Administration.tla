---------------------------- MODULE Administration ----------------------------
(***************************************************************************)
(* The administration of a deployment: roles (api/role_admin.py,           *)
(* cli/roles.py, authz/roles.py) and the admin console                     *)
(* (api/admin_console.py), each with its record of what was done: lines of *)
(* audit.jsonl for roles, rows of audit.db (audit/log.py) for the rest.    *)
(*                                                                         *)
(* The server listens with two threads of one process, which share the     *)
(* policy in its memory; each run of the command line is a process.  What  *)
(* an administrator may do comes from the groups in the token, never from  *)
(* the roles that are assigned here.                                       *)
(***************************************************************************)
EXTENDS Integers, Sequences, FiniteSets, SequencesExt

CONSTANTS
    Listeners,   \* threads of the server, one call each at a time
    Shells,      \* runs of the command line
    Admins,      \* principals that call the server
    MayDo,       \* the capabilities of each: _capabilities_for_principal
    Targets,     \* principals that get roles
    RoleNames,   \* roles that are assigned
    Policies,    \* export policies that are sent: each the set of requests it allows
    DefaultPolicy,
    Requests,    \* exports that are asked for: level, format and approval
    Days,        \* what retention is asked for, at least a day
    LastDay,     \* bound: the clock
    MaxCalls,    \* bound: calls
    MaxFaults    \* bound: deaths and failing writes

ASSUME AdministrationBounds ==
    /\ MayDo \in [Admins -> SUBSET {"assign_roles", "manage_settings", "view_audit_log"}]
    /\ Days \subseteq Nat \ {0}
    /\ {LastDay, MaxCalls, MaxFaults} \subseteq Nat
    /\ Policies \subseteq SUBSET Requests /\ DefaultPolicy \subseteq Requests

\* The server listens, with so many threads.
ASSUME SomeoneListens == IsFiniteSet(Listeners) /\ Listeners # {}

VARIABLES
    today,      \* the clock
    roles,      \* identity.db: who has which role
    jsonl,      \* audit.jsonl
    policy,     \* policy_state, in the memory of the server
    filed,      \* audit.db: [id, ok, day] by the call that wrote each
    call,       \* where each listener and shell is
    calls,      \* calls so far
    answered,   \* history: [id, day] of the recorded operations that were answered
    changes,    \* history: the calls that changed roles or policy
    horizon,    \* history: the latest day up to which rows were purged
    blurred,    \* history: assignments changed by two calls at a time, or unrecorded
    faults      \* history: deaths and failing writes

adminVars ==
    <<today, roles, jsonl, policy, filed, call, calls, answered, changes, horizon, blurred, faults>>

NoCall == [pc |-> "idle"]
Consoles == Listeners \union Shells

AdminInit ==
    /\ today = 0
    /\ roles = {}
    /\ jsonl = <<>>
    /\ policy = DefaultPolicy
    /\ filed = {}
    /\ call = [c \in Consoles |-> NoCall]
    /\ calls = 0
    /\ answered = {}
    /\ changes = {}
    /\ horizon = -LastDay
    /\ blurred = {}
    /\ faults = 0

-----------------------------------------------------------------------------
(* What is asked, and the capability that it takes.                        *)

RoleOps == [kind: {"assign", "revoke"}, target: Targets, role: RoleNames]
ConsoleOps ==
    [kind: {"policy"}, policy: Policies] \union [kind: {"export"}, request: Requests]
        \union [kind: {"purge"}, days: Days] \union [kind: {"read"}]

IsRoleOp(op) == op.kind \in {"assign", "revoke"}
Needs(op) ==
    IF IsRoleOp(op) THEN "assign_roles"
    ELSE IF op.kind = "read" THEN "view_audit_log" ELSE "manage_settings"

\* manage_role and the routes of the console refuse before they do anything; the command
\* line asks nobody.
Call(c, op) ==
    /\ call[c] = NoCall /\ calls < MaxCalls
    /\ IF c \in Shells THEN IsRoleOp(op) ELSE \E a \in Admins : Needs(op) \in MayDo[a]
    /\ calls' = calls + 1
    /\ call' = [call EXCEPT ![c] = [pc |-> "act", id |-> calls + 1, op |-> op, ok |-> TRUE]]
    /\ UNCHANGED <<today, roles, jsonl, policy, filed, answered, changes, horizon, blurred, faults>>

-----------------------------------------------------------------------------
(* The change.                                                             *)

Assignment(op) == <<op.target, op.role>>
\* Mutant: a role is revoked with all others of the principal.
WithoutAny(p, r) == {a \in roles : a[1] # p}
WithoutRole(p, r) == roles \ {<<p, r>>}

\* Calls that are between their change of an assignment and its line.
Changing(c, a) ==
    call[c].pc = "record" /\ IsRoleOp(call[c].op) /\ Assignment(call[c].op) = a

ChangeRole(c) ==
    LET op == call[c].op
        a == Assignment(op)
    IN
    /\ call[c].pc = "act" /\ IsRoleOp(op)
    /\ roles' = IF op.kind = "assign" THEN roles \union {a} ELSE WithoutRole(op.target, op.role)
    /\ call' = [call EXCEPT ![c].pc = "record",
                            ![c].ok = op.kind = "assign" \/ a \in roles]
    /\ changes' = IF roles' # roles THEN changes \union {call[c].id} ELSE changes
    /\ blurred' = IF \E d \in Consoles : Changing(d, a) THEN blurred \union {a} ELSE blurred
    /\ UNCHANGED <<today, jsonl, policy, filed, calls, answered, horizon, faults>>

PutPolicy(c) ==
    /\ call[c].pc = "act" /\ call[c].op.kind = "policy"
    /\ policy' = call[c].op.policy
    /\ changes' = IF policy' # policy THEN changes \union {call[c].id} ELSE changes
    /\ call' = [call EXCEPT ![c].pc = "record"]
    /\ UNCHANGED <<today, roles, jsonl, filed, calls, answered, horizon, blurred, faults>>

\* check_export_allowed, before the rows are queried.
DecideExport(c) ==
    /\ call[c].pc = "act" /\ call[c].op.kind = "export"
    /\ call' = [call EXCEPT ![c].pc = "record", ![c].ok = call[c].op.request \in policy]
    /\ UNCHANGED <<today, roles, jsonl, policy, filed, calls, answered, changes, horizon, blurred,
                   faults>>

\* purge_before.  Mutant: the day at the edge goes too.
PastEdge(row, edge) == row.day <= edge
Past(row, edge) == row.day < edge
Purge(c) ==
    LET edge == today - call[c].op.days IN
    /\ call[c].pc = "act" /\ call[c].op.kind = "purge"
    /\ filed' = {row \in filed : ~Past(row, edge)}
    /\ horizon' = IF edge > horizon THEN edge ELSE horizon
    /\ call' = [call EXCEPT ![c].pc = "record"]
    /\ UNCHANGED <<today, roles, jsonl, policy, calls, answered, changes, blurred, faults>>

\* Reading the audit log is recorded before it is read.
StartRead(c) ==
    /\ call[c].pc = "act" /\ call[c].op.kind = "read"
    /\ call' = [call EXCEPT ![c].pc = "record"]
    /\ UNCHANGED <<today, roles, jsonl, policy, filed, calls, answered, changes, horizon, blurred,
                   faults>>

-----------------------------------------------------------------------------
(* The record, and the answer.                                             *)

LineOf(k) ==
    [id |-> k.id, of |-> Assignment(k.op),
     action |-> IF k.op.kind = "assign" THEN "role_assigned" ELSE "role_revoked",
     result |-> IF k.ok THEN "ok" ELSE "not_found"]

Record(c) ==
    /\ call[c].pc = "record"
    /\ IF IsRoleOp(call[c].op)
       THEN /\ jsonl' = Append(jsonl, LineOf(call[c]))
            /\ UNCHANGED filed
       ELSE /\ filed' = filed \union {[id |-> call[c].id, ok |-> call[c].ok, day |-> today]}
            /\ UNCHANGED jsonl
    /\ call' = [call EXCEPT ![c] =
          [pc |-> "answer", id |-> @.id, op |-> @.op, ok |-> @.ok, day |-> today]]
    /\ UNCHANGED <<today, roles, policy, calls, answered, changes, horizon, blurred, faults>>

\* An export that is refused is answered too, with what it lacks.
Answer(c) ==
    /\ call[c].pc = "answer"
    /\ answered' = answered \union {[id |-> call[c].id, role |-> IsRoleOp(call[c].op),
                                     day |-> call[c].day]}
    /\ call' = [call EXCEPT ![c] = NoCall]
    /\ UNCHANGED <<today, roles, jsonl, policy, filed, calls, changes, horizon, blurred, faults>>

-----------------------------------------------------------------------------
(* Faults and time.                                                        *)

Lost(cs) == {Assignment(call[c].op) : c \in {d \in cs : call[d].pc = "record" /\ IsRoleOp(call[d].op)}}

\* The write of a line or a row fails: what was changed stays, and the call fails.
RecordFails(c) ==
    /\ call[c].pc = "record" /\ faults < MaxFaults
    /\ faults' = faults + 1
    /\ blurred' = blurred \union Lost({c})
    /\ call' = [call EXCEPT ![c] = NoCall]
    /\ UNCHANGED <<today, roles, jsonl, policy, filed, calls, answered, changes, horizon>>

\* A process dies; the policy starts from the defaults again.
Die(cs) ==
    /\ faults < MaxFaults
    /\ faults' = faults + 1
    /\ blurred' = blurred \union Lost(cs)
    /\ call' = [c \in Consoles |-> IF c \in cs THEN NoCall ELSE call[c]]
    /\ policy' = IF cs = Listeners THEN DefaultPolicy ELSE policy
    /\ UNCHANGED <<today, roles, jsonl, filed, calls, answered, changes, horizon>>

DayPasses ==
    /\ today < LastDay
    /\ today' = today + 1
    /\ UNCHANGED <<roles, jsonl, policy, filed, call, calls, answered, changes, horizon, blurred,
                   faults>>

AdminNext ==
    \/ \E c \in Consoles :
          \/ \E op \in RoleOps \union ConsoleOps : Call(c, op)
          \/ ChangeRole(c) \/ PutPolicy(c) \/ DecideExport(c) \/ Purge(c) \/ StartRead(c)
          \/ Record(c) \/ Answer(c) \/ RecordFails(c)
    \/ Die(Listeners) \/ \E s \in Shells : Die({s})
    \/ DayPasses

AdminSpec == AdminInit /\ [][AdminNext]_adminVars
-----------------------------------------------------------------------------
AdminTypeOK ==
    /\ today \in 0..LastDay /\ calls \in 0..MaxCalls /\ faults \in 0..MaxFaults
    /\ roles \subseteq Targets \X RoleNames
    /\ \A k \in DOMAIN jsonl : jsonl[k].of \in Targets \X RoleNames
    /\ policy \subseteq Requests
    /\ filed \subseteq [id: 1..calls, ok: BOOLEAN, day: 0..today]
    /\ \A c \in Consoles : call[c].pc \in {"idle", "act", "record", "answer"}
    /\ {a.id : a \in answered} \union changes \subseteq 1..calls

\* What was answered is on record, whoever dies afterwards, until its day is purged:
\* no purge takes its own row, or one of a day that it should keep.
\* (The order of change, record and answer in manage_role and the routes of the console.)
AnsweredIsRecorded ==
    \A a \in answered :
       IF a.role THEN \E k \in DOMAIN jsonl : jsonl[k].id = a.id
       ELSE a.day < horizon \/ \E row \in filed : row.id = a.id

\* A fault leaves at most one change without its record for each call that it ends.
UnrecordedIsFaulty ==
    LET kept == {jsonl[k].id : k \in DOMAIN jsonl} \union {row.id : row \in filed}
        open == {call[c].id : c \in {d \in Consoles : call[d].pc = "record"}}
        purged == {a.id : a \in {b \in answered : ~b.role /\ b.day < horizon}}
        current == {call[c].id : c \in {d \in Consoles : call[d].pc = "answer"}}
    IN  Cardinality(changes \ (kept \union open \union purged \union current))
           <= faults * Cardinality(Listeners)

\* The last line about an assignment says whether it holds, unless two calls changed it
\* at the same time, which may write their lines the other way round, or a line is lost.
LinesTellRoles ==
    \A a \in (Targets \X RoleNames) \ blurred :
       LET about == {k \in DOMAIN jsonl : jsonl[k].of = a}
           last == CHOOSE k \in about : \A j \in about : j <= k
       IN  (\A c \in Consoles : ~Changing(c, a)) =>
              (a \in roles <=> about # {} /\ jsonl[last].action = "role_assigned")

AdministrationSound == AnsweredIsRecorded /\ UnrecordedIsFaulty /\ LinesTellRoles
=============================================================================
