----------------------------- MODULE Setup_proofs -----------------------------
(***************************************************************************)
(* Proofs about what sets the system up: the administration of projects    *)
(* and the emergency stop, and the installer beside the wizard.  For each  *)
(* an inductive invariant, and from it the properties of its module; then  *)
(* the same beside the other services (MCServices).                        *)
(***************************************************************************)
EXTENDS MCServices, FiniteSetTheorems, SequenceTheorems,
        WellFoundedInduction, NaturalsInduction, TLAPS

-----------------------------------------------------------------------------
(* Least elements                                                          *)

LEMMA LeastNatural ==
    ASSUME NEW S \in SUBSET Nat, S # {}
    PROVE  \E x \in S : \A y \in S : x <= y
<1>1. PICK x \in S : \A y \in S : ~(<<y, x>> \in OpToRel(<, Nat))
  BY NatLessThanWellFounded, WFMin
<1>2. \A y \in S : ~(y < x) BY <1>1 DEF OpToRel
<1>3. QED BY <1>2

LEMMA MinOfNaturals ==
    ASSUME NEW S \in SUBSET Nat, S # {}
    PROVE  Min(S) \in S /\ \A y \in S : Min(S) <= y
BY LeastNatural DEF Min

LEMMA MaxOfBounded ==
    ASSUME NEW m \in Nat, NEW S \in SUBSET (0..m), S # {}
    PROVE  Max(S) \in S /\ \A y \in S : Max(S) >= y
<1> DEFINE mirrored == {m - x : x \in S}
<1>1. \A x \in S : x \in Nat /\ x <= m /\ m - x \in Nat OBVIOUS
<1>2a. \A z \in mirrored : z \in Nat BY <1>1
<1>2b. mirrored \subseteq Nat /\ mirrored # {} BY <1>2a
<1>2. PICK z \in mirrored : \A y \in mirrored : z <= y BY <1>2b, LeastNatural
<1>3. PICK x \in S : z = m - x BY <1>2
<1>4. \A y \in S : x >= y BY <1>1, <1>2, <1>3
<1>5. QED BY <1>4 DEF Max

-----------------------------------------------------------------------------
(* Administration                                                          *)

Ops == RoleOps \union ConsoleOps
CallStates ==
    {NoCall}
    \union [pc : {"act", "record"}, id : 1..calls, op : Ops, ok : BOOLEAN]
    \union [pc : {"answer"}, id : 1..calls, op : Ops, ok : BOOLEAN, day : 0..today]
LineRecords ==
    [id : Nat, of : Targets \X RoleNames, action : {"role_assigned", "role_revoked"},
     result : {"ok", "not_found"}]

AdminTyped ==
    /\ today \in 0..LastDay /\ calls \in 0..MaxCalls /\ faults \in 0..MaxFaults
    /\ roles \subseteq Targets \X RoleNames
    /\ jsonl \in Seq(LineRecords)
    /\ policy \subseteq Requests
    /\ filed \subseteq [id : 1..calls, ok : BOOLEAN, day : 0..today]
    /\ call \in [Consoles -> CallStates]
    /\ answered \subseteq [id : 1..calls, role : BOOLEAN, day : 0..today]
    /\ changes \subseteq 1..calls
    /\ horizon \in Int

\* A call has an identity of its own, and has changed nothing before it acts.
CallsApart ==
    \A c \in Consoles :
       call[c] # NoCall =>
          /\ \A d \in Consoles : d # c /\ call[d] # NoCall => call[d].id # call[c].id
          /\ call[c].pc = "act" => call[c].id \notin changes

\* What a call is about to answer, or has answered, is on record or its day was purged.
OnRecord(id, isRole, day) ==
    IF isRole THEN \E k \in DOMAIN jsonl : jsonl[k].id = id
    ELSE day < horizon \/ \E row \in filed : row.id = id /\ row.day = day
RecordsHold ==
    /\ \A a \in answered : OnRecord(a.id, a.role, a.day)
    /\ \A c \in Consoles :
          call[c].pc = "answer" => OnRecord(call[c].id, IsRoleOp(call[c].op), call[c].day)

\* The calls that a fault has ended: neither under way nor answered.
Ended ==
    (1..calls) \ ({call[c].id : c \in {d \in Consoles : call[d] # NoCall}}
                     \union {a.id : a \in answered})
FaultsEnd == Cardinality(Ended) <= faults * Cardinality(Listeners)

\* The last line about an assignment says that it holds.
LineSays(a) ==
    \E k \in DOMAIN jsonl :
       /\ jsonl[k].of = a /\ jsonl[k].action = "role_assigned"
       /\ \A j \in DOMAIN jsonl : jsonl[j].of = a => j <= k
RolesOnLines ==
    \A a \in (Targets \X RoleNames) \ blurred :
       /\ \A c, d \in Consoles : Changing(c, a) /\ Changing(d, a) => c = d
       /\ \A c \in Consoles : Changing(c, a) => (a \in roles <=> call[c].op.kind = "assign")
       /\ (\A c \in Consoles : ~Changing(c, a)) => (a \in roles <=> LineSays(a))

AdminIInv == AdminTyped /\ CallsApart /\ RecordsHold /\ FaultsEnd /\ RolesOnLines

LEMMA OpTyped ==
    ASSUME NEW op \in Ops
    PROVE  /\ op.kind \in {"assign", "revoke", "policy", "export", "purge", "read"}
           /\ IsRoleOp(op) => op \in RoleOps /\ Assignment(op) \in Targets \X RoleNames
           /\ op.kind = "policy" => op.policy \in Policies
           /\ op.kind = "purge" => op.days \in Days
BY DEF Ops, RoleOps, ConsoleOps, IsRoleOp, Assignment

LEMMA CallTyped ==
    ASSUME AdminTyped, NEW c \in Consoles
    PROVE  /\ call[c].pc \in {"idle", "act", "record", "answer"}
           /\ call[c] = NoCall <=> call[c].pc = "idle"
           /\ call[c] # NoCall =>
                 call[c].id \in 1..calls /\ call[c].op \in Ops /\ call[c].ok \in BOOLEAN
           /\ call[c].pc \in {"act", "record"} =>
                 call[c] \in [pc : {"act", "record"}, id : 1..calls, op : Ops, ok : BOOLEAN]
           /\ call[c].pc = "answer" => call[c].day \in 0..today
<1>1. call[c] \in CallStates BY DEF AdminTyped
<1>2. QED BY <1>1 DEF CallStates, NoCall

\* Typing
LEMMA AdminTypes == AdminIInv => AdminTypeOK
<1> SUFFICES ASSUME AdminIInv PROVE AdminTypeOK OBVIOUS
<1>1. AdminTyped BY DEF AdminIInv
<1>2. \A k \in DOMAIN jsonl : jsonl[k].of \in Targets \X RoleNames
  <2>1. \A k \in DOMAIN jsonl : jsonl[k] \in LineRecords
    BY <1>1, ElementOfSeq DEF AdminTyped
  <2>2. QED BY <2>1 DEF LineRecords
<1>3. \A c \in Consoles : call[c].pc \in {"idle", "act", "record", "answer"} BY <1>1, CallTyped
<1>4. {a.id : a \in answered} \union changes \subseteq 1..calls BY <1>1 DEF AdminTyped
<1>5. QED BY <1>1, <1>2, <1>3, <1>4 DEF AdminTyped, AdminTypeOK

LEMMA AdminImplied == AdminIInv => AdministrationSound
<1> SUFFICES ASSUME AdminIInv PROVE AdministrationSound OBVIOUS
<1>1. AdminTyped BY DEF AdminIInv
<1>2. AnsweredIsRecorded
  BY DEF AdminIInv, RecordsHold, OnRecord, AnsweredIsRecorded
<1>3. UnrecordedIsFaulty
  <2> DEFINE kept == {jsonl[k].id : k \in DOMAIN jsonl} \union {row.id : row \in filed}
             open == {call[c].id : c \in {d \in Consoles : call[d].pc = "record"}}
             purged == {a.id : a \in {b \in answered : ~b.role /\ b.day < horizon}}
             current == {call[c].id : c \in {d \in Consoles : call[d].pc = "answer"}}
             lost == changes \ (kept \union open \union purged \union current)
  <2>1. lost \subseteq Ended
    <3> SUFFICES ASSUME NEW id \in lost PROVE id \in Ended OBVIOUS
    <3>1. id \in 1..calls BY <1>1 DEF AdminTyped
    <3>2. ASSUME NEW c \in Consoles, call[c] # NoCall, call[c].id = id PROVE FALSE
      <4>1. call[c].pc \in {"act", "record", "answer"} BY <1>1, <3>2, CallTyped
      <4>2. call[c].pc # "act" BY <3>2 DEF AdminIInv, CallsApart
      <4>3. QED BY <4>1, <4>2, <3>2
    <3>3. ASSUME NEW a \in answered, a.id = id PROVE FALSE
      <4>1. OnRecord(a.id, a.role, a.day) BY DEF AdminIInv, RecordsHold
      <4>2. CASE a.role
        <5>1. id \in kept BY <4>1, <4>2, <3>3 DEF OnRecord
        <5>2. QED BY <5>1
      <4>3. CASE ~a.role /\ a.day < horizon
        <5>1. id \in purged BY <4>3, <3>3
        <5>2. QED BY <5>1
      <4>4. CASE ~a.role /\ ~(a.day < horizon)
        <5>1. id \in kept BY <4>1, <4>4, <3>3 DEF OnRecord
        <5>2. QED BY <5>1
      <4>5. QED BY <4>2, <4>3, <4>4
    <3>4. QED BY <3>1, <3>2, <3>3 DEF Ended
  <2>2. calls \in Nat /\ faults \in Nat BY <1>1, AdministrationBounds DEF AdminTyped
  <2>3. IsFiniteSet(1..calls) BY <2>2, FS_Interval
  <2>4. IsFiniteSet(Ended) BY <2>3, FS_Subset DEF Ended
  <2>5. IsFiniteSet(lost) /\ Cardinality(lost) <= Cardinality(Ended) BY <2>1, <2>4, FS_Subset
  <2>6. Cardinality(lost) \in Nat /\ Cardinality(Ended) \in Nat BY <2>4, <2>5, FS_CardinalityType
  <2>7. Cardinality(Listeners) \in Nat BY SomeoneListens, FS_CardinalityType
  <2>8. faults * Cardinality(Listeners) \in Nat BY <2>2, <2>7
  <2>9. Cardinality(Ended) <= faults * Cardinality(Listeners) BY DEF AdminIInv, FaultsEnd
  <2>10. Cardinality(lost) <= faults * Cardinality(Listeners) BY <2>5, <2>6, <2>8, <2>9
  <2>11. QED BY <2>10 DEF UnrecordedIsFaulty
<1>4. LinesTellRoles
  <2> SUFFICES ASSUME NEW a \in (Targets \X RoleNames) \ blurred,
                      \A c \in Consoles : ~Changing(c, a)
               PROVE  LET about == {k \in DOMAIN jsonl : jsonl[k].of = a}
                          last == CHOOSE k \in about : \A j \in about : j <= k
                      IN  a \in roles <=> about # {} /\ jsonl[last].action = "role_assigned"
    BY DEF LinesTellRoles
  <2> DEFINE about == {k \in DOMAIN jsonl : jsonl[k].of = a}
             last == CHOOSE k \in about : \A j \in about : j <= k
  <2>1. a \in roles <=> LineSays(a) BY DEF AdminIInv, RolesOnLines
  <2>2. Len(jsonl) \in Nat /\ DOMAIN jsonl = 1..Len(jsonl) BY <1>1, LenProperties DEF AdminTyped
  <2>3. CASE about = {}
    <3>1. ~LineSays(a) BY <2>3 DEF LineSays
    <3>2. QED BY <3>1, <2>1, <2>3
  <2>4. CASE about # {}
    <3>1. about \in SUBSET (0..Len(jsonl)) BY <2>2
    <3>2. \E k \in about : \A j \in about : k >= j BY <2>4, <3>1, <2>2, MaxOfBounded
    <3>3. \A k \in about : k \in Nat BY <3>1
    <3>4. \E k \in about : \A j \in about : j <= k BY <3>2, <3>3
    <3>5. last \in about /\ \A j \in about : j <= last BY <3>4
    <3> HIDE DEF last
    <3>6. \A k \in about : (\A j \in about : j <= k) => k = last BY <3>3, <3>5
    <3>7. LineSays(a) <=> jsonl[last].action = "role_assigned" BY <3>5, <3>6 DEF LineSays
    <3>8. QED BY <3>7, <2>1, <2>4 DEF last
  <2>5. QED BY <2>3, <2>4
<1>5. QED BY <1>2, <1>3, <1>4 DEF AdministrationSound

\* The call of c goes on in the same identity, or ends.
CallGoesOn(c) ==
    /\ call[c] # NoCall
    /\ \A d \in Consoles : d # c => call'[d] = call[d]
    /\ call'[c] # NoCall => call'[c].id = call[c].id /\ call'[c].pc # "act"
    /\ changes' \subseteq changes \union {call[c].id}

LEMMA ApartOn ==
    ASSUME CallsApart, NEW c \in Consoles, CallGoesOn(c)
    PROVE  CallsApart'
<1> SUFFICES ASSUME NEW d \in Consoles, call'[d] # NoCall
             PROVE  /\ \A e \in Consoles :
                          e # d /\ call'[e] # NoCall => call'[e].id # call'[d].id
                    /\ call'[d].pc = "act" => call'[d].id \notin changes'
  BY DEF CallsApart, NoCall
<1>1. \A e \in Consoles : call'[e] # NoCall =>
         /\ call[e] # NoCall /\ call'[e].id = call[e].id
         /\ call'[e].pc = "act" => e # c /\ call[e].pc = "act"
  BY DEF CallGoesOn
<1>2. \A e \in Consoles : e # d /\ call'[e] # NoCall => call'[e].id # call'[d].id
  BY <1>1 DEF CallsApart
<1>3. ASSUME call'[d].pc = "act" PROVE call'[d].id \notin changes'
  <2>1. d # c /\ call[d].pc = "act" /\ call[d] # NoCall /\ call'[d].id = call[d].id
    BY <1>1, <1>3
  <2>2. call[d].id # call[c].id /\ call[d].id \notin changes
    BY <2>1 DEF CallsApart, CallGoesOn
  <2>3. QED BY <2>1, <2>2 DEF CallGoesOn
<1>4. QED BY <1>2, <1>3

LEMMA NoneEnds ==
    ASSUME AdminTyped, AdminTyped', FaultsEnd, faults' = faults, Ended' \subseteq Ended
    PROVE  FaultsEnd'
<1>1. calls \in Nat /\ calls' \in Nat /\ faults \in Nat
  BY AdministrationBounds DEF AdminTyped
<1>2. IsFiniteSet(Ended)
  <2>1. IsFiniteSet(1..calls) BY <1>1, FS_Interval
  <2>2. QED BY <2>1, FS_Subset DEF Ended
<1>3. IsFiniteSet(Ended') /\ Cardinality(Ended') <= Cardinality(Ended) BY <1>2, FS_Subset
<1>4. Cardinality(Ended) \in Nat /\ Cardinality(Ended') \in Nat /\ Cardinality(Listeners) \in Nat
  BY <1>2, <1>3, SomeoneListens, FS_CardinalityType
<1>5. faults * Cardinality(Listeners) \in Nat BY <1>1, <1>4
<1>6. Cardinality(Ended) <= faults * Cardinality(Listeners) BY DEF FaultsEnd
<1>7. Cardinality(Ended') <= faults * Cardinality(Listeners) BY <1>3, <1>4, <1>5, <1>6
<1>8. QED BY <1>7 DEF FaultsEnd

\* A fault that ends the calls of some consoles, at most as many as there are listeners.
LEMMA SomeEnd ==
    ASSUME AdminTyped, AdminTyped', FaultsEnd, faults' = faults + 1,
           NEW cs \in SUBSET Consoles, IsFiniteSet(cs),
           Cardinality(cs) <= Cardinality(Listeners),
           Ended' \subseteq Ended \union {call[c].id : c \in cs}
    PROVE  FaultsEnd'
<1> DEFINE ids == {call[c].id : c \in cs}
<1>1. calls \in Nat /\ calls' \in Nat /\ faults \in Nat
  BY AdministrationBounds DEF AdminTyped
<1>2. IsFiniteSet(Ended)
  <2>1. IsFiniteSet(1..calls) BY <1>1, FS_Interval
  <2>2. QED BY <2>1, FS_Subset DEF Ended
<1>3. IsFiniteSet(ids) /\ Cardinality(ids) <= Cardinality(cs)
  <2>1. [c \in cs |-> call[c].id] \in Surjection(cs, ids) BY DEF Surjection
  <2>2. QED BY <2>1, FS_Surjection
<1>4. /\ IsFiniteSet(Ended \union ids)
      /\ Cardinality(Ended \union ids) =
            Cardinality(Ended) + Cardinality(ids) - Cardinality(Ended \intersect ids)
  BY <1>2, <1>3, FS_Union
<1>5. IsFiniteSet(Ended \intersect ids) BY <1>2, FS_Subset
<1>6. IsFiniteSet(Ended') /\ Cardinality(Ended') <= Cardinality(Ended \union ids)
  BY <1>4, FS_Subset
<1>7. /\ Cardinality(Ended) \in Nat /\ Cardinality(Ended') \in Nat
      /\ Cardinality(ids) \in Nat /\ Cardinality(Ended \union ids) \in Nat
      /\ Cardinality(Ended \intersect ids) \in Nat /\ Cardinality(Listeners) \in Nat
      /\ Cardinality(cs) \in Nat
  BY <1>2, <1>3, <1>4, <1>5, <1>6, SomeoneListens, FS_CardinalityType
<1> DEFINE n == Cardinality(Listeners)
           before == Cardinality(Ended)
           after == Cardinality(Ended')
<1>8. before <= faults * n BY DEF FaultsEnd
<1>9. after <= before + n BY <1>3, <1>4, <1>6, <1>7
<1>10. faults * n \in Nat /\ (faults + 1) * n = faults * n + n BY <1>1, <1>7
<1>11. after <= (faults + 1) * n BY <1>7, <1>8, <1>9, <1>10
<1>12. QED BY <1>11 DEF FaultsEnd

LEMMA RecordsStay ==
    ASSUME RecordsHold, UNCHANGED <<jsonl, filed, horizon, answered>>,
           \A c \in Consoles : call'[c].pc = "answer" =>
              /\ call[c].pc = "answer" /\ call'[c].id = call[c].id
              /\ call'[c].op = call[c].op /\ call'[c].day = call[c].day
    PROVE  RecordsHold'
<1>1. \A id, isRole, day : OnRecord(id, isRole, day) <=> OnRecord(id, isRole, day)'
  BY DEF OnRecord
<1>2. ASSUME NEW a \in answered' PROVE OnRecord(a.id, a.role, a.day)'
  BY <1>1, <1>2 DEF RecordsHold
<1>3. ASSUME NEW c \in Consoles, call'[c].pc = "answer"
      PROVE  OnRecord(call[c].id, IsRoleOp(call[c].op), call[c].day)'
  <2>1. OnRecord(call[c].id, IsRoleOp(call[c].op), call[c].day) BY <1>3 DEF RecordsHold
  <2>2. /\ call'[c].id = call[c].id /\ call'[c].op = call[c].op /\ call'[c].day = call[c].day
    BY <1>3
  <2>3. QED BY <1>1, <2>1, <2>2 DEF OnRecord
<1>4. QED BY <1>2, <1>3 DEF RecordsHold

\* What is between its change and its line stays so.
LEMMA RolesStay ==
    ASSUME RolesOnLines, UNCHANGED <<roles, jsonl, blurred>>,
           \A c \in Consoles : \A a : Changing(c, a)' <=> Changing(c, a),
           \A c \in Consoles : \A a : Changing(c, a) => call'[c].op = call[c].op
    PROVE  RolesOnLines'
<1>1. \A a : LineSays(a)' <=> LineSays(a) BY DEF LineSays
<1>2. SUFFICES ASSUME NEW a \in (Targets \X RoleNames) \ blurred'
      PROVE  /\ \A c, d \in Consoles : Changing(c, a)' /\ Changing(d, a)' => c = d
             /\ \A c \in Consoles :
                   Changing(c, a)' => (a \in roles' <=> call'[c].op.kind = "assign")
             /\ (\A c \in Consoles : ~Changing(c, a)') => (a \in roles' <=> LineSays(a)')
  BY DEF RolesOnLines
<1>3. a \in (Targets \X RoleNames) \ blurred BY <1>2
<1>4. QED BY <1>1, <1>3 DEF RolesOnLines

LEMMA AdminTypedCall ==
    ASSUME AdminTyped, NEW c \in Consoles, NEW op \in Ops, Call(c, op) PROVE AdminTyped'
<1>1. calls \in Nat /\ calls' \in 0..MaxCalls /\ calls' = calls + 1 /\ 1..calls \subseteq 1..calls'
  BY AdministrationBounds DEF AdminTyped, Call
<1>2. CallStates \subseteq CallStates' BY <1>1 DEF CallStates, Call
<1>3. [pc |-> "act", id |-> calls + 1, op |-> op, ok |-> TRUE] \in CallStates'
  BY <1>1 DEF CallStates
<1>4. call' \in [Consoles -> CallStates'] BY <1>2, <1>3 DEF AdminTyped, Call
<1>5. /\ filed' \subseteq [id : 1..calls', ok : BOOLEAN, day : 0..today']
      /\ answered' \subseteq [id : 1..calls', role : BOOLEAN, day : 0..today']
      /\ changes' \subseteq 1..calls'
  BY <1>1 DEF AdminTyped, Call
<1>6. QED BY <1>1, <1>4, <1>5 DEF AdminTyped, Call

\* The states of calls do not depend on more than their number and the day.
LEMMA SameStates ==
    ASSUME UNCHANGED <<calls, today>> PROVE CallStates' = CallStates
BY DEF CallStates

LEMMA CallKeeps ==
    ASSUME AdminIInv, NEW c \in Consoles, NEW op \in Ops, Call(c, op) PROVE AdminIInv'
<1>1. AdminTyped BY DEF AdminIInv
<1>2. AdminTyped' BY <1>1, AdminTypedCall
<1>3. /\ calls \in Nat /\ changes \subseteq 1..calls
      /\ call' = [call EXCEPT ![c] =
                     [pc |-> "act", id |-> calls + 1, op |-> op, ok |-> TRUE]]
      /\ call \in [Consoles -> CallStates] /\ call[c] = NoCall
  BY <1>1, AdministrationBounds DEF AdminTyped, Call
<1>4. \A d \in Consoles : d # c => call'[d] = call[d] BY <1>3
<1>5. call'[c] = [pc |-> "act", id |-> calls + 1, op |-> op, ok |-> TRUE] BY <1>3
<1>5a. call'[c].pc = "act" /\ call'[c].id = calls + 1 BY <1>5
<1>6. \A d \in Consoles : call[d] # NoCall => d # c /\ call[d].id \in 1..calls
  BY <1>1, <1>3, CallTyped
<1>7. CallsApart'
  <2> SUFFICES ASSUME NEW d \in Consoles, call'[d] # NoCall
               PROVE  /\ \A e \in Consoles :
                            e # d /\ call'[e] # NoCall => call'[e].id # call'[d].id
                      /\ call'[d].pc = "act" => call'[d].id \notin changes'
    BY DEF CallsApart, NoCall
  <2>1. CASE d = c
    <3>1. \A e \in Consoles : e # d /\ call'[e] # NoCall => call'[e].id \in 1..calls
      BY <1>4, <1>6, <2>1
    <3>2. \A n \in 1..calls : n # calls + 1 BY <1>3
    <3>3. changes' = changes BY DEF Call
    <3>4. QED BY <1>3, <1>5a, <2>1, <3>1, <3>2, <3>3
  <2>2. CASE d # c
    <3>1. call'[d] = call[d] /\ call[d].id \in 1..calls BY <1>4, <1>6, <2>2
    <3>2. \A n \in 1..calls : n # calls + 1 BY <1>3
    <3>3. changes' = changes BY DEF Call
    <3>4. \A e \in Consoles : e # d /\ call'[e] # NoCall => call'[e].id # call'[d].id
      BY <1>4, <1>5a, <3>1, <3>2 DEF AdminIInv, CallsApart
    <3>5. QED BY <3>1, <3>3, <3>4 DEF AdminIInv, CallsApart
  <2>3. QED BY <2>1, <2>2
<1>8. Ended' \subseteq Ended
  <2>1. calls' = calls + 1 /\ answered' = answered BY DEF Call
  <2>2. 1..calls' = (1..calls) \union {calls + 1} BY <1>3, <2>1
  <2>3. call'[c] # NoCall BY <1>5a DEF NoCall
  <2> SUFFICES ASSUME NEW id \in Ended' PROVE id \in Ended OBVIOUS
  <2>4. id \in 1..calls' /\ \A d \in Consoles : call'[d] # NoCall => call'[d].id # id
    BY DEF Ended
  <2>5. id \in 1..calls BY <2>2, <2>3, <2>4, <1>5a
  <2>6. \A d \in Consoles : call[d] # NoCall => call[d].id # id BY <1>4, <1>6, <2>4
  <2>7. \A a \in answered : a.id # id BY <2>1 DEF Ended
  <2>8. QED BY <2>5, <2>6, <2>7 DEF Ended
<1>9. FaultsEnd' BY <1>1, <1>2, <1>8, NoneEnds DEF AdminIInv, Call
<1>10. RecordsHold'
  <2>1. \A d \in Consoles : call'[d].pc = "answer" => d # c /\ call'[d] = call[d]
    BY <1>4, <1>5a
  <2>2. QED BY <2>1, RecordsStay DEF AdminIInv, Call
<1>11. RolesOnLines'
  <2>1. call[c].pc # "record" /\ call'[c].pc # "record" BY <1>3, <1>5a DEF NoCall
  <2>2. \A d \in Consoles : \A a : Changing(d, a)' <=> Changing(d, a)
    BY <1>4, <2>1 DEF Changing
  <2>3. \A d \in Consoles : \A a : Changing(d, a) => call'[d].op = call[d].op
    BY <1>4, <2>1 DEF Changing
  <2>4. QED BY <2>2, <2>3, RolesStay DEF AdminIInv, Call
<1>12. QED BY <1>2, <1>7, <1>9, <1>10, <1>11 DEF AdminIInv

\* A call goes on to its next stage; c has it before and after.
LEMMA EndedOn ==
    ASSUME NEW c \in Consoles, CallGoesOn(c), call'[c] # NoCall, UNCHANGED <<calls, answered>>
    PROVE  Ended' \subseteq Ended
<1> SUFFICES ASSUME NEW id \in Ended' PROVE id \in Ended OBVIOUS
<1>1. id \in 1..calls /\ \A a \in answered : a.id # id BY DEF Ended
<1>2. \A d \in Consoles : call'[d] # NoCall => call'[d].id # id BY DEF Ended
<1>3. \A d \in Consoles : call[d] # NoCall => call'[d] # NoCall /\ call'[d].id = call[d].id
  BY DEF CallGoesOn
<1>4. QED BY <1>1, <1>2, <1>3 DEF Ended

\* The change of a role, a policy or rows: from act to record.
Acted(c, ok) ==
    /\ call[c].pc = "act"
    /\ call' = [call EXCEPT ![c].pc = "record", ![c].ok = ok]

LEMMA ActedTo ==
    ASSUME AdminTyped, NEW c \in Consoles, NEW ok \in BOOLEAN, Acted(c, ok),
           changes' \subseteq changes \union {call[c].id}, UNCHANGED <<calls, today>>
    PROVE  /\ CallGoesOn(c) /\ call'[c] # NoCall
           /\ call' \in [Consoles -> CallStates']
           /\ call'[c] = [call[c] EXCEPT !.pc = "record", !.ok = ok]
           /\ call'[c].pc = "record" /\ call'[c].id = call[c].id /\ call'[c].op = call[c].op
           /\ call[c].id \in 1..calls /\ call[c].op \in Ops /\ changes' \subseteq 1..calls
<1>1. call \in [Consoles -> CallStates] /\ CallStates' = CallStates BY SameStates DEF AdminTyped
<1>2. call[c] \in [pc : {"act", "record"}, id : 1..calls, op : Ops, ok : BOOLEAN]
  BY CallTyped DEF Acted
<1>3. call'[c] = [call[c] EXCEPT !.pc = "record", !.ok = ok] BY <1>1 DEF Acted
<1>4. call'[c] \in [pc : {"act", "record"}, id : 1..calls, op : Ops, ok : BOOLEAN]
  BY <1>2, <1>3
<1>5. /\ call'[c].pc = "record" /\ call'[c].id = call[c].id /\ call'[c].op = call[c].op
  BY <1>2, <1>3
<1>6. \A d \in Consoles : d # c => call'[d] = call[d] BY <1>1 DEF Acted
<1>7. call'[c] # NoCall /\ call[c] # NoCall
  <2>1. NoCall.pc = "idle" BY DEF NoCall
  <2>2. call[c].pc = "act" BY DEF Acted
  <2>3. QED BY <1>5, <2>1, <2>2
<1>8. CallGoesOn(c) BY <1>5, <1>6, <1>7 DEF CallGoesOn
<1>9. call' \in [Consoles -> CallStates]
  <2>1. call'[c] \in CallStates BY <1>4 DEF CallStates
  <2>2. QED BY <1>1, <1>3, <2>1 DEF Acted
<1>10. changes' \subseteq 1..calls BY <1>2 DEF AdminTyped
<1>11. QED BY <1>1, <1>2, <1>3, <1>5, <1>7, <1>8, <1>9, <1>10

LEMMA ActedKeeps ==
    ASSUME AdminIInv, NEW c \in Consoles, NEW ok \in BOOLEAN, Acted(c, ok),
           changes' \subseteq changes \union {call[c].id},
           UNCHANGED <<calls, today, answered, faults>>, AdminTyped'
    PROVE  CallsApart' /\ FaultsEnd'
<1>1. CallGoesOn(c) /\ call'[c] # NoCall BY ActedTo DEF AdminIInv
<1>2. Ended' \subseteq Ended BY <1>1, EndedOn
<1>3. QED BY <1>1, <1>2, ApartOn, NoneEnds DEF AdminIInv

\* What acts on no role and files nothing.
LEMMA RolesApart ==
    ASSUME AdminIInv, NEW c \in Consoles, NEW ok \in BOOLEAN, Acted(c, ok),
           ~IsRoleOp(call[c].op), changes' \subseteq changes \union {call[c].id},
           UNCHANGED <<calls, today, jsonl, roles, blurred>>
    PROVE  RolesOnLines'
<1>1. CallGoesOn(c) /\ call'[c].pc = "record" /\ call'[c].op = call[c].op
  BY ActedTo DEF AdminIInv
<1>2. ~IsRoleOp(call'[c].op) BY <1>1
<1>3. \A d \in Consoles : \A a : Changing(d, a)' <=> Changing(d, a)
  BY <1>1, <1>2 DEF Changing, CallGoesOn
<1>4. \A d \in Consoles : \A a : Changing(d, a) => call'[d].op = call[d].op
  BY <1>1, <1>2 DEF Changing, CallGoesOn
<1>5. QED BY <1>3, <1>4, RolesStay DEF AdminIInv

LEMMA QuietKeeps ==
    ASSUME AdminIInv, NEW c \in Consoles, NEW ok \in BOOLEAN, Acted(c, ok),
           ~IsRoleOp(call[c].op), changes' \subseteq changes \union {call[c].id},
           UNCHANGED <<calls, today, answered, faults, jsonl, filed, horizon, roles, blurred>>,
           policy' \subseteq Requests
    PROVE  AdminIInv'
<1>1. AdminTyped BY DEF AdminIInv
<1>2. /\ call' \in [Consoles -> CallStates'] /\ changes' \subseteq 1..calls
      /\ CallGoesOn(c) /\ call'[c].pc = "record"
  BY <1>1, ActedTo
<1>3. AdminTyped' BY <1>1, <1>2 DEF AdminTyped
<1>4. CallsApart' /\ FaultsEnd' BY <1>3, ActedKeeps
<1>5. RecordsHold'
  <2>1. \A d \in Consoles : call'[d].pc = "answer" => d # c /\ call'[d] = call[d]
    BY <1>2 DEF CallGoesOn
  <2>2. QED BY <2>1, RecordsStay DEF AdminIInv
<1>6. QED BY <1>3, <1>4, <1>5, RolesApart DEF AdminIInv

LEMMA ActIs ==
    ASSUME AdminTyped, NEW c \in Consoles, call[c].pc = "act"
    PROVE  /\ call[c].ok \in BOOLEAN /\ call[c].op \in Ops
           /\ call' = [call EXCEPT ![c].pc = "record"] => Acted(c, call[c].ok)
<1>1. call[c] \in [pc : {"act", "record"}, id : 1..calls, op : Ops, ok : BOOLEAN]
  BY CallTyped
<1>2. call \in [Consoles -> CallStates] BY DEF AdminTyped
<1>3. [call[c] EXCEPT !.pc = "record", !.ok = call[c].ok] = [call[c] EXCEPT !.pc = "record"]
  BY <1>1
<1>4. [call EXCEPT ![c].pc = "record", ![c].ok = call[c].ok] = [call EXCEPT ![c].pc = "record"]
  BY <1>2, <1>3
<1>5. QED BY <1>1, <1>4 DEF Acted

LEMMA PutPolicyKeeps ==
    ASSUME AdminIInv, NEW c \in Consoles, PutPolicy(c) PROVE AdminIInv'
<1>1. call[c].pc = "act" /\ call[c].op.kind = "policy" BY DEF PutPolicy
<1>2. call[c].ok \in BOOLEAN /\ call[c].op \in Ops /\ Acted(c, call[c].ok)
  BY <1>1, ActIs DEF AdminIInv, PutPolicy
<1>3. changes' \subseteq changes \union {call[c].id} BY DEF PutPolicy
<1>4. policy' \subseteq Requests
  BY <1>1, <1>2, OpTyped, AdministrationBounds DEF PutPolicy
<1>5. ~IsRoleOp(call[c].op) BY <1>1 DEF IsRoleOp
<1>6. QED BY <1>2, <1>3, <1>4, <1>5, QuietKeeps DEF PutPolicy

LEMMA DecideExportKeeps ==
    ASSUME AdminIInv, NEW c \in Consoles, DecideExport(c) PROVE AdminIInv'
<1> DEFINE ok == call[c].op.request \in policy
<1>1. ok \in BOOLEAN OBVIOUS
<1>2. Acted(c, ok) BY DEF DecideExport, Acted
<1>3. ~IsRoleOp(call[c].op) BY DEF DecideExport, IsRoleOp
<1>4. policy' \subseteq Requests BY DEF DecideExport, AdminIInv, AdminTyped
<1>5. UNCHANGED <<calls, today, answered, faults, jsonl, filed, horizon, roles, blurred, changes>>
  BY DEF DecideExport
<1> HIDE DEF ok
<1>6. QED BY <1>1, <1>2, <1>3, <1>4, <1>5, QuietKeeps

LEMMA StartReadKeeps ==
    ASSUME AdminIInv, NEW c \in Consoles, StartRead(c) PROVE AdminIInv'
<1>1. call[c].pc = "act" BY DEF StartRead
<1>2. call[c].ok \in BOOLEAN /\ Acted(c, call[c].ok) BY <1>1, ActIs DEF AdminIInv, StartRead
<1>3. ~IsRoleOp(call[c].op) BY DEF StartRead, IsRoleOp
<1>4. policy' \subseteq Requests BY DEF StartRead, AdminIInv, AdminTyped
<1>5. QED BY <1>2, <1>3, <1>4, QuietKeeps DEF StartRead

LEMMA PurgeKeeps ==
    ASSUME AdminIInv, NEW c \in Consoles, Purge(c) PROVE AdminIInv'
<1> DEFINE edge == today - call[c].op.days
<1>1. AdminTyped BY DEF AdminIInv
<1>2. call[c].pc = "act" /\ call[c].op.kind = "purge" BY DEF Purge
<1>3. call[c].ok \in BOOLEAN /\ call[c].op \in Ops /\ Acted(c, call[c].ok)
  BY <1>1, <1>2, ActIs DEF Purge
<1>4. UNCHANGED <<calls, today, answered, faults, jsonl, roles, blurred, changes, policy>>
  BY DEF Purge
<1>5. /\ call' \in [Consoles -> CallStates'] /\ CallGoesOn(c) /\ call'[c].pc = "record"
  BY <1>1, <1>3, <1>4, ActedTo
<1>6. edge \in Int /\ horizon \in Int
  <2>1. call[c].op.days \in Nat BY <1>2, <1>3, OpTyped, AdministrationBounds
  <2>2. today \in Nat BY <1>1, AdministrationBounds DEF AdminTyped
  <2>3. QED BY <1>1, <2>1, <2>2 DEF AdminTyped
<1>7. horizon' \in Int /\ horizon' >= edge /\ horizon' >= horizon BY <1>6 DEF Purge
<1>8. filed' = {row \in filed : ~(row.day < edge)} BY DEF Purge, Past
<1>9. AdminTyped' BY <1>1, <1>4, <1>5, <1>7, <1>8 DEF AdminTyped
<1>10. CallsApart' /\ FaultsEnd' BY <1>3, <1>4, <1>9, ActedKeeps
<1>11. RolesOnLines'
  <2>1. ~IsRoleOp(call[c].op) BY <1>2 DEF IsRoleOp
  <2>2. QED BY <1>3, <1>4, <2>1, RolesApart
<1>12. ASSUME NEW id, NEW isRole, NEW day \in Int, OnRecord(id, isRole, day)
       PROVE  OnRecord(id, isRole, day)'
  <2>1. CASE isRole BY <1>12, <2>1, <1>4 DEF OnRecord
  <2>2. CASE ~isRole /\ day < horizon BY <2>2, <1>6, <1>7, <1>12 DEF OnRecord
  <2>3. CASE ~isRole /\ ~(day < horizon)
    <3>1. PICK row \in filed : row.id = id /\ row.day = day BY <1>12, <2>3 DEF OnRecord
    <3>2. CASE day < edge
      <4>1. day < horizon' BY <3>2, <1>6, <1>7, <1>12
      <4>2. QED BY <4>1, <2>3 DEF OnRecord
    <3>3. CASE ~(day < edge) BY <3>1, <3>3, <1>8, <2>3 DEF OnRecord
    <3>4. QED BY <3>2, <3>3
  <2>4. QED BY <2>1, <2>2, <2>3
<1>13. RecordsHold'
  <2>1. today \in Nat BY <1>1, AdministrationBounds DEF AdminTyped
  <2>2. ASSUME NEW a \in answered' PROVE OnRecord(a.id, a.role, a.day)'
    <3>1. a \in answered BY <1>4
    <3>2. OnRecord(a.id, a.role, a.day) BY <3>1 DEF AdminIInv, RecordsHold
    <3>3. a.day \in Int BY <1>1, <2>1, <3>1 DEF AdminTyped
    <3>4. QED BY <1>12, <3>2, <3>3
  <2>3. ASSUME NEW d \in Consoles, call'[d].pc = "answer"
        PROVE  OnRecord(call[d].id, IsRoleOp(call[d].op), call[d].day)'
    <3>1. call'[d] = call[d] BY <1>5, <2>3 DEF CallGoesOn
    <3>2. OnRecord(call[d].id, IsRoleOp(call[d].op), call[d].day)
      BY <2>3, <3>1 DEF AdminIInv, RecordsHold
    <3>3. call[d].day \in Int BY <1>1, <2>1, <2>3, <3>1, CallTyped
    <3> DEFINE i == call[d].id
               r == IsRoleOp(call[d].op)
               y == call[d].day
    <3> HIDE DEF i, r, y
    <3>4. OnRecord(i, r, y) /\ y \in Int BY <3>2, <3>3 DEF i, r, y
    <3>5. \/ r /\ \E k \in DOMAIN jsonl' : jsonl'[k].id = i
          \/ ~r /\ (y < horizon' \/ \E row \in filed' : row.id = i /\ row.day = y)
      BY <1>12, <3>4 DEF OnRecord
    <3>6. i = call'[d].id /\ r = IsRoleOp(call'[d].op) /\ y = call'[d].day
      BY <3>1 DEF i, r, y
    <3>7. QED BY <3>5, <3>6 DEF OnRecord
  <2>4. QED BY <2>2, <2>3 DEF RecordsHold
<1>14. QED BY <1>9, <1>10, <1>11, <1>13 DEF AdminIInv

LEMMA ChangeRoleKeeps ==
    ASSUME AdminIInv, NEW c \in Consoles, ChangeRole(c) PROVE AdminIInv'
<1> DEFINE op == call[c].op
           a == Assignment(op)
           ok == op.kind = "assign" \/ a \in roles
<1>1. AdminTyped BY DEF AdminIInv
<1>2. call[c].pc = "act" /\ IsRoleOp(op) BY DEF ChangeRole
<1>3. call[c].ok \in BOOLEAN /\ op \in Ops BY <1>1, <1>2, ActIs
<1>4. op \in RoleOps /\ a \in Targets \X RoleNames /\ op.kind \in {"assign", "revoke"}
  BY <1>2, <1>3, OpTyped DEF IsRoleOp
<1>5. a = <<op.target, op.role>> BY DEF Assignment
<1>6. /\ op.kind = "assign" => roles' = roles \union {a}
      /\ op.kind # "assign" => roles' = roles \ {a}
  BY <1>5 DEF ChangeRole, WithoutRole
<1>7. UNCHANGED <<today, jsonl, policy, filed, calls, answered, horizon, faults>>
  BY DEF ChangeRole
<1>8. changes' \subseteq changes \union {call[c].id} BY DEF ChangeRole
<1>9. ok \in BOOLEAN OBVIOUS
<1>10. Acted(c, ok) BY DEF ChangeRole, Acted
<1> HIDE DEF ok
<1>11. /\ call' \in [Consoles -> CallStates'] /\ changes' \subseteq 1..calls
       /\ CallGoesOn(c) /\ call'[c].pc = "record" /\ call'[c].op = op
  BY <1>1, <1>7, <1>8, <1>9, <1>10, ActedTo
<1>12. roles' \subseteq Targets \X RoleNames BY <1>1, <1>4, <1>6 DEF AdminTyped
<1>13. AdminTyped' BY <1>1, <1>7, <1>11, <1>12 DEF AdminTyped
<1>14. CallsApart' /\ FaultsEnd' BY <1>7, <1>8, <1>9, <1>10, <1>13, ActedKeeps
<1>15. RecordsHold'
  <2>1. \A d \in Consoles : call'[d].pc = "answer" => d # c /\ call'[d] = call[d]
    BY <1>11 DEF CallGoesOn
  <2>2. QED BY <2>1, <1>7, RecordsStay DEF AdminIInv
<1>16. RolesOnLines'
  <2>1. \A b : LineSays(b)' <=> LineSays(b) BY <1>7 DEF LineSays
  <2>2. blurred' = IF \E d \in Consoles : Changing(d, a) THEN blurred \union {a} ELSE blurred
    BY DEF ChangeRole
  <2>3. \A d \in Consoles : \A b : Changing(d, b)' <=> (IF d = c THEN b = a ELSE Changing(d, b))
    BY <1>2, <1>11 DEF Changing, CallGoesOn
  <2>4. \A d \in Consoles : d # c => call'[d].op = call[d].op BY <1>11 DEF CallGoesOn
  <2>5. \A b : ~Changing(c, b) BY <1>2 DEF Changing
  <2> SUFFICES ASSUME NEW b \in (Targets \X RoleNames) \ blurred'
      PROVE  /\ \A d, e \in Consoles : Changing(d, b)' /\ Changing(e, b)' => d = e
             /\ \A d \in Consoles :
                   Changing(d, b)' => (b \in roles' <=> call'[d].op.kind = "assign")
             /\ (\A d \in Consoles : ~Changing(d, b)') => (b \in roles' <=> LineSays(b)')
    BY DEF RolesOnLines
  <2>6. b \in (Targets \X RoleNames) \ blurred BY <2>2
  <2>7. CASE b = a
    <3>1. \A d \in Consoles : ~Changing(d, a) BY <2>2, <2>7
    <3>2. \A d \in Consoles : Changing(d, b)' <=> d = c BY <2>3, <2>7, <3>1
    <3>3. b \in roles' <=> op.kind = "assign" BY <1>6, <2>7
    <3>4. QED BY <3>2, <3>3, <1>11
  <2>8. CASE b # a
    <3>1. \A d \in Consoles : Changing(d, b)' <=> Changing(d, b) BY <2>3, <2>5, <2>8
    <3>2. b \in roles' <=> b \in roles BY <1>6, <2>8
    <3>3. \A d \in Consoles : Changing(d, b) => call'[d].op = call[d].op BY <2>4, <2>5
    <3>4. QED BY <2>1, <2>6, <3>1, <3>2, <3>3 DEF AdminIInv, RolesOnLines
  <2>9. QED BY <2>7, <2>8
<1>17. QED BY <1>13, <1>14, <1>15, <1>16 DEF AdminIInv

LEMMA RecordedAt ==
    ASSUME AdminTyped, NEW c \in Consoles, Record(c)
    PROVE  LET next == [pc |-> "answer", id |-> call[c].id, op |-> call[c].op,
                        ok |-> call[c].ok, day |-> today]
           IN  /\ call[c] \in [pc : {"act", "record"}, id : 1..calls, op : Ops, ok : BOOLEAN]
               /\ call'[c] = next /\ call' \in [Consoles -> CallStates']
               /\ CallGoesOn(c) /\ call'[c] # NoCall
<1> DEFINE next == [pc |-> "answer", id |-> call[c].id, op |-> call[c].op,
                    ok |-> call[c].ok, day |-> today]
<1>1. call[c] \in [pc : {"act", "record"}, id : 1..calls, op : Ops, ok : BOOLEAN]
  BY CallTyped DEF Record
<1>2. call \in [Consoles -> CallStates] /\ today \in Nat
  BY AdministrationBounds DEF AdminTyped
<1>3. call' = [call EXCEPT ![c] = next] /\ UNCHANGED <<calls, today>> /\ changes' = changes
  BY DEF Record
<1>4. next \in CallStates
  <2>1. today \in 0..today BY <1>2
  <2>2. next \in [pc : {"answer"}, id : 1..calls, op : Ops, ok : BOOLEAN, day : 0..today]
    BY <1>1, <2>1
  <2>3. QED BY <2>2 DEF CallStates
<1>5. call'[c] = next /\ call' \in [Consoles -> CallStates] BY <1>2, <1>3, <1>4
<1>6. next.pc = "answer" /\ next.id = call[c].id OBVIOUS
<1>7. NoCall.pc = "idle" BY DEF NoCall
<1>8. call[c].pc = "record" BY DEF Record
<1>9. call'[c] # NoCall /\ call[c] # NoCall BY <1>5, <1>6, <1>7, <1>8
<1>10. \A d \in Consoles : d # c => call'[d] = call[d] BY <1>2, <1>3
<1>11. CallGoesOn(c) BY <1>3, <1>5, <1>6, <1>9, <1>10 DEF CallGoesOn
<1>12. CallStates' = CallStates BY <1>3, SameStates
<1>13. QED BY <1>1, <1>5, <1>9, <1>11, <1>12

LEMMA RecordKeeps ==
    ASSUME AdminIInv, NEW c \in Consoles, Record(c) PROVE AdminIInv'
<1> DEFINE k == call[c]
           line == LineOf(k)
           row == [id |-> k.id, ok |-> k.ok, day |-> today]
<1>1. AdminTyped BY DEF AdminIInv
<1>2. k.pc = "record" BY DEF Record
<1>3. /\ k \in [pc : {"act", "record"}, id : 1..calls, op : Ops, ok : BOOLEAN]
      /\ call'[c] = [pc |-> "answer", id |-> k.id, op |-> k.op, ok |-> k.ok, day |-> today]
      /\ call' \in [Consoles -> CallStates'] /\ CallGoesOn(c) /\ call'[c] # NoCall
  BY <1>1, RecordedAt
<1>4. /\ call'[c].pc = "answer" /\ call'[c].id = k.id /\ call'[c].op = k.op
      /\ call'[c].day = today
  BY <1>3
<1>5. UNCHANGED <<today, roles, policy, calls, answered, changes, horizon, blurred, faults>>
  BY DEF Record
<1>6. today \in Nat /\ calls \in Nat BY <1>1, AdministrationBounds DEF AdminTyped
<1>7. IsRoleOp(k.op) => line \in LineRecords
  BY <1>3, <1>6, OpTyped DEF LineOf, LineRecords
<1>8. /\ IsRoleOp(k.op) => jsonl' = Append(jsonl, line) /\ filed' = filed
      /\ ~IsRoleOp(k.op) => filed' = filed \union {row} /\ jsonl' = jsonl
  BY DEF Record
<1>9. jsonl' \in Seq(LineRecords)
  <2> HIDE DEF line, row
  <2>1. jsonl \in Seq(LineRecords) BY <1>1 DEF AdminTyped
  <2>2. CASE IsRoleOp(k.op)
    <3>1. line \in LineRecords /\ jsonl' = Append(jsonl, line) BY <1>7, <1>8, <2>2
    <3>2. QED BY <2>1, <3>1, AppendProperties
  <2>3. CASE ~IsRoleOp(k.op) BY <1>8, <2>1, <2>3
  <2>4. QED BY <2>2, <2>3
<1>10. filed' \subseteq [id : 1..calls, ok : BOOLEAN, day : 0..today]
  BY <1>1, <1>3, <1>6, <1>8 DEF AdminTyped
<1>11. AdminTyped' BY <1>1, <1>3, <1>5, <1>9, <1>10 DEF AdminTyped
<1>12. CallsApart' BY <1>3, ApartOn DEF AdminIInv
<1>13. FaultsEnd'
  <2>1. Ended' \subseteq Ended BY <1>3, <1>5, EndedOn
  <2>2. QED BY <2>1, <1>1, <1>5, <1>11, NoneEnds DEF AdminIInv
<1>14. Len(jsonl) \in Nat /\ DOMAIN jsonl = 1..Len(jsonl)
  BY <1>1, LenProperties DEF AdminTyped
<1>15. IsRoleOp(k.op) =>
          /\ DOMAIN jsonl' = 1..(Len(jsonl) + 1) /\ jsonl'[Len(jsonl) + 1] = line
          /\ \A i \in DOMAIN jsonl : jsonl'[i] = jsonl[i]
  <2> SUFFICES ASSUME IsRoleOp(k.op) 
      PROVE  /\ DOMAIN jsonl' = 1..(Len(jsonl) + 1) /\ jsonl'[Len(jsonl) + 1] = line
             /\ \A i \in DOMAIN jsonl : jsonl'[i] = jsonl[i]
    OBVIOUS
  <2> HIDE DEF line
  <2>1. jsonl \in Seq(LineRecords) /\ line \in LineRecords /\ jsonl' = Append(jsonl, line)
    BY <1>1, <1>7, <1>8 DEF AdminTyped
  <2>2. QED BY <2>1, <1>14, AppendProperties
<1>16. \A id, isRole, day : OnRecord(id, isRole, day) => OnRecord(id, isRole, day)'
  <2> TAKE id, isRole, day
  <2>1. CASE isRole
    <3>1. \A i \in DOMAIN jsonl : i \in DOMAIN jsonl' /\ jsonl'[i] = jsonl[i]
      BY <1>8, <1>14, <1>15
    <3>2. QED BY <2>1, <3>1 DEF OnRecord
  <2>2. CASE ~isRole BY <2>2, <1>5, <1>8 DEF OnRecord
  <2>3. QED BY <2>1, <2>2
<1>17. OnRecord(call[c].id, IsRoleOp(call[c].op), call[c].day)'
  <2>1. CASE IsRoleOp(k.op)
    <3>1. Len(jsonl) + 1 \in DOMAIN jsonl' /\ jsonl'[Len(jsonl) + 1].id = k.id
      BY <1>14, <1>15, <2>1 DEF LineOf
    <3>2. \E i \in DOMAIN jsonl' : jsonl'[i].id = k.id BY <3>1
    <3>3. QED BY <2>1, <3>2, <1>4 DEF OnRecord
  <2>2. CASE ~IsRoleOp(k.op)
    <3>1. row \in filed' /\ row.id = k.id /\ row.day = today BY <1>8, <2>2
    <3>2. \E r \in filed' : r.id = k.id /\ r.day = today BY <3>1
    <3>3. QED BY <2>2, <3>2, <1>4 DEF OnRecord
  <2>3. QED BY <2>1, <2>2
<1>18. RecordsHold'
  <2>1. ASSUME NEW a \in answered' PROVE OnRecord(a.id, a.role, a.day)'
    <3>1. OnRecord(a.id, a.role, a.day) BY <1>5 DEF AdminIInv, RecordsHold
    <3>2. QED BY <3>1, <1>16
  <2>2. ASSUME NEW d \in Consoles, d # c, call'[d].pc = "answer"
        PROVE  OnRecord(call[d].id, IsRoleOp(call[d].op), call[d].day)'
    <3>1. call'[d] = call[d] BY <1>3, <2>2 DEF CallGoesOn
    <3>2. OnRecord(call[d].id, IsRoleOp(call[d].op), call[d].day)
      BY <2>2, <3>1 DEF AdminIInv, RecordsHold
    <3>3. PICK id, isRole, day : /\ id = call[d].id /\ isRole = IsRoleOp(call[d].op)
                                 /\ day = call[d].day /\ OnRecord(id, isRole, day)
      BY <3>2
    <3>4. OnRecord(id, isRole, day)' BY <3>3, <1>16
    <3>5. id = call'[d].id /\ isRole = IsRoleOp(call'[d].op) /\ day = call'[d].day
      BY <3>1, <3>3
    <3>6. QED BY <3>4, <3>5 DEF OnRecord
  <2>3. QED BY <2>1, <2>2, <1>17 DEF RecordsHold
<1>19. RolesOnLines'
  <2>1. \A d \in Consoles : d # c => call'[d] = call[d] BY <1>3 DEF CallGoesOn
  <2>2. \A b : ~Changing(c, b)' BY <1>4 DEF Changing
  <2>3. \A d \in Consoles : \A b : Changing(d, b)' <=> d # c /\ Changing(d, b)
    BY <2>1, <2>2 DEF Changing
  <2>4. \A b : Changing(c, b) <=> IsRoleOp(k.op) /\ b = Assignment(k.op)
    BY <1>2 DEF Changing
  <2> SUFFICES ASSUME NEW b \in (Targets \X RoleNames) \ blurred'
      PROVE  /\ \A d, e \in Consoles : Changing(d, b)' /\ Changing(e, b)' => d = e
             /\ \A d \in Consoles :
                   Changing(d, b)' => (b \in roles' <=> call'[d].op.kind = "assign")
             /\ (\A d \in Consoles : ~Changing(d, b)') => (b \in roles' <=> LineSays(b)')
    BY DEF RolesOnLines
  <2>5. b \in (Targets \X RoleNames) \ blurred /\ roles' = roles BY <1>5
  <2>6. /\ \A d, e \in Consoles : Changing(d, b) /\ Changing(e, b) => d = e
        /\ \A d \in Consoles :
              Changing(d, b) => (b \in roles <=> call[d].op.kind = "assign")
        /\ (\A d \in Consoles : ~Changing(d, b)) => (b \in roles <=> LineSays(b))
    BY <2>5 DEF AdminIInv, RolesOnLines
  <2>7. CASE Changing(c, b)
    <3>1. IsRoleOp(k.op) /\ b = Assignment(k.op) BY <2>4, <2>7
    <3>2. line.of = b /\ (line.action = "role_assigned" <=> k.op.kind = "assign")
      BY <3>1 DEF LineOf
    <3>3. LineSays(b)' <=> line.action = "role_assigned"
      <4> DEFINE n == Len(jsonl) + 1
      <4>1. n \in DOMAIN jsonl' /\ jsonl'[n] = line /\ \A j \in DOMAIN jsonl' : j \in Nat /\ j <= n
        BY <1>14, <1>15, <3>1
      <4> HIDE DEF n, line
      <4>2. \A m \in DOMAIN jsonl' : (\A j \in DOMAIN jsonl' : jsonl'[j].of = b => j <= m) => m = n
        <5> SUFFICES ASSUME NEW m \in DOMAIN jsonl',
                            \A j \in DOMAIN jsonl' : jsonl'[j].of = b => j <= m
                     PROVE  m = n
          OBVIOUS
        <5>1. n <= m /\ m <= n /\ m \in Nat /\ n \in Nat BY <4>1, <3>2
        <5>2. QED BY <5>1
      <4>3. QED BY <4>1, <4>2, <3>2 DEF LineSays
    <3>4. \A d \in Consoles : ~Changing(d, b)' BY <2>3, <2>6, <2>7
    <3>5. b \in roles <=> k.op.kind = "assign" BY <2>6, <2>7
    <3>6. QED BY <2>5, <3>2, <3>3, <3>4, <3>5
  <2>8. CASE ~Changing(c, b)
    <3>1. \A d \in Consoles : Changing(d, b)' <=> Changing(d, b) BY <2>3, <2>8
    <3>2. LineSays(b)' <=> LineSays(b)
      <4>1. CASE ~IsRoleOp(k.op) BY <4>1, <1>8 DEF LineSays
      <4>2. CASE IsRoleOp(k.op)
        <5>1. line.of # b BY <2>4, <2>8, <4>2 DEF LineOf
        <5> HIDE DEF line
        <5>2. \A j : j \in DOMAIN jsonl' <=> (j \in DOMAIN jsonl \/ j = Len(jsonl) + 1)
          BY <1>14, <1>15, <4>2
        <5>3. \A j \in DOMAIN jsonl : jsonl'[j] = jsonl[j] BY <1>15, <4>2
        <5>4. jsonl'[Len(jsonl) + 1].of # b BY <1>15, <4>2, <5>1
        <5>5. QED BY <5>2, <5>3, <5>4 DEF LineSays
      <4>3. QED BY <4>1, <4>2
    <3>3. \A d \in Consoles : Changing(d, b)' => call'[d] = call[d] BY <2>1, <2>3
    <3>4. QED BY <2>5, <2>6, <3>1, <3>2, <3>3
  <2>9. QED BY <2>7, <2>8
<1>20. QED BY <1>11, <1>12, <1>13, <1>18, <1>19 DEF AdminIInv

LEMMA AnswerKeeps ==
    ASSUME AdminIInv, NEW c \in Consoles, Answer(c) PROVE AdminIInv'
<1> DEFINE k == call[c]
           new == [id |-> k.id, role |-> IsRoleOp(k.op), day |-> k.day]
<1>1. AdminTyped BY DEF AdminIInv
<1>2. k.pc = "answer" /\ k.id \in 1..calls /\ k.op \in Ops /\ k.day \in 0..today
  <2>1. k.pc = "answer" BY DEF Answer
  <2>2. NoCall.pc = "idle" BY DEF NoCall
  <2>3. k # NoCall BY <2>1, <2>2
  <2>4. QED BY <1>1, <2>1, <2>3, CallTyped
<1>3. UNCHANGED <<today, roles, jsonl, policy, filed, calls, changes, horizon, blurred, faults>>
  BY DEF Answer
<1>4. call' = [call EXCEPT ![c] = NoCall] /\ answered' = answered \union {new}
  BY DEF Answer
<1>5. call \in [Consoles -> CallStates] /\ NoCall \in CallStates /\ CallStates' = CallStates
  BY <1>1, <1>3, SameStates DEF AdminTyped, CallStates
<1>6. call'[c] = NoCall /\ \A d \in Consoles : d # c => call'[d] = call[d] BY <1>4, <1>5
<1>7. NoCall.pc = "idle" /\ k # NoCall BY <1>2 DEF NoCall
<1>8. CallGoesOn(c) BY <1>3, <1>6, <1>7 DEF CallGoesOn
<1>9. call' \in [Consoles -> CallStates'] BY <1>4, <1>5
<1>10. new \in [id : 1..calls, role : BOOLEAN, day : 0..today] BY <1>2 DEF IsRoleOp
<1>11. answered' \subseteq [id : 1..calls, role : BOOLEAN, day : 0..today]
  BY <1>1, <1>4, <1>10 DEF AdminTyped
<1>12. AdminTyped' BY <1>1, <1>3, <1>9, <1>11 DEF AdminTyped
<1>13. CallsApart' BY <1>8, ApartOn DEF AdminIInv
<1>14. Ended' \subseteq Ended
  <2> SUFFICES ASSUME NEW id \in Ended' PROVE id \in Ended OBVIOUS
  <2>1. id \in 1..calls /\ \A a \in answered' : a.id # id BY <1>3 DEF Ended
  <2>2. id # k.id
    <3>1. new \in answered' /\ new.id = k.id BY <1>4
    <3>2. QED BY <2>1, <3>1
  <2>3. \A d \in Consoles : call'[d] # NoCall => call'[d].id # id BY DEF Ended
  <2>4. \A d \in Consoles : call[d] # NoCall => call[d].id # id BY <2>2, <2>3, <1>6
  <2>5. QED BY <2>1, <2>4, <1>4 DEF Ended
<1>15. FaultsEnd' BY <1>1, <1>3, <1>12, <1>14, NoneEnds DEF AdminIInv
<1>16. \A id, isRole, day : OnRecord(id, isRole, day) <=> OnRecord(id, isRole, day)'
  BY <1>3 DEF OnRecord
<1>17. RecordsHold'
  <2>1. ASSUME NEW a \in answered' PROVE OnRecord(a.id, a.role, a.day)'
    <3>1. CASE a \in answered BY <3>1, <1>16 DEF AdminIInv, RecordsHold
    <3>2. CASE a = new
      <4>1. OnRecord(k.id, IsRoleOp(k.op), k.day) BY <1>2 DEF AdminIInv, RecordsHold
      <4>2. a.id = k.id /\ a.role = IsRoleOp(k.op) /\ a.day = k.day BY <3>2
      <4>3. OnRecord(a.id, a.role, a.day) BY <4>1, <4>2
      <4>4. QED BY <4>3, <1>16
    <3>3. QED BY <3>1, <3>2, <1>4
  <2>2. ASSUME NEW d \in Consoles, call'[d].pc = "answer"
        PROVE  OnRecord(call[d].id, IsRoleOp(call[d].op), call[d].day)'
    <3>1. call'[d] = call[d] BY <1>6, <1>7, <2>2
    <3>2. OnRecord(call[d].id, IsRoleOp(call[d].op), call[d].day)
      BY <2>2, <3>1 DEF AdminIInv, RecordsHold
    <3>3. QED BY <3>1, <3>2, <1>3 DEF OnRecord
  <2>3. QED BY <2>1, <2>2 DEF RecordsHold
<1>18. RolesOnLines'
  <2>1. \A d \in Consoles : \A a : Changing(d, a)' <=> Changing(d, a)
    BY <1>2, <1>6, <1>7 DEF Changing
  <2>2. \A d \in Consoles : \A a : Changing(d, a) => call'[d].op = call[d].op
    BY <1>2, <1>6 DEF Changing
  <2>3. QED BY <2>1, <2>2, <1>3, RolesStay DEF AdminIInv
<1>19. QED BY <1>12, <1>13, <1>15, <1>17, <1>18 DEF AdminIInv

\* Calls that a fault ends: those of cs.
CallsEnd(cs) == call' = [c \in Consoles |-> IF c \in cs THEN NoCall ELSE call[c]]

LEMMA EndsKeeps ==
    ASSUME AdminIInv, NEW cs \in SUBSET Consoles, IsFiniteSet(cs),
           Cardinality(cs) <= Cardinality(Listeners), faults < MaxFaults, faults' = faults + 1,
           blurred' = blurred \union Lost(cs), CallsEnd(cs), policy' \subseteq Requests,
           UNCHANGED <<today, roles, jsonl, filed, calls, answered, changes, horizon>>
    PROVE  AdminIInv'
<1>1. AdminTyped BY DEF AdminIInv
<1>2. NoCall.pc = "idle" BY DEF NoCall
<1>3. \A c \in Consoles : call'[c] = IF c \in cs THEN NoCall ELSE call[c] BY DEF CallsEnd
<1>4. AdminTyped'
  <2>1. CallStates' = CallStates /\ NoCall \in CallStates BY SameStates DEF CallStates
  <2>2. call' \in [Consoles -> CallStates'] BY <1>1, <2>1 DEF AdminTyped, CallsEnd
  <2>3. faults' \in 0..MaxFaults BY <1>1, AdministrationBounds DEF AdminTyped
  <2>4. QED BY <1>1, <2>2, <2>3 DEF AdminTyped
<1>5. CallsApart'
  <2>1. \A c \in Consoles : call'[c] # NoCall => call'[c] = call[c] BY <1>3
  <2>2. QED BY <2>1 DEF AdminIInv, CallsApart, NoCall
<1>6. FaultsEnd'
  <2>1. Ended' \subseteq Ended \union {call[c].id : c \in cs}
    <3> SUFFICES ASSUME NEW id \in Ended', id \notin {call[c].id : c \in cs} PROVE id \in Ended
      OBVIOUS
    <3>1. id \in 1..calls /\ \A a \in answered : a.id # id BY DEF Ended
    <3>2. \A c \in Consoles : call'[c] # NoCall => call'[c].id # id BY DEF Ended
    <3>3. \A c \in Consoles : call[c] # NoCall => call[c].id # id BY <3>2, <1>3
    <3>4. QED BY <3>1, <3>3 DEF Ended
  <2>2. QED BY <2>1, <1>1, <1>4, SomeEnd DEF AdminIInv
<1>7. RecordsHold'
  <2>1. \A c \in Consoles : call'[c].pc = "answer" => call'[c] = call[c] BY <1>2, <1>3
  <2>2. QED BY <2>1, RecordsStay DEF AdminIInv
<1>8. RolesOnLines'
  <2>1. \A a : LineSays(a)' <=> LineSays(a) BY DEF LineSays
  <2>2. \A c \in Consoles : \A a : Changing(c, a)' => Changing(c, a) /\ call'[c] = call[c]
    BY <1>2, <1>3 DEF Changing
  <2>3. \A c \in Consoles : \A a : Changing(c, a) /\ ~Changing(c, a)' => a \in Lost(cs)
    BY <1>3 DEF Changing, Lost
  <2> SUFFICES ASSUME NEW b \in (Targets \X RoleNames) \ blurred'
      PROVE  /\ \A d, e \in Consoles : Changing(d, b)' /\ Changing(e, b)' => d = e
             /\ \A d \in Consoles :
                   Changing(d, b)' => (b \in roles' <=> call'[d].op.kind = "assign")
             /\ (\A d \in Consoles : ~Changing(d, b)') => (b \in roles' <=> LineSays(b)')
    BY DEF RolesOnLines
  <2>4. b \in (Targets \X RoleNames) \ blurred /\ b \notin Lost(cs) OBVIOUS
  <2>5. \A d \in Consoles : Changing(d, b)' <=> Changing(d, b) BY <2>2, <2>3, <2>4
  <2>6. \A d \in Consoles : Changing(d, b) => call'[d].op = call[d].op BY <2>2, <2>5
  <2>7. /\ \A d, e \in Consoles : Changing(d, b) /\ Changing(e, b) => d = e
        /\ \A d \in Consoles :
              Changing(d, b) => (b \in roles <=> call[d].op.kind = "assign")
        /\ (\A d \in Consoles : ~Changing(d, b)) => (b \in roles <=> LineSays(b))
    BY <2>4 DEF AdminIInv, RolesOnLines
  <2>8. QED BY <2>1, <2>5, <2>6, <2>7
<1>9. QED BY <1>4, <1>5, <1>6, <1>7, <1>8 DEF AdminIInv

LEMMA ListenersEnough ==
    ASSUME NEW c
    PROVE  IsFiniteSet({c}) /\ Cardinality({c}) <= Cardinality(Listeners)
<1>1. IsFiniteSet({c}) /\ Cardinality({c}) = 1 BY FS_Singleton
<1>2. Cardinality(Listeners) \in Nat /\ Cardinality(Listeners) # 0
  BY SomeoneListens, FS_CardinalityType, FS_EmptySet
<1>3. QED BY <1>1, <1>2

LEMMA RecordFailsKeeps ==
    ASSUME AdminIInv, NEW c \in Consoles, RecordFails(c) PROVE AdminIInv'
<1>1. call \in [Consoles -> CallStates] BY DEF AdminIInv, AdminTyped
<1>2. CallsEnd({c}) BY <1>1 DEF RecordFails, CallsEnd
<1>3. IsFiniteSet({c}) /\ Cardinality({c}) <= Cardinality(Listeners) BY ListenersEnough
<1>4. policy' \subseteq Requests BY DEF RecordFails, AdminIInv, AdminTyped
<1>5. {c} \in SUBSET Consoles OBVIOUS
<1>6. QED BY <1>2, <1>3, <1>4, <1>5, EndsKeeps DEF RecordFails

LEMMA DieKeeps ==
    ASSUME AdminIInv, NEW cs \in SUBSET Consoles, IsFiniteSet(cs),
           Cardinality(cs) <= Cardinality(Listeners), Die(cs)
    PROVE  AdminIInv'
<1>1. policy' \subseteq Requests BY AdministrationBounds DEF Die, AdminIInv, AdminTyped
<1>2. CallsEnd(cs) BY DEF Die, CallsEnd
<1>3. QED BY <1>1, <1>2, EndsKeeps DEF Die

LEMMA DayPassesKeeps == AdminIInv /\ DayPasses => AdminIInv'
<1> SUFFICES ASSUME AdminIInv, DayPasses PROVE AdminIInv' OBVIOUS
<1>1. AdminTyped BY DEF AdminIInv
<1>2. UNCHANGED <<roles, jsonl, policy, filed, call, calls, answered, changes, horizon,
                  blurred, faults>>
  BY DEF DayPasses
<1>3. today \in Nat /\ today' \in 0..LastDay /\ 0..today \subseteq 0..today'
  BY <1>1, AdministrationBounds DEF DayPasses, AdminTyped
<1>4. CallStates \subseteq CallStates' BY <1>2, <1>3 DEF CallStates
<1>5. call' \in [Consoles -> CallStates'] BY <1>1, <1>2, <1>4 DEF AdminTyped
<1>6. /\ filed' \subseteq [id : 1..calls', ok : BOOLEAN, day : 0..today']
      /\ answered' \subseteq [id : 1..calls', role : BOOLEAN, day : 0..today']
  BY <1>1, <1>2, <1>3 DEF AdminTyped
<1>7. AdminTyped' BY <1>1, <1>2, <1>3, <1>5, <1>6 DEF AdminTyped
<1>8. CallsApart' BY <1>2 DEF AdminIInv, CallsApart
<1>9. FaultsEnd' BY <1>2 DEF AdminIInv, FaultsEnd, Ended
<1>10. RecordsHold' BY <1>2, RecordsStay DEF AdminIInv
<1>11. RolesOnLines'
  <2>1. \A c \in Consoles : \A a : Changing(c, a)' <=> Changing(c, a) BY <1>2 DEF Changing
  <2>2. QED BY <1>2, <2>1, RolesStay DEF AdminIInv
<1>12. QED BY <1>7, <1>8, <1>9, <1>10, <1>11 DEF AdminIInv

LEMMA AdminInitIInv == AdminInit => AdminIInv
<1> SUFFICES ASSUME AdminInit PROVE AdminIInv OBVIOUS
<1>1. LastDay \in Nat /\ MaxCalls \in Nat /\ MaxFaults \in Nat /\ DefaultPolicy \subseteq Requests
  BY AdministrationBounds
<1>2. NoCall \in CallStates BY DEF CallStates
<1>3. call \in [Consoles -> CallStates] BY <1>2 DEF AdminInit
<1>4. horizon \in Int BY <1>1 DEF AdminInit
<1>5. AdminTyped BY <1>1, <1>3, <1>4 DEF AdminTyped, AdminInit
<1>6. \A c \in Consoles : call[c] = NoCall /\ call[c].pc = "idle" BY DEF AdminInit, NoCall
<1>7. CallsApart BY <1>6 DEF CallsApart, NoCall
<1>8. RecordsHold BY <1>6 DEF RecordsHold, AdminInit
<1>9. FaultsEnd
  <2>1. 1..0 = {} OBVIOUS
  <2>2. Ended = {} BY <2>1 DEF Ended, AdminInit
  <2>3. Cardinality(Ended) = 0 BY <2>2, FS_EmptySet
  <2>4. Cardinality(Listeners) \in Nat BY SomeoneListens, FS_CardinalityType
  <2>5. faults * Cardinality(Listeners) = 0 BY <2>4 DEF AdminInit
  <2>6. QED BY <2>3, <2>5 DEF FaultsEnd
<1>10. RolesOnLines
  <2>1. \A c \in Consoles : \A a : ~Changing(c, a) BY <1>6 DEF Changing
  <2>2. \A a : ~LineSays(a)
    <3>1. DOMAIN jsonl = {} BY DEF AdminInit
    <3>2. QED BY <3>1 DEF LineSays
  <2>3. roles = {} BY DEF AdminInit
  <2>4. QED BY <2>1, <2>2, <2>3 DEF RolesOnLines
<1>11. QED BY <1>5, <1>7, <1>8, <1>9, <1>10 DEF AdminIInv

\* The strengthening that carries the administration's properties holds of every
\* state: administration of roles and the console.
THEOREM AdminInvariance == AdminSpec => []AdminIInv
<1>1. AdminIInv /\ [AdminNext]_adminVars => AdminIInv'
  <2> SUFFICES ASSUME AdminIInv, [AdminNext]_adminVars PROVE AdminIInv' OBVIOUS
  <2>1. ASSUME NEW c \in Consoles, NEW op \in RoleOps \union ConsoleOps, Call(c, op)
        PROVE  AdminIInv'
    BY <2>1, CallKeeps DEF Ops
  <2>2. ASSUME NEW c \in Consoles, ChangeRole(c) PROVE AdminIInv' BY <2>2, ChangeRoleKeeps
  <2>3. ASSUME NEW c \in Consoles, PutPolicy(c) PROVE AdminIInv' BY <2>3, PutPolicyKeeps
  <2>4. ASSUME NEW c \in Consoles, DecideExport(c) PROVE AdminIInv' BY <2>4, DecideExportKeeps
  <2>5. ASSUME NEW c \in Consoles, Purge(c) PROVE AdminIInv' BY <2>5, PurgeKeeps
  <2>6. ASSUME NEW c \in Consoles, StartRead(c) PROVE AdminIInv' BY <2>6, StartReadKeeps
  <2>7. ASSUME NEW c \in Consoles, Record(c) PROVE AdminIInv' BY <2>7, RecordKeeps
  <2>8. ASSUME NEW c \in Consoles, Answer(c) PROVE AdminIInv' BY <2>8, AnswerKeeps
  <2>9. ASSUME NEW c \in Consoles, RecordFails(c) PROVE AdminIInv' BY <2>9, RecordFailsKeeps
  <2>10. ASSUME Die(Listeners) PROVE AdminIInv'
    <3>1. Listeners \in SUBSET Consoles BY DEF Consoles
    <3>2. Cardinality(Listeners) \in Nat BY SomeoneListens, FS_CardinalityType
    <3>3. QED BY <2>10, <3>1, <3>2, SomeoneListens, DieKeeps
  <2>11. ASSUME NEW s \in Shells, Die({s}) PROVE AdminIInv'
    <3>1. {s} \in SUBSET Consoles BY DEF Consoles
    <3>2. IsFiniteSet({s}) /\ Cardinality({s}) <= Cardinality(Listeners) BY ListenersEnough
    <3>3. QED BY <2>11, <3>1, <3>2, DieKeeps
  <2>12. ASSUME DayPasses PROVE AdminIInv' BY <2>12, DayPassesKeeps
  <2>13. ASSUME UNCHANGED adminVars PROVE AdminIInv'
    <3>1. UNCHANGED <<today, roles, jsonl, policy, filed, call, calls, answered, changes,
                      horizon, blurred, faults>>
      BY <2>13 DEF adminVars
    <3>2. AdminTyped' BY <3>1, SameStates DEF AdminIInv, AdminTyped
    <3>3. CallsApart' BY <3>1 DEF AdminIInv, CallsApart
    <3>4. FaultsEnd' BY <3>1 DEF AdminIInv, FaultsEnd, Ended
    <3>5. RecordsHold' BY <3>1, RecordsStay DEF AdminIInv
    <3>6. \A c \in Consoles : \A a : Changing(c, a)' <=> Changing(c, a) BY <3>1 DEF Changing
    <3>7. RolesOnLines' BY <3>1, <3>6, RolesStay DEF AdminIInv
    <3>8. QED BY <3>2, <3>3, <3>4, <3>5, <3>7 DEF AdminIInv
  <2>14. QED
    BY <2>1, <2>2, <2>3, <2>4, <2>5, <2>6, <2>7, <2>8, <2>9, <2>10, <2>11, <2>12, <2>13
    DEF AdminNext
<1>2. QED BY <1>1, AdminInitIInv, PTL DEF AdminSpec

\* What is answered is on record until its day is purged, a fault leaves at most one
\* change without its record for each call it ends, and the last line about an assignment
\* tells whether it holds (manage_role, the routes of admin_console).
THEOREM AdministrationIsSound == AdminSpec => []AdministrationSound
BY AdminInvariance, AdminImplied, PTL

-----------------------------------------------------------------------------
(* Installation: what a merge keeps                                        *)

\* Lines that the installers write, and those that there may be.
FreshLines ==
    {Line("MODE", "local"), Line("MODE", "vps_cpu"), Line("MODE", "mac_mlx"),
     Line("GRAPH", "true"), Line("RERANKER", "true"), Line("URL", "8000"),
     Line("API_KEY", "k")}
CutLine == Line("cut", "")
EnvLines == FreshLines \union {CutLine} \union UNION {ToSet(file) : file \in AtFirst}
KeysOnce(lines) ==
    \A j, k \in DOMAIN lines : lines[j].key = lines[k].key /\ lines[j].key # "#" => j = k
EnvFiles == {lines \in Seq(EnvLines) : KeysOnce(lines)}
\* What an installer merges.
FreshFiles ==
    {lines \in EnvFiles : \A n \in DOMAIN lines : lines[n].key \notin {"#", "TOKEN"}}
HasAll(lines, some) == \A n \in DOMAIN some : \E k \in DOMAIN lines : lines[k] = some[n]

\* The rank of a place among these.
RankIn(places, n) == Cardinality({m \in places : m <= n})

LEMMA RanksAreOneToOne ==
    ASSUME NEW size \in Nat, NEW places \in SUBSET (1..size)
    PROVE  /\ IsFiniteSet(places) /\ Cardinality(places) \in Nat
           /\ \A n \in places : RankIn(places, n) \in 1..Cardinality(places)
           /\ \A n, m \in places : RankIn(places, n) = RankIn(places, m) => n = m
           /\ \A k \in 1..Cardinality(places) : \E n \in places : RankIn(places, n) = k
<1> DEFINE upTo(n) == {m \in places : m <= n}
           c == Cardinality(places)
<1>1. IsFiniteSet(places) /\ c \in Nat
  <2>1. IsFiniteSet(1..size) BY FS_Interval
  <2>2. QED BY <2>1, FS_Subset, FS_CardinalityType
<1>2. \A n \in places : /\ IsFiniteSet(upTo(n)) /\ Cardinality(upTo(n)) \in Nat
                        /\ Cardinality(upTo(n)) <= c /\ Cardinality(upTo(n)) # 0
  <2> TAKE n \in places
  <2>1. upTo(n) \subseteq places /\ n \in upTo(n) OBVIOUS
  <2>2. IsFiniteSet(upTo(n)) /\ Cardinality(upTo(n)) <= c BY <1>1, <2>1, FS_Subset
  <2>3. Cardinality(upTo(n)) \in Nat BY <2>2, FS_CardinalityType
  <2>4. Cardinality(upTo(n)) # 0 BY <2>1, <2>2, FS_EmptySet
  <2>5. QED BY <2>2, <2>3, <2>4
<1>3. \A n, m \in places : n < m => Cardinality(upTo(n)) < Cardinality(upTo(m))
  <2> SUFFICES ASSUME NEW n \in places, NEW m \in places, n < m
               PROVE  Cardinality(upTo(n)) < Cardinality(upTo(m))
    OBVIOUS
  <2>0. n \in Nat /\ m \in Nat /\ ~(m <= n) /\ m <= m OBVIOUS
  <2>1. upTo(n) \subseteq upTo(m) /\ m \in upTo(m) /\ m \notin upTo(n)
    <3>1. \A k \in places : k <= n => k <= m BY <2>0
    <3>2. QED BY <2>0, <3>1
  <2>2. IsFiniteSet(upTo(m)) BY <1>2
  <2>3. Cardinality(upTo(n)) <= Cardinality(upTo(m)) BY <2>1, <2>2, FS_Subset
  <2>4. Cardinality(upTo(n)) # Cardinality(upTo(m)) BY <2>1, <2>2, FS_Subset
  <2>5. QED BY <1>2, <2>3, <2>4
<1>4. \A n, m \in places : Cardinality(upTo(n)) = Cardinality(upTo(m)) => n = m
  <2> SUFFICES ASSUME NEW n \in places, NEW m \in places,
                      Cardinality(upTo(n)) = Cardinality(upTo(m)), n # m
               PROVE  FALSE
    OBVIOUS
  <2>1. n < m \/ m < n OBVIOUS
  <2>2. Cardinality(upTo(n)) \in Nat /\ Cardinality(upTo(m)) \in Nat BY <1>2
  <2>3. QED BY <1>3, <2>1, <2>2
<1>5. \A n \in places : Cardinality(upTo(n)) \in 1..c BY <1>1, <1>2
<1>6. \A k \in 1..c : \E n \in places : Cardinality(upTo(n)) = k
  <2> DEFINE f == [n \in places |-> Cardinality(upTo(n))]
  <2>1. f \in [places -> 1..c] BY <1>5
  <2>2. f \in Injection(places, 1..c) BY <1>4, <2>1 DEF Injection, IsInjective
  <2>3. IsFiniteSet(1..c) /\ Cardinality(1..c) = c BY <1>1, FS_Interval
  <2>4. f \in Surjection(places, 1..c) BY <1>1, <2>2, <2>3, FS_Injection
  <2>5. \A k \in 1..c : \E n \in places : f[n] = k BY <2>4 DEF Surjection
  <2>6. QED BY <2>5
<1>7. QED BY <1>1, <1>4, <1>5, <1>6 DEF RankIn

\* What is picked of a sequence has each of the places once.
LEMMA PickedAt ==
    ASSUME NEW S, NEW s \in Seq(S), NEW places \in SUBSET (DOMAIN s)
    PROVE  /\ Picked(s, places) \in Seq(S) /\ Len(Picked(s, places)) = Cardinality(places)
           /\ Cardinality(places) \in Nat
           /\ \E at \in [1..Cardinality(places) -> places] :
                 /\ \A k \in 1..Cardinality(places) : Picked(s, places)[k] = s[at[k]]
                 /\ \A j, k \in 1..Cardinality(places) : at[j] = at[k] => j = k
                 /\ \A n \in places : \E k \in 1..Cardinality(places) : at[k] = n
<1> DEFINE c == Cardinality(places)
           place(k) == CHOOSE n \in places : RankIn(places, n) = k
           at == [k \in 1..c |-> place(k)]
           P == [k \in 1..c |-> s[place(k)]]
<1>1. Len(s) \in Nat /\ DOMAIN s = 1..Len(s) BY LenProperties
<1>2. /\ c \in Nat
      /\ \A n \in places : RankIn(places, n) \in 1..c
      /\ \A n, m \in places : RankIn(places, n) = RankIn(places, m) => n = m
      /\ \A k \in 1..c : \E n \in places : RankIn(places, n) = k
  BY <1>1, RanksAreOneToOne
<1>3. \A k \in 1..c : place(k) \in places /\ RankIn(places, place(k)) = k BY <1>2
<1>4. \A n \in places : place(RankIn(places, n)) = n BY <1>2, <1>3
<1> HIDE DEF c, place
<1>5. Picked(s, places) = P BY DEF Picked, RankIn, c, place
<1>6. \A k \in 1..c : s[place(k)] \in S BY <1>3, ElementOfSeq, <1>1
<1>7. P \in Seq(S) /\ Len(P) = c BY <1>2, <1>6, IsASeq
<1>8. at \in [1..c -> places] BY <1>3
<1>9. \A k \in 1..c : P[k] = s[at[k]] OBVIOUS
<1>10. \A j, k \in 1..c : at[j] = at[k] => j = k BY <1>3
<1>11. \A n \in places : \E k \in 1..c : at[k] = n BY <1>2, <1>4
<1>12. QED BY <1>2, <1>5, <1>7, <1>8, <1>9, <1>10, <1>11 DEF c

LEMMA PickedPlaces ==
    ASSUME NEW S, NEW s \in Seq(S), NEW places \in SUBSET (DOMAIN s)
    PROVE  /\ Picked(s, places) \in Seq(S) /\ Len(Picked(s, places)) \in Nat
           /\ \E at \in [1..Len(Picked(s, places)) -> places] :
                 /\ \A k \in 1..Len(Picked(s, places)) : Picked(s, places)[k] = s[at[k]]
                 /\ \A j, k \in 1..Len(Picked(s, places)) : at[j] = at[k] => j = k
                 /\ \A n \in places : \E k \in 1..Len(Picked(s, places)) : at[k] = n
BY PickedAt

LEMMA LinesAreLines == \A l \in EnvLines : l = Line(l.key, l.value)
<1> SUFFICES ASSUME NEW l \in EnvLines PROVE l = Line(l.key, l.value) OBVIOUS
<1>1. CASE l \in FreshLines \union {CutLine} BY <1>1 DEF FreshLines, CutLine, Line
<1>2. CASE l \in UNION {ToSet(file) : file \in AtFirst}
  <2>1. PICK file \in AtFirst : l \in ToSet(file) BY <1>2
  <2>2. file \in Seq([key : STRING, value : STRING]) BY FilesAtFirst
  <2>3. PICK n \in DOMAIN file : l = file[n] BY <2>1 DEF ToSet
  <2>4. l \in [key : STRING, value : STRING] BY <2>2, <2>3, ElementOfSeq, LenProperties
  <2>5. QED BY <2>4 DEF Line
<1>3. QED BY <1>1, <1>2 DEF EnvLines

\* The value that a merge places for a key is that of its line.
LEMMA ValueOfLine ==
    ASSUME NEW new \in EnvFiles, NEW n \in DOMAIN new, new[n].key # "#"
    PROVE  Line(new[n].key, ValueIn(new, new[n].key)) = new[n]
<1> DEFINE same == {m \in DOMAIN new : new[m].key = new[n].key}
<1>1. new \in Seq(EnvLines) /\ KeysOnce(new) BY DEF EnvFiles
<1>2. \A m \in same : m = n BY <1>1 DEF KeysOnce
<1>3. same = {n} BY <1>2
<1>4. n \in Nat BY <1>1, LenProperties
<1>5. Max({n}) = n BY <1>4 DEF Max
<1>6. ValueIn(new, new[n].key) = new[n].value BY <1>3, <1>5 DEF ValueIn
<1>7. new[n] \in EnvLines BY <1>1, ElementOfSeq, LenProperties
<1>8. QED BY <1>6, <1>7, LinesAreLines

\* A merge keeps each line of the file at its place, but for the values of the keys that
\* are merged; it has every new line, and no key twice that the file did not have twice.
LEMMA MergedIs ==
    ASSUME NEW old \in Seq(EnvLines), NEW new \in FreshFiles
    PROVE  /\ Merged(old, new) \in Seq(EnvLines)
           /\ KeysOnce(old) => KeysOnce(Merged(old, new))
           /\ UserLines(Merged(old, new)) = UserLines(old)
           /\ HasAll(Merged(old, new), new)
<1> DEFINE kept(n) == IF old[n].key \notin Keys(new) THEN old[n]
                      ELSE Line(old[n].key, ValueIn(new, old[n].key))
           K == [n \in DOMAIN old |-> kept(n)]
           places == {n \in DOMAIN new : new[n].key \notin Keys(old)}
           A == Picked(new, places)
           M == K \o A
<1>1. /\ old \in Seq(EnvLines) /\ new \in Seq(EnvLines) /\ new \in EnvFiles
      /\ KeysOnce(new) /\ \A n \in DOMAIN new : new[n].key \notin {"#", "TOKEN"}
  BY DEF EnvFiles, FreshFiles
<1>2. /\ Len(old) \in Nat /\ DOMAIN old = 1..Len(old)
      /\ Len(new) \in Nat /\ DOMAIN new = 1..Len(new)
  BY <1>1, LenProperties
<1>3. \A n \in DOMAIN old : old[n] \in EnvLines BY <1>1, <1>2, ElementOfSeq
<1>4. \A n \in DOMAIN new : Line(new[n].key, ValueIn(new, new[n].key)) = new[n]
  BY <1>1, ValueOfLine
<1>5. \A n \in DOMAIN old : old[n].key \in Keys(new) =>
         \E m \in DOMAIN new : new[m].key = old[n].key /\ kept(n) = new[m]
  BY <1>4 DEF Keys
<1>6. \A n \in DOMAIN new : new[n] \in EnvLines BY <1>1, <1>2, ElementOfSeq
<1>7. \A n \in DOMAIN old : kept(n) \in EnvLines /\ kept(n).key = old[n].key
  BY <1>3, <1>5, <1>6
<1> HIDE DEF kept
<1>8. K \in Seq(EnvLines) /\ Len(K) = Len(old) BY <1>2, <1>7, IsASeq
<1>9. /\ A \in Seq(EnvLines) /\ Len(A) \in Nat
      /\ \E at \in [1..Len(A) -> places] :
            /\ \A k \in 1..Len(A) : A[k] = new[at[k]]
            /\ \A j, k \in 1..Len(A) : at[j] = at[k] => j = k
            /\ \A n \in places : \E k \in 1..Len(A) : at[k] = n
  <2>1. new \in Seq(EnvLines) /\ places \in SUBSET (DOMAIN new) BY <1>1
  <2> HIDE DEF places
  <2>2. QED BY <2>1, PickedPlaces
<1> HIDE DEF A
<1>10. PICK at \in [1..Len(A) -> places] :
            /\ \A k \in 1..Len(A) : A[k] = new[at[k]]
            /\ \A j, k \in 1..Len(A) : at[j] = at[k] => j = k
            /\ \A n \in places : \E k \in 1..Len(A) : at[k] = n
  BY <1>9
<1> HIDE DEF K
<1>11. /\ M \in Seq(EnvLines) /\ Len(M) = Len(old) + Len(A)
       /\ \A i \in 1..(Len(old) + Len(A)) : M[i] = IF i <= Len(old) THEN K[i] ELSE A[i - Len(old)]
  <2>1. K \in Seq(EnvLines) /\ A \in Seq(EnvLines) BY <1>8, <1>9
  <2>2. /\ M \in Seq(EnvLines) /\ Len(M) = Len(K) + Len(A)
        /\ \A i \in 1..(Len(K) + Len(A)) : M[i] = IF i <= Len(K) THEN K[i] ELSE A[i - Len(K)]
    BY <2>1, ConcatProperties
  <2>3. QED BY <2>2, <1>8
<1> HIDE DEF M
<1>12. DOMAIN M = 1..(Len(old) + Len(A)) BY <1>11, LenProperties
<1>13. \A i \in DOMAIN old : i \in DOMAIN M /\ M[i] = kept(i) /\ M[i].key = old[i].key
  BY <1>2, <1>7, <1>9, <1>11, <1>12 DEF K
<1>14. \A i \in DOMAIN M : i \notin DOMAIN old =>
          /\ i - Len(old) \in 1..Len(A) /\ at[i - Len(old)] \in places
          /\ M[i] = new[at[i - Len(old)]]
  <2> SUFFICES ASSUME NEW i \in DOMAIN M, i \notin DOMAIN old
               PROVE  /\ i - Len(old) \in 1..Len(A) /\ at[i - Len(old)] \in places
                      /\ M[i] = new[at[i - Len(old)]]
    OBVIOUS
  <2> HIDE DEF places
  <2>1. /\ i \in 1..(Len(old) + Len(A)) /\ ~(i <= Len(old))
        /\ i - Len(old) \in 1..Len(A)
    BY <1>2, <1>9, <1>12
  <2>2. M[i] = A[i - Len(old)] BY <1>11, <2>1
  <2>3. at[i - Len(old)] \in places BY <1>10, <2>1
  <2>4. QED BY <1>10, <2>1, <2>2, <2>3
<1>15. KeysOnce(old) => KeysOnce(M)
  <2> SUFFICES ASSUME KeysOnce(old), NEW j \in DOMAIN M, NEW k \in DOMAIN M,
                      M[j].key = M[k].key, M[j].key # "#"
               PROVE  j = k
    BY DEF KeysOnce
  <2>1. ASSUME NEW a \in DOMAIN M, NEW b \in DOMAIN M, a \in DOMAIN old, b \notin DOMAIN old,
               M[a].key = M[b].key, M[a].key # "#"
        PROVE  FALSE
    <3>1. M[a].key \in Keys(old) BY <1>13, <2>1 DEF Keys
    <3>2. M[b].key \notin Keys(old) BY <1>14, <2>1
    <3>3. QED BY <3>1, <3>2, <2>1
  <2>2. CASE j \in DOMAIN old /\ k \in DOMAIN old BY <2>2, <1>1, <1>13 DEF KeysOnce
  <2>3. CASE j \notin DOMAIN old /\ k \notin DOMAIN old
    <3>1. at[j - Len(old)] = at[k - Len(old)] BY <2>3, <1>1, <1>14 DEF KeysOnce
    <3>2. j - Len(old) = k - Len(old) BY <3>1, <1>10, <1>14, <2>3
    <3>3. QED BY <3>2, <1>2, <1>12, <1>9
  <2>4. QED BY <2>1, <2>2, <2>3
<1>16. UserLines(M) = UserLines(old)
  <2> DEFINE user == {"#", "TOKEN"}
  <2>1. \A i \in DOMAIN M : M[i].key \in user <=> i \in DOMAIN old /\ old[i].key \in user
    BY <1>1, <1>13, <1>14
  <2>2. {i \in DOMAIN M : M[i].key \in user} = {i \in DOMAIN old : old[i].key \in user}
    BY <2>1, <1>13
  <2>3. \A i \in DOMAIN old : old[i].key \in user => M[i] = old[i]
    <3> SUFFICES ASSUME NEW i \in DOMAIN old, old[i].key \in user PROVE M[i] = old[i] OBVIOUS
    <3>1. old[i].key \notin Keys(new) BY <1>1 DEF Keys
    <3>2. kept(i) = old[i] BY <3>1 DEF kept
    <3>3. QED BY <3>2, <1>13
  <2>4. QED BY <2>2, <2>3 DEF UserLines, Restrict
<1>17. HasAll(M, new)
  <2> SUFFICES ASSUME NEW n \in DOMAIN new PROVE \E k \in DOMAIN M : M[k] = new[n] BY DEF HasAll
  <2>1. CASE n \in places
    <3>1. PICK k \in 1..Len(A) : at[k] = n BY <1>10, <2>1
    <3>2. A[k] = new[n] BY <1>10, <3>1
    <3>3. /\ Len(old) + k \in 1..(Len(old) + Len(A)) /\ ~(Len(old) + k <= Len(old))
          /\ (Len(old) + k) - Len(old) = k
      BY <1>2, <1>9
    <3>3a. Len(old) + k \in DOMAIN M /\ M[Len(old) + k] = new[n]
      BY <3>2, <3>3, <1>11, <1>12
    <3>4. QED BY <3>3a
  <2>2. CASE n \notin places
    <3>1. PICK i \in DOMAIN old : old[i].key = new[n].key BY <2>2 DEF Keys
    <3>2. old[i].key \in Keys(new) BY <3>1, <1>1 DEF Keys
    <3>3. PICK m \in DOMAIN new : new[m].key = old[i].key /\ kept(i) = new[m] BY <1>5, <3>2 DEF kept
    <3>4. m = n BY <1>1, <3>1, <3>3 DEF KeysOnce
    <3>5. QED BY <3>3, <3>4, <1>13
  <2>3. QED BY <2>1, <2>2
<1>18. M = Merged(old, new) BY DEF M, K, A, kept, Merged
<1>19. QED BY <1>11, <1>15, <1>16, <1>17, <1>18

-----------------------------------------------------------------------------
(* Installation: the invariant                                             *)

HookEvents == ToSet(Events)
SettingsTexts ==
    [text : {"none", "whole", "empty", "torn"}, hooks : {h \in Seq(HookEvents) : IsInjective(h)},
     others : Nat]
ModesOrNone == InstallModes \union {NoMode}

BeforeRead ==
    [pc : {"env"}, open : {FALSE}, lines : FreshFiles, mode : ModesOrNone, alone : BOOLEAN]
AfterRead ==
    [pc : {"env"}, open : BOOLEAN, mode : ModesOrNone, alone : BOOLEAN, copy : Seq(EnvLines)]
AtScripts == [pc : {"scripts"}, open : {FALSE}, mode : InstallModes, alone : BOOLEAN]
InScript == [pc : {"scripts"}, open : {TRUE}, mode : InstallModes \X HookEvents, alone : BOOLEAN]
AtSettings ==
    [pc : {"settings"}, open : BOOLEAN, mode : InstallModes, alone : BOOLEAN,
     copy : {c \in SettingsTexts : c.text = "whole"}]
AtMcp == [pc : {"mcp"}, open : {FALSE}, mode : InstallModes, alone : BOOLEAN]
InstallStates ==
    {Installed} \union BeforeRead \union AfterRead \union AtScripts \union InScript
        \union AtSettings \union AtMcp

InstallTyped ==
    /\ env \in Seq(EnvLines) /\ settings \in SettingsTexts
    /\ scripts \in [HookEvents -> {"none", "torn", "whole"}]
    /\ installer \in [Installers -> InstallStates]
    /\ wizard \in ModesOrNone /\ settled \in ModesOrNone
    /\ retouched \in Nat
    /\ settings.text = "none" <=> settings = NoSettings

\* Whoever holds a copy of the env file holds the user's lines, and nobody else has one.
UserLinesKept ==
    "env" \notin overlapped \union cut =>
       /\ (\A p \in Installers : ~Writing(p, "env")) => UserLines(env) = authored
       /\ \A p \in Installers : Reads(p, "env") =>
             /\ UserLines(installer[p].copy) = authored
             /\ \A q \in Installers : Reads(q, "env") => q = p
             /\ installer[p].open => env = <<>>

\* A file that was not left with the end of another's text has no key twice, and no copy
\* of it has.
KeysKept ==
    "env" \notin overlaid =>
       /\ KeysOnce(env)
       /\ \A p \in Installers : Reads(p, "env") => KeysOnce(installer[p].copy)

HooksDone == settings # NoSettings => ToSet(settings.hooks) = HookEvents

TextDone == settings # NoSettings => settings.text = "whole"

\* What a run has to do, and has done.
ModeOf(rec) == IF rec.pc = "scripts" /\ rec.open THEN rec.mode[1] ELSE rec.mode
RunKept(p) ==
    LET rec == installer[p] IN
    /\ rec # Installed /\ rec.alone =>
          \A q \in Installers : q # p => installer[q] = Installed
    /\ rec.pc = "env" /\ rec.mode # NoMode =>
          IF "copy" \in DOMAIN rec THEN HasAll(rec.copy, EnvLinesOf[rec.mode])
          ELSE rec.lines = EnvLinesOf[rec.mode]
    /\ rec.pc \in {"scripts", "settings", "mcp"} /\ rec.alone =>
          HasAll(env, EnvLinesOf[ModeOf(rec)])
    /\ rec.pc = "settings" /\ rec.open /\ rec.alone => settings.text = "empty"
    /\ rec.pc = "mcp" => HooksDone
    /\ rec.pc = "mcp" /\ rec.alone => TextDone
RunsKept ==
    /\ \A p \in Installers : RunKept(p)
    /\ settled # NoMode =>
          /\ HasAll(env, EnvLinesOf[settled]) /\ HooksDone /\ TextDone
          /\ \A p \in Installers : installer[p] = Installed

ScriptsKept ==
    /\ \A e \in HookEvents : scripts[e] = "torn" =>
          "scripts" \in cut
             \/ \E p \in Installers : Writing(p, "scripts") /\ installer[p].mode[2] = e
    /\ \A p \in Installers : installer[p].pc = "settings" =>
          settings # NoSettings /\ \A e \in HookEvents : scripts[e] # "none"
    /\ \A e \in ToSet(settings.hooks) : scripts[e] # "none"

SettingsKept ==
    /\ settings.text = "empty" =>
          "settings" \in cut \/ \E p \in Installers : Writing(p, "settings")
    /\ settings.text = "torn" => "settings" \in overlapped /\ "settings" \in overlaid
    /\ "settings" \notin overlapped =>
          /\ settings.text = "whole" => settings.others = retouched
          /\ \A p \in Installers : Reads(p, "settings") =>
                /\ installer[p].copy.others = retouched
                /\ \A q \in Installers : Reads(q, "settings") => q = p
                /\ installer[p].open => settings.text = "empty"

InstallIInv ==
    InstallTyped /\ UserLinesKept /\ KeysKept /\ RunsKept /\ ScriptsKept /\ SettingsKept

LEMMA RunFacts ==
    /\ Installed.pc = "idle"
    /\ \A rec \in BeforeRead :
          /\ rec.pc = "env" /\ rec.open = FALSE /\ "copy" \notin DOMAIN rec
          /\ rec.lines \in FreshFiles /\ rec.mode \in ModesOrNone /\ rec.alone \in BOOLEAN
    /\ \A rec \in AfterRead :
          /\ rec.pc = "env" /\ rec.open \in BOOLEAN /\ "copy" \in DOMAIN rec
          /\ rec.copy \in Seq(EnvLines) /\ rec.mode \in ModesOrNone /\ rec.alone \in BOOLEAN
    /\ \A rec \in AtScripts :
          /\ rec.pc = "scripts" /\ rec.open = FALSE /\ "copy" \notin DOMAIN rec
          /\ rec.mode \in InstallModes /\ rec.alone \in BOOLEAN
    /\ \A rec \in InScript :
          /\ rec.pc = "scripts" /\ rec.open = TRUE /\ "copy" \notin DOMAIN rec
          /\ rec.mode \in InstallModes \X HookEvents /\ rec.alone \in BOOLEAN
    /\ \A rec \in AtSettings :
          /\ rec.pc = "settings" /\ rec.open \in BOOLEAN /\ "copy" \in DOMAIN rec
          /\ rec.mode \in InstallModes /\ rec.alone \in BOOLEAN
          /\ rec.copy \in SettingsTexts /\ rec.copy.text = "whole"
    /\ \A rec \in AtMcp :
          /\ rec.pc = "mcp" /\ rec.open = FALSE /\ "copy" \notin DOMAIN rec
          /\ rec.mode \in InstallModes /\ rec.alone \in BOOLEAN
<1>1. Installed.pc = "idle" BY DEF Installed
<1>2. \A rec \in BeforeRead :
          /\ rec.pc = "env" /\ rec.open = FALSE /\ "copy" \notin DOMAIN rec
          /\ rec.lines \in FreshFiles /\ rec.mode \in ModesOrNone /\ rec.alone \in BOOLEAN
  BY DEF BeforeRead
<1>3. \A rec \in AfterRead :
          /\ rec.pc = "env" /\ rec.open \in BOOLEAN /\ "copy" \in DOMAIN rec
          /\ rec.copy \in Seq(EnvLines) /\ rec.mode \in ModesOrNone /\ rec.alone \in BOOLEAN
  BY DEF AfterRead
<1>4. \A rec \in AtScripts :
          /\ rec.pc = "scripts" /\ rec.open = FALSE /\ "copy" \notin DOMAIN rec
          /\ rec.mode \in InstallModes /\ rec.alone \in BOOLEAN
  BY DEF AtScripts
<1>5. \A rec \in InScript :
          /\ rec.pc = "scripts" /\ rec.open = TRUE /\ "copy" \notin DOMAIN rec
          /\ rec.mode \in InstallModes \X HookEvents /\ rec.alone \in BOOLEAN
  BY DEF InScript
<1>6. \A rec \in AtSettings :
          /\ rec.pc = "settings" /\ rec.open \in BOOLEAN /\ "copy" \in DOMAIN rec
          /\ rec.mode \in InstallModes /\ rec.alone \in BOOLEAN
          /\ rec.copy \in SettingsTexts /\ rec.copy.text = "whole"
  BY DEF AtSettings
<1>7. \A rec \in AtMcp :
          /\ rec.pc = "mcp" /\ rec.open = FALSE /\ "copy" \notin DOMAIN rec
          /\ rec.mode \in InstallModes /\ rec.alone \in BOOLEAN
  BY DEF AtMcp
<1>8. QED BY <1>1, <1>2, <1>3, <1>4, <1>5, <1>6, <1>7

LEMMA RunIs ==
    ASSUME NEW rec \in InstallStates
    PROVE  /\ rec.pc \in {"idle", "env", "scripts", "settings", "mcp"}
           /\ rec = Installed <=> rec.pc = "idle"
           /\ rec # Installed => rec.open \in BOOLEAN /\ rec.alone \in BOOLEAN
           /\ rec.pc = "env" /\ "copy" \notin DOMAIN rec => rec \in BeforeRead
           /\ rec.pc = "env" /\ "copy" \in DOMAIN rec => rec \in AfterRead
           /\ rec.pc = "env" /\ rec.open => "copy" \in DOMAIN rec
           /\ rec.pc = "scripts" /\ ~rec.open => rec \in AtScripts
           /\ rec.pc = "scripts" /\ rec.open => rec \in InScript
           /\ rec.pc = "settings" => rec \in AtSettings
           /\ rec.pc = "mcp" => rec \in AtMcp
<1>1. CASE rec \in BeforeRead BY <1>1, RunFacts
<1>2. CASE rec \in AfterRead BY <1>2, RunFacts
<1>3. CASE rec \in AtScripts BY <1>3, RunFacts
<1>4. CASE rec \in InScript BY <1>4, RunFacts
<1>5. CASE rec \in AtSettings BY <1>5, RunFacts
<1>6. CASE rec \in AtMcp BY <1>6, RunFacts
<1>7. CASE rec = Installed BY <1>7, RunFacts
<1>8. QED BY <1>1, <1>2, <1>3, <1>4, <1>5, <1>6, <1>7 DEF InstallStates

LEMMA ModesFresh ==
    ASSUME NEW mode \in InstallModes
    PROVE  EnvLinesOf[mode] \in FreshFiles
<1>1. mode \in {"local", "vps_cpu", "mac_mlx"} BY InstallationBounds
<1>2. ASSUME NEW L, L \in Seq(EnvLines), NEW n \in Nat, Len(L) = n,
             \A k \in 1..n : L[k].key \notin {"#", "TOKEN"},
             \A j, k \in 1..n : L[j].key = L[k].key => j = k
      PROVE  L \in FreshFiles
  <2>1. DOMAIN L = 1..n BY <1>2, LenProperties
  <2>2. QED BY <1>2, <2>1 DEF FreshFiles, EnvFiles, KeysOnce
<1>4. CASE mode = "local"
  <2> DEFINE a == Line("MODE", "local")
             b == Line("GRAPH", "true")
             L == <<a, b>>
  <2>1. EnvLinesOf[mode] = L BY <1>4 DEF EnvLinesOf
  <2>2. /\ a \in EnvLines /\ a.key = "MODE"
        /\ b \in EnvLines /\ b.key = "GRAPH"
    BY DEF Line, EnvLines, FreshLines
  <2> HIDE DEF a, b
  <2>3. L \in Seq(EnvLines) /\ Len(L) = 2 BY <2>2
  <2>4. L[1].key = "MODE" /\ L[2].key = "GRAPH" BY <2>2
  <2> HIDE DEF L
  <2>5. \A k \in 1..2 : k = 1 \/ k = 2 OBVIOUS
  <2>6. L \in FreshFiles BY <1>2, <2>3, <2>4, <2>5
  <2>7. QED BY <2>1, <2>6
<1>5. CASE mode = "vps_cpu"
  <2> DEFINE a == Line("MODE", "vps_cpu")
             b == Line("RERANKER", "true")
             c == Line("GRAPH", "true")
             L == <<a, b, c>>
  <2>1. EnvLinesOf[mode] = L BY <1>5 DEF EnvLinesOf
  <2>2. /\ a \in EnvLines /\ a.key = "MODE"
        /\ b \in EnvLines /\ b.key = "RERANKER"
        /\ c \in EnvLines /\ c.key = "GRAPH"
    BY DEF Line, EnvLines, FreshLines
  <2> HIDE DEF a, b, c
  <2>3. L \in Seq(EnvLines) /\ Len(L) = 3 BY <2>2
  <2>4. L[1].key = "MODE" /\ L[2].key = "RERANKER" /\ L[3].key = "GRAPH" BY <2>2
  <2> HIDE DEF L
  <2>5. \A k \in 1..3 : k = 1 \/ k = 2 \/ k = 3 OBVIOUS
  <2>6. L \in FreshFiles BY <1>2, <2>3, <2>4, <2>5
  <2>7. QED BY <2>1, <2>6
<1>6. CASE mode = "mac_mlx"
  <2> DEFINE a == Line("MODE", "mac_mlx")
             b == Line("RERANKER", "true")
             c == Line("GRAPH", "true")
             d == Line("URL", "8000")
             L == <<a, b, c, d>>
  <2>1. EnvLinesOf[mode] = L BY <1>6 DEF EnvLinesOf
  <2>2. /\ a \in EnvLines /\ a.key = "MODE"
        /\ b \in EnvLines /\ b.key = "RERANKER"
        /\ c \in EnvLines /\ c.key = "GRAPH"
        /\ d \in EnvLines /\ d.key = "URL"
    BY DEF Line, EnvLines, FreshLines
  <2> HIDE DEF a, b, c, d
  <2>3. L \in Seq(EnvLines) /\ Len(L) = 4 BY <2>2
  <2>4. L[1].key = "MODE" /\ L[2].key = "RERANKER" /\ L[3].key = "GRAPH" /\ L[4].key = "URL" BY <2>2
  <2> HIDE DEF L
  <2>5. \A k \in 1..4 : k = 1 \/ k = 2 \/ k = 3 \/ k = 4 OBVIOUS
  <2>6. L \in FreshFiles BY <1>2, <2>3, <2>4, <2>5
  <2>7. QED BY <2>1, <2>6
<1>7. QED BY <1>1, <1>4, <1>5, <1>6

LEMMA ModeNames == NoMode \notin InstallModes
BY InstallationBounds DEF NoMode

\* What the wizard saves.
LEMMA ValuesFresh ==
    ASSUME NEW values \in {<<>>, <<Line("API_KEY", "k")>>}, NEW mode, NEW ifMode \in BOOLEAN,
           ifMode \/ mode \in InstallModes
    PROVE  values \o (IF ifMode THEN <<>> ELSE <<Line("MODE", mode)>>) \in FreshFiles
<1> DEFINE tail == IF ifMode THEN <<>> ELSE <<Line("MODE", mode)>>
           L == values \o tail
<1>1. /\ values \in Seq(EnvLines)
      /\ Len(values) = 0 \/ (Len(values) = 1 /\ values[1].key = "API_KEY")
  <2> DEFINE a == Line("API_KEY", "k")
  <2>1. a \in EnvLines /\ a.key = "API_KEY" BY DEF Line, EnvLines, FreshLines
  <2> HIDE DEF a
  <2>2. <<a>> \in Seq(EnvLines) /\ Len(<<a>>) = 1 /\ <<a>>[1] = a BY <2>1
  <2>3. <<>> \in Seq(EnvLines) /\ Len(<<>>) = 0 OBVIOUS
  <2>4. values = <<>> \/ values = <<a>> BY DEF a
  <2>5. CASE values = <<>> BY <2>3, <2>5
  <2>6. CASE values = <<a>> BY <2>1, <2>2, <2>6
  <2>7. QED BY <2>4, <2>5, <2>6
<1>2. tail \in Seq(EnvLines) /\ (Len(tail) = 0 \/ (Len(tail) = 1 /\ tail[1].key = "MODE"))
  <2> DEFINE a == Line("MODE", mode)
  <2>1. ~ifMode => a \in EnvLines /\ a.key = "MODE"
    BY InstallationBounds DEF Line, EnvLines, FreshLines
  <2> HIDE DEF a
  <2>2. ~ifMode => <<a>> \in Seq(EnvLines) /\ Len(<<a>>) = 1 /\ <<a>>[1] = a BY <2>1
  <2>3. <<>> \in Seq(EnvLines) /\ Len(<<>>) = 0 OBVIOUS
  <2>4. tail = <<>> \/ (~ifMode /\ tail = <<a>>) BY DEF a
  <2>5. CASE tail = <<>> BY <2>3, <2>5
  <2>6. CASE ~ifMode /\ tail = <<a>> BY <2>1, <2>2, <2>6
  <2>7. QED BY <2>4, <2>5, <2>6
<1>3. Len(values) \in {0, 1} /\ Len(tail) \in {0, 1} BY <1>1, <1>2
<1>3a. \A a, b \in {0, 1} : \A i \in 1..(a + b) :
          /\ i <= a => i = 1 /\ a = 1
          /\ ~(i <= a) => i = a + 1 /\ b = 1 /\ i - a = 1
  OBVIOUS
<1> HIDE DEF tail
<1>4. /\ L \in Seq(EnvLines) /\ Len(L) = Len(values) + Len(tail)
      /\ \A i \in 1..(Len(values) + Len(tail)) :
            L[i] = IF i <= Len(values) THEN values[i] ELSE tail[i - Len(values)]
  BY <1>1, <1>2, ConcatProperties
<1> HIDE DEF L
<1>5. DOMAIN L = 1..Len(L) BY <1>4, LenProperties
<1>6. \A i \in DOMAIN L :
         \/ i = 1 /\ Len(values) = 1 /\ L[i].key = "API_KEY"
         \/ i = Len(values) + 1 /\ L[i].key = "MODE"
  <2> SUFFICES ASSUME NEW i \in DOMAIN L
               PROVE  \/ i = 1 /\ Len(values) = 1 /\ L[i].key = "API_KEY"
                      \/ i = Len(values) + 1 /\ L[i].key = "MODE"
    OBVIOUS
  <2>1. i \in 1..(Len(values) + Len(tail)) BY <1>4, <1>5
  <2>2. CASE i <= Len(values)
    <3>1. i = 1 /\ Len(values) = 1 BY <1>3, <1>3a, <2>1, <2>2
    <3>2. QED BY <1>1, <1>4, <2>1, <2>2, <3>1
  <2>3. CASE ~(i <= Len(values))
    <3>1. i = Len(values) + 1 /\ Len(tail) = 1 /\ i - Len(values) = 1
      BY <1>3, <1>3a, <2>1, <2>3
    <3>2. QED BY <1>2, <1>4, <2>1, <2>3, <3>1
  <2>4. QED BY <2>2, <2>3
<1>7. KeysOnce(L) /\ \A n \in DOMAIN L : L[n].key \notin {"#", "TOKEN"}
  BY <1>6 DEF KeysOnce
<1>8. QED BY <1>4, <1>7 DEF FreshFiles, EnvFiles, L, tail

LEMMA EmptyIsFile == <<>> \in Seq(EnvLines) /\ KeysOnce(<<>>)
BY DEF KeysOnce

LEMMA InstallInitIInv == InstallationInit => InstallIInv
<1> SUFFICES ASSUME InstallationInit PROVE InstallIInv OBVIOUS
<1>1. env \in Seq(EnvLines) /\ KeysOnce(env)
  <2>1. /\ env \in AtFirst /\ env \in Seq([key : STRING, value : STRING]) /\ KeysOnce(env)
    BY FilesAtFirst DEF InstallationInit, KeysOnce
  <2>2. \A n \in DOMAIN env : env[n] \in EnvLines BY <2>1 DEF EnvLines, ToSet
  <2>3. Len(env) \in Nat /\ DOMAIN env = 1..Len(env) /\ env = [n \in 1..Len(env) |-> env[n]]
    BY <2>1, LenProperties
  <2>4. [n \in 1..Len(env) |-> env[n]] \in Seq(EnvLines) BY <2>2, <2>3, IsASeq
  <2>5. QED BY <2>1, <2>3, <2>4
<1>2. <<>> \in {h \in Seq(HookEvents) : IsInjective(h)} BY DEF IsInjective
<1>3. settings \in SettingsTexts /\ (settings.text = "none" <=> settings = NoSettings)
  <2> DEFINE fresh == [text |-> "whole", hooks |-> <<>>, others |-> 0]
  <2>1. fresh \in SettingsTexts /\ fresh.text = "whole" BY <1>2 DEF SettingsTexts
  <2>2. NoSettings \in SettingsTexts /\ NoSettings.text = "none"
    BY <1>2 DEF SettingsTexts, NoSettings
  <2>3. settings = fresh \/ settings = NoSettings BY DEF InstallationInit
  <2> HIDE DEF fresh
  <2>4. QED BY <2>1, <2>2, <2>3
<1>4. /\ scripts \in [HookEvents -> {"none", "torn", "whole"}]
      /\ \A e \in HookEvents : scripts[e] = "none"
  BY DEF InstallationInit, HookEvents
<1>5. installer \in [Installers -> InstallStates] /\ \A p \in Installers : installer[p] = Installed
  BY DEF InstallationInit, InstallStates
<1>6. InstallTyped BY <1>1, <1>3, <1>4, <1>5 DEF InstallationInit, InstallTyped, ModesOrNone
<1>7. Installed.pc = "idle" BY DEF Installed
<1>8. \A p \in Installers, file \in {"env", "settings", "scripts"} :
         ~Writing(p, file) /\ ~Reads(p, file)
  BY <1>5, <1>7 DEF Writing, Reads
<1>9. UserLinesKept BY <1>8 DEF UserLinesKept, InstallationInit
<1>9a. KeysKept BY <1>1, <1>8 DEF KeysKept
<1>10. RunsKept BY <1>5, <1>7 DEF RunsKept, RunKept, InstallationInit
<1>11. ToSet(settings.hooks) = {} BY DEF ToSet, InstallationInit, NoSettings
<1>12. ScriptsKept BY <1>4, <1>5, <1>7, <1>11 DEF ScriptsKept
<1>13. settings.text \notin {"empty", "torn"} /\ settings.others = 0 BY DEF InstallationInit, NoSettings
<1>14. SettingsKept BY <1>8, <1>13 DEF SettingsKept, InstallationInit
<1>15. QED BY <1>6, <1>9, <1>9a, <1>10, <1>12, <1>14 DEF InstallIInv

-----------------------------------------------------------------------------
(* Installation: what a step of one process leaves as it was               *)

AsBefore(q) ==
    /\ installer'[q].pc = installer[q].pc /\ installer'[q].open = installer[q].open
    /\ DOMAIN installer'[q] = DOMAIN installer[q] /\ installer'[q].copy = installer[q].copy
    /\ installer'[q].mode = installer[q].mode /\ installer'[q].lines = installer[q].lines
OthersAsBefore(p) == \A q \in Installers : q # p => AsBefore(q)

LEMMA GoingTo ==
    ASSUME InstallTyped, NEW p \in Installers, NEW next, GoesTo(p, next)
    PROVE  /\ installer'[p] = next
           /\ \A q \in Installers : q # p => installer'[q] = installer[q]
           /\ next \in InstallStates => installer' \in [Installers -> InstallStates]
BY DEF GoesTo, InstallTyped

LEMMA OthersUnmoved ==
    ASSUME NEW p \in Installers, \A q \in Installers : q # p => installer'[q] = installer[q]
    PROVE  OthersAsBefore(p)
BY DEF OthersAsBefore, AsBefore

LEMMA UserLinesFrame ==
    ASSUME UserLinesKept, NEW p \in Installers, OthersAsBefore(p),
           ~Reads(p, "env"), ~Writing(p, "env"), ~Reads(p, "env")', ~Writing(p, "env")',
           UNCHANGED <<env, authored>>,
           "env" \in overlapped \union cut => "env" \in overlapped' \union cut'
    PROVE  UserLinesKept'
<1>1. \A q \in Installers : q # p =>
         /\ Reads(q, "env")' <=> Reads(q, "env")
         /\ Writing(q, "env")' <=> Writing(q, "env")
         /\ installer'[q].copy = installer[q].copy /\ installer'[q].open = installer[q].open
  BY DEF OthersAsBefore, AsBefore, Reads, Writing
<1>2. QED BY <1>1 DEF UserLinesKept

LEMMA KeysFrame ==
    ASSUME KeysKept, NEW p \in Installers, OthersAsBefore(p), ~Reads(p, "env")',
           env' = env, overlaid' = overlaid \/ overlaid' = overlaid \union {"settings"}
    PROVE  KeysKept'
<1>1. \A q \in Installers : q # p =>
         /\ Reads(q, "env")' <=> Reads(q, "env")
         /\ installer'[q].copy = installer[q].copy
  BY DEF OthersAsBefore, AsBefore, Reads
<1>2. QED BY <1>1 DEF KeysKept

LEMMA ScriptsFrame ==
    ASSUME ScriptsKept, NEW p \in Installers, OthersAsBefore(p),
           ~Writing(p, "scripts"), installer[p].pc # "settings", installer'[p].pc # "settings",
           UNCHANGED <<scripts, settings>>, "scripts" \in cut => "scripts" \in cut'
    PROVE  ScriptsKept'
<1>1. \A q \in Installers : q # p =>
         /\ Writing(q, "scripts") => Writing(q, "scripts")'
         /\ installer'[q].mode = installer[q].mode /\ installer'[q].pc = installer[q].pc
  BY DEF OthersAsBefore, AsBefore, Writing
<1>2. QED BY <1>1 DEF ScriptsKept

LEMMA SettingsFrame ==
    ASSUME SettingsKept, NEW p \in Installers, OthersAsBefore(p),
           ~Writing(p, "settings"), ~Reads(p, "settings")',
           UNCHANGED <<settings, retouched>>, "settings" \in cut => "settings" \in cut',
           "settings" \in overlapped => "settings" \in overlapped',
           "settings" \in overlaid => "settings" \in overlaid'
    PROVE  SettingsKept'
<1>1. \A q \in Installers : q # p =>
         /\ Reads(q, "settings")' <=> Reads(q, "settings")
         /\ Writing(q, "settings")' <=> Writing(q, "settings")
         /\ installer'[q].copy = installer[q].copy /\ installer'[q].open = installer[q].open
  BY DEF OthersAsBefore, AsBefore, Reads, Writing
<1>2. QED BY <1>1 DEF SettingsKept

\* A process that is running settles nothing; no other one is alone.
LEMMA RunsFrame ==
    ASSUME InstallTyped, RunsKept, NEW p \in Installers, installer[p] # Installed,
           \A q \in Installers : q # p => installer'[q] = installer[q],
           HooksDone => HooksDone', settled' = settled, RunKept(p)'
    PROVE  RunsKept'
<1>1. settled = NoMode BY DEF RunsKept
<1>2. ASSUME NEW q \in Installers, q # p PROVE RunKept(q)'
  <2>1. RunKept(q) /\ installer'[q] = installer[q] BY <1>2 DEF RunsKept
  <2>2. installer[q] \in InstallStates BY DEF InstallTyped
  <2>3. CASE installer[q] = Installed BY <2>1, <2>3, RunFacts DEF RunKept
  <2>4. CASE installer[q] # Installed
    <3>1. ~installer[q].alone BY <2>1, <2>4, <1>2 DEF RunKept
    <3>2. QED BY <2>1, <3>1 DEF RunKept
  <2>5. QED BY <2>3, <2>4
<1>3. QED BY <1>1, <1>2 DEF RunsKept

-----------------------------------------------------------------------------
(* Installation: every step keeps the invariant                            *)

\* A run that starts holds no copy; the others only learn that they are not alone.
LEMMA RunStarts ==
    ASSUME InstallIInv, NEW p \in Installers, installer[p] = Installed,
           NEW lines \in FreshFiles, NEW mode \in ModesOrNone, StartsRun(p, lines, mode),
           mode # NoMode => lines = EnvLinesOf[mode],
           UNCHANGED <<env, settings, scripts, wizard, historyOfInstalls>>
    PROVE  InstallIInv'
<1> USE DEF InstallIInv
<1> DEFINE next == [pc |-> "env", open |-> FALSE, lines |-> lines, mode |-> mode,
                    alone |-> \A o \in Installers : installer[o] = Installed]
<1>1. next \in BeforeRead BY DEF BeforeRead
<1> HIDE DEF next
<1>2. \A q \in Installers : installer'[q] =
         IF q = p THEN next
         ELSE IF installer[q] = Installed THEN Installed
         ELSE [installer[q] EXCEPT !.alone = FALSE]
  BY DEF StartsRun, next
<1>3. \A q \in Installers : q # p => AsBefore(q) /\ installer'[q] \in InstallStates
  <2> SUFFICES ASSUME NEW q \in Installers, q # p
               PROVE  AsBefore(q) /\ installer'[q] \in InstallStates
    OBVIOUS
  <2> DEFINE rec == installer[q]
             then == [rec EXCEPT !.alone = FALSE]
  <2>1. rec \in InstallStates BY DEF InstallTyped
  <2>2. CASE rec = Installed BY <1>2, <2>1, <2>2 DEF AsBefore
  <2>3. CASE rec # Installed
    <3>1. installer'[q] = then BY <1>2, <2>3
    <3>2. /\ then.pc = rec.pc /\ then.open = rec.open /\ DOMAIN then = DOMAIN rec
          /\ then.copy = rec.copy /\ then.mode = rec.mode /\ then.lines = rec.lines
      OBVIOUS
    <3>3. CASE rec \in BeforeRead
      <4>1. then \in BeforeRead BY <3>3 DEF BeforeRead
      <4>2. QED BY <4>1, <3>1, <3>2 DEF AsBefore, InstallStates
    <3>4. CASE rec \in AfterRead
      <4>1. then \in AfterRead BY <3>4 DEF AfterRead
      <4>2. QED BY <4>1, <3>1, <3>2 DEF AsBefore, InstallStates
    <3>5. CASE rec \in AtScripts
      <4>1. then \in AtScripts BY <3>5 DEF AtScripts
      <4>2. QED BY <4>1, <3>1, <3>2 DEF AsBefore, InstallStates
    <3>6. CASE rec \in InScript
      <4>1. then \in InScript BY <3>6 DEF InScript
      <4>2. QED BY <4>1, <3>1, <3>2 DEF AsBefore, InstallStates
    <3>7. CASE rec \in AtSettings
      <4>1. then \in AtSettings BY <3>7 DEF AtSettings
      <4>2. QED BY <4>1, <3>1, <3>2 DEF AsBefore, InstallStates
    <3>8. CASE rec \in AtMcp
      <4>1. then \in AtMcp BY <3>8 DEF AtMcp
      <4>2. QED BY <4>1, <3>1, <3>2 DEF AsBefore, InstallStates
    <3>9. QED BY <2>1, <2>3, <3>3, <3>4, <3>5, <3>6, <3>7, <3>8 DEF InstallStates
  <2>4. QED BY <2>2, <2>3
<1>4. installer'[p] = next /\ next \in InstallStates BY <1>1, <1>2 DEF InstallStates
<1>5. installer' \in [Installers -> InstallStates]
  <2>1. installer' = [q \in Installers |-> installer'[q]] BY DEF StartsRun
  <2>2. QED BY <2>1, <1>3, <1>4
<1>6. InstallTyped'
  <2>1. settled' \in ModesOrNone BY DEF StartsRun, ModesOrNone
  <2>2. QED BY <1>5, <2>1 DEF InstallTyped, historyOfInstalls
<1>7. OthersAsBefore(p) BY <1>3 DEF OthersAsBefore
<1>8. \A file \in {"env", "scripts", "settings"} :
         /\ ~Reads(p, file) /\ ~Writing(p, file) /\ ~Reads(p, file)' /\ ~Writing(p, file)'
  BY <1>1, <1>4, RunFacts DEF Reads, Writing
<1>9. UserLinesKept' BY <1>7, <1>8, UserLinesFrame DEF historyOfInstalls
<1>9a. KeysKept' BY <1>7, <1>8, KeysFrame DEF historyOfInstalls
<1>10. ScriptsKept'
  <2>1. installer[p].pc # "settings" /\ installer'[p].pc # "settings" BY <1>1, <1>4, RunFacts
  <2>2. QED BY <1>7, <1>8, <2>1, ScriptsFrame DEF historyOfInstalls
<1>11. SettingsKept' BY <1>7, <1>8, SettingsFrame DEF historyOfInstalls
<1>12. ASSUME NEW q \in Installers, q # p PROVE RunKept(q)'
  <2>1. CASE installer[q] = Installed
    <3>1. installer'[q] = Installed BY <1>2, <1>12, <2>1
    <3>2. QED BY <3>1, RunFacts DEF RunKept
  <2>2. CASE installer[q] # Installed
    <3>1. installer[q] \in InstallStates BY DEF InstallTyped
    <3>2. "alone" \in DOMAIN installer[q]
      BY <3>1, <2>2 DEF InstallStates, BeforeRead, AfterRead, AtScripts, InScript,
                        AtSettings, AtMcp
    <3>3. installer'[q].alone = FALSE BY <1>2, <1>12, <2>2, <3>2
    <3>4. RunKept(q) /\ AsBefore(q) BY <1>3, <1>12 DEF RunsKept
    <3>5. HooksDone' = HooksDone BY DEF HooksDone
    <3>6. QED BY <3>3, <3>4, <3>5 DEF RunKept, AsBefore
  <2>3. QED BY <2>1, <2>2
<1>13. RunKept(p)'
  <2>1. next.pc = "env" /\ next.lines = lines /\ next.mode = mode /\ "copy" \notin DOMAIN next
    BY DEF next
  <2>2. next.alone => \A q \in Installers : q # p => installer'[q] = Installed
    BY <1>2 DEF next
  <2>3. QED BY <1>4, <2>1, <2>2 DEF RunKept
<1>14. RunsKept' BY <1>12, <1>13 DEF RunsKept, StartsRun
<1>15. QED BY <1>6, <1>9, <1>9a, <1>10, <1>11, <1>14

LEMMA InstallBeginKeeps ==
    ASSUME InstallIInv, NEW p \in Installers, NEW mode \in InstallModes, Begin(p, mode)
    PROVE  InstallIInv'
<1>1. EnvLinesOf[mode] \in FreshFiles BY ModesFresh
<1>2. mode \in ModesOrNone BY DEF ModesOrNone
<1>3. QED BY <1>1, <1>2, RunStarts DEF Begin

LEMMA InstallSaveKeeps ==
    ASSUME InstallIInv, NEW values \in {<<>>, <<Line("API_KEY", "k")>>}, SaveValues(values)
    PROVE  InstallIInv'
<1> DEFINE lines == values \o IF wizard = NoMode THEN <<>> ELSE <<Line("MODE", wizard)>>
<1>1. wizard \in ModesOrNone BY DEF InstallIInv, InstallTyped
<1>2. lines \in FreshFiles
  <2>1. wizard = NoMode \/ wizard \in InstallModes BY <1>1 DEF ModesOrNone
  <2>2. (wizard = NoMode) \in BOOLEAN OBVIOUS
  <2>3. QED BY <2>1, <2>2, ValuesFresh
<1> HIDE DEF lines
<1>3. "ui" \in Installers /\ installer["ui"] = Installed /\ StartsRun("ui", lines, NoMode)
  BY DEF SaveValues, lines
<1>4. NoMode \in ModesOrNone BY DEF ModesOrNone
<1>5. QED BY <1>2, <1>3, <1>4, RunStarts DEF SaveValues

LEMMA InstallReadEnvKeeps ==
    ASSUME InstallIInv, NEW p \in Installers, ReadEnv(p)
    PROVE  InstallIInv'
<1> USE DEF InstallIInv
<1> DEFINE rec == installer[p]
           copied == IF env = NoEnv THEN rec.lines ELSE Merged(env, rec.lines)
           next == [pc |-> "env", open |-> FALSE, mode |-> rec.mode, alone |-> rec.alone,
                    copy |-> copied]
<1>1. /\ rec.pc = "env" /\ ~Reads(p, "env") /\ ~rec.open /\ GoesTo(p, next)
      /\ overlapped' = IF Meets(p, "env") THEN overlapped \union {"env"} ELSE overlapped
      /\ UNCHANGED <<env, settings, scripts, wizard, settled, installs, authored,
                     retouched, overlaid, cut, kills>>
  BY DEF ReadEnv
<1>2. rec \in InstallStates /\ env \in Seq(EnvLines) BY DEF InstallTyped
<1>3. rec \in BeforeRead BY <1>1, <1>2, RunIs DEF Reads
<1>4. /\ rec.lines \in FreshFiles /\ rec.mode \in ModesOrNone /\ rec.alone \in BOOLEAN
      /\ rec.open = FALSE /\ "copy" \notin DOMAIN rec
  BY <1>3, RunFacts
<1>5. /\ copied \in Seq(EnvLines) /\ UserLines(copied) = UserLines(env)
      /\ HasAll(copied, rec.lines)
      /\ KeysOnce(env) => KeysOnce(copied)
  <2>1. CASE env = NoEnv
    <3>1. copied = rec.lines BY <2>1
    <3>2. {n \in DOMAIN copied : copied[n].key \in {"#", "TOKEN"}} = {}
      BY <1>4, <3>1 DEF FreshFiles
    <3>3. {n \in DOMAIN env : env[n].key \in {"#", "TOKEN"}} = {}
      <4> DEFINE a == [key |-> "no file", value |-> ""]
      <4>1. a.key = "no file" OBVIOUS
      <4> HIDE DEF a
      <4>2. <<a>> \in Seq({a}) /\ Len(<<a>>) = 1 /\ <<a>>[1] = a OBVIOUS
      <4>3. DOMAIN <<a>> = 1..1 BY <4>2, LenProperties
      <4>4. \A n \in 1..1 : n = 1 OBVIOUS
      <4>5. env = <<a>> BY <2>1 DEF NoEnv, a
      <4>6. QED BY <4>1, <4>2, <4>3, <4>4, <4>5
    <3>4. UserLines(copied) = UserLines(env) BY <3>2, <3>3 DEF UserLines, Restrict
    <3>5. QED BY <1>4, <3>1, <3>4 DEF FreshFiles, EnvFiles, HasAll
  <2>2. CASE env # NoEnv BY <1>2, <1>4, <2>2, MergedIs
  <2>3. QED BY <2>1, <2>2
<1> HIDE DEF copied
<1>6. next \in AfterRead BY <1>4, <1>5 DEF AfterRead
<1>7. /\ next.pc = "env" /\ next.open = FALSE /\ "copy" \in DOMAIN next
      /\ next.copy = copied /\ next.mode = rec.mode /\ next.alone = rec.alone
  OBVIOUS
<1> HIDE DEF next
<1>8. /\ installer'[p] = next /\ installer' \in [Installers -> InstallStates]
      /\ \A q \in Installers : q # p => installer'[q] = installer[q]
  BY <1>1, <1>6, GoingTo DEF InstallStates
<1>9. OthersAsBefore(p) BY <1>8, OthersUnmoved
<1>10. InstallTyped' BY <1>1, <1>8 DEF InstallTyped
<1>11. UserLinesKept'
  <2> SUFFICES ASSUME "env" \notin overlapped' \union cut'
               PROVE  /\ (\A q \in Installers : ~Writing(q, "env")') => UserLines(env) = authored
                      /\ \A q \in Installers : Reads(q, "env")' =>
                            /\ UserLines(installer'[q].copy) = authored
                            /\ \A o \in Installers : Reads(o, "env")' => o = q
                            /\ ~installer'[q].open
    BY <1>1 DEF UserLinesKept
  <2>1. "env" \notin overlapped \union cut /\ ~Meets(p, "env") BY <1>1
  <2>2. \A q \in Installers : ~Reads(q, "env") BY <1>1, <2>1 DEF Meets
  <2>3. \A q \in Installers : ~Writing(q, "env")
    <3> SUFFICES ASSUME NEW q \in Installers, Writing(q, "env") PROVE FALSE OBVIOUS
    <3>1. installer[q] \in InstallStates BY DEF InstallTyped
    <3>2. QED BY <2>2, <3>1, RunIs DEF Writing, Reads
  <2>4. UserLines(env) = authored BY <2>1, <2>3 DEF UserLinesKept
  <2>5. \A q \in Installers : Reads(q, "env")' => q = p BY <1>8, <2>2 DEF Reads
  <2>6. QED BY <1>5, <1>7, <1>8, <2>4, <2>5
<1>11a. KeysKept'
  <2> SUFFICES ASSUME "env" \notin overlaid, NEW q \in Installers, Reads(q, "env")'
               PROVE  KeysOnce(env) /\ KeysOnce(installer'[q].copy)
    BY <1>1 DEF KeysKept
  <2>1. KeysOnce(env) BY DEF KeysKept
  <2>2. CASE q = p BY <1>5, <1>7, <1>8, <2>1, <2>2
  <2>3. CASE q # p BY <1>8, <2>1, <2>3 DEF KeysKept, Reads
  <2>4. QED BY <2>2, <2>3
<1>12. RunKept(p)'
  <2>1. RunKept(p) /\ rec # Installed BY <1>1, RunFacts DEF RunsKept
  <2>2. QED BY <1>4, <1>5, <1>7, <1>8, <1>1, <2>1 DEF RunKept
<1>13. RunsKept'
  <2>1. rec # Installed BY <1>1, RunFacts
  <2>2. HooksDone' = HooksDone BY <1>1 DEF HooksDone
  <2>3. QED BY <1>1, <1>8, <1>12, <2>1, <2>2, RunsFrame
<1>14. ScriptsKept'
  <2>1. ~Writing(p, "scripts") /\ rec.pc # "settings" /\ installer'[p].pc # "settings"
    BY <1>1, <1>7, <1>8 DEF Writing
  <2>2. QED BY <1>1, <1>9, <2>1, ScriptsFrame
<1>15. SettingsKept'
  <2>1. ~Writing(p, "settings") /\ ~Reads(p, "settings")' BY <1>1, <1>7, <1>8 DEF Writing, Reads
  <2>2. QED BY <1>1, <1>9, <2>1, SettingsFrame
<1>16. QED BY <1>10, <1>11, <1>11a, <1>13, <1>14, <1>15

LEMMA InstallOpenEnvKeeps ==
    ASSUME InstallIInv, NEW p \in Installers, OpenEnv(p)
    PROVE  InstallIInv'
<1> USE DEF InstallIInv
<1> DEFINE rec == installer[p]
           next == [rec EXCEPT !.open = TRUE]
<1>1. /\ Reads(p, "env") /\ ~rec.open /\ env' = <<>> /\ GoesTo(p, next)
      /\ UNCHANGED <<settings, scripts, wizard, settled, installs, authored, retouched,
                     overlapped, overlaid, cut, kills>>
  BY DEF OpenEnv, historyOfInstalls
<1>2. rec \in InstallStates BY DEF InstallTyped
<1>3. rec \in AfterRead /\ rec.pc = "env" BY <1>1, <1>2, RunIs DEF Reads
<1>4. /\ next \in AfterRead /\ next.pc = "env" /\ next.open = TRUE /\ next.copy = rec.copy
      /\ next.mode = rec.mode /\ next.alone = rec.alone /\ DOMAIN next = DOMAIN rec
  BY <1>3 DEF AfterRead
<1> HIDE DEF next
<1>8. /\ installer'[p] = next /\ installer' \in [Installers -> InstallStates]
      /\ \A q \in Installers : q # p => installer'[q] = installer[q]
  BY <1>1, <1>4, GoingTo DEF InstallStates
<1>9. OthersAsBefore(p) BY <1>8, OthersUnmoved
<1>10. InstallTyped' BY <1>1, <1>8, EmptyIsFile DEF InstallTyped
<1>11. UserLinesKept'
  <2>1. Writing(p, "env")' BY <1>4, <1>8 DEF Writing
  <2>2. \A q \in Installers : /\ Reads(q, "env")' <=> Reads(q, "env")
                              /\ installer'[q].copy = installer[q].copy
    BY <1>1, <1>3, <1>4, <1>8 DEF Reads
  <2>3. QED BY <1>1, <2>1, <2>2 DEF UserLinesKept
<1>11a. KeysKept'
  <2>1. \A q \in Installers : /\ Reads(q, "env")' <=> Reads(q, "env")
                              /\ installer'[q].copy = installer[q].copy
    BY <1>1, <1>3, <1>4, <1>8 DEF Reads
  <2>2. QED BY <1>1, <2>1, EmptyIsFile DEF KeysKept
<1>12. RunKept(p)'
  <2>1. RunKept(p) /\ rec # Installed BY <1>3, RunFacts DEF RunsKept
  <2>2. QED BY <1>3, <1>4, <1>8, <1>1, <2>1 DEF RunKept, Reads
<1>13. RunsKept'
  <2>1. rec # Installed BY <1>3, RunFacts
  <2>2. HooksDone' = HooksDone BY <1>1 DEF HooksDone
  <2>3. QED BY <1>1, <1>8, <1>12, <2>1, <2>2, RunsFrame
<1>14. ScriptsKept'
  <2>1. ~Writing(p, "scripts") /\ rec.pc # "settings" /\ installer'[p].pc # "settings"
    BY <1>3, <1>4, <1>8 DEF Writing
  <2>2. QED BY <1>1, <1>9, <2>1, ScriptsFrame
<1>15. SettingsKept'
  <2>1. ~Writing(p, "settings") /\ ~Reads(p, "settings")' BY <1>3, <1>4, <1>8 DEF Writing, Reads
  <2>2. QED BY <1>1, <1>9, <2>1, SettingsFrame
<1>16. QED BY <1>10, <1>11, <1>11a, <1>13, <1>14, <1>15

\* What is written over an old text is there, and behind it perhaps the old one's end.
LEMMA OverlayIs ==
    ASSUME NEW old \in Seq(EnvLines), NEW new \in Seq(EnvLines), NEW text \in Overlay(old, new)
    PROVE  /\ text \in Seq(EnvLines)
           /\ old = <<>> => text = new
           /\ \A n \in DOMAIN new : n \in DOMAIN text /\ text[n] = new[n]
<1>1. Len(old) \in Nat /\ Len(new) \in Nat /\ DOMAIN old = 1..Len(old) /\ DOMAIN new = 1..Len(new)
  BY LenProperties
<1>2. CASE text = new BY <1>1, <1>2
<1>3. CASE text # new
  <2>1. PICK k \in DOMAIN old :
           text = new \o <<CutLine>> \o SubSeq(old, k + 1, Len(old))
    BY <1>3 DEF Overlay, CutLine
  <2>2. old # <<>> BY <2>1
  <2>3. CutLine \in EnvLines BY DEF EnvLines
  <2> DEFINE one == <<CutLine>>
             end == SubSeq(old, k + 1, Len(old))
             head == new \o one
  <2>4. one \in Seq(EnvLines) BY <2>3
  <2>5. end \in Seq(EnvLines)
    <3>1. \A n \in (k + 1)..Len(old) : old[n] \in EnvLines BY <1>1, <2>1, ElementOfSeq
    <3>2. k + 1 \in Nat BY <1>1, <2>1
    <3>3. QED BY <1>1, <3>1, <3>2, SubSeqProperties
  <2> HIDE DEF one, end
  <2>6. /\ head \in Seq(EnvLines) /\ Len(head) = Len(new) + Len(one)
        /\ \A n \in 1..(Len(new) + Len(one)) :
              head[n] = IF n <= Len(new) THEN new[n] ELSE one[n - Len(new)]
    BY <2>4, ConcatProperties
  <2>7. Len(one) \in Nat /\ Len(end) \in Nat BY <2>4, <2>5, LenProperties
  <2>6a. head \in Seq(EnvLines) BY <2>6
  <2> HIDE DEF head
  <2>8. /\ head \o end \in Seq(EnvLines) /\ Len(head \o end) = Len(head) + Len(end)
        /\ \A n \in 1..(Len(head) + Len(end)) :
              (head \o end)[n] = IF n <= Len(head) THEN head[n] ELSE end[n - Len(head)]
    BY <2>5, <2>6a, ConcatProperties
  <2>9. text = head \o end BY <2>1 DEF head, one, end
  <2>10. DOMAIN text = 1..(Len(head) + Len(end)) BY <2>8, <2>9, LenProperties
  <2>11. \A n \in DOMAIN new : n \in DOMAIN text /\ text[n] = new[n]
    BY <1>1, <2>6, <2>7, <2>8, <2>9, <2>10
  <2>12. QED BY <2>2, <2>8, <2>9, <2>11
<1>4. QED BY <1>2, <1>3

LEMMA InstallWriteEnvKeeps ==
    ASSUME InstallIInv, NEW p \in Installers, WriteEnv(p)
    PROVE  InstallIInv'
<1> USE DEF InstallIInv
<1> DEFINE rec == installer[p]
           next == IF rec.mode = NoMode THEN Installed
                   ELSE [pc |-> "scripts", open |-> FALSE, mode |-> rec.mode,
                         alone |-> rec.alone]
<1>1. /\ Writing(p, "env") /\ env' \in Overlay(env, rec.copy) /\ GoesTo(p, next)
      /\ overlaid' = IF env' = rec.copy THEN overlaid ELSE overlaid \union {"env"}
      /\ UNCHANGED <<settings, scripts, wizard, settled, installs, authored, retouched,
                     overlapped, cut, kills>>
  BY DEF WriteEnv
<1>2. rec \in InstallStates BY DEF InstallTyped
<1>3. /\ rec \in AfterRead /\ rec.pc = "env" /\ Reads(p, "env") /\ rec # Installed
      /\ rec.open
  BY <1>1, <1>2, RunIs, RunFacts DEF Reads, Writing
<1>4. rec.copy \in Seq(EnvLines) /\ rec.mode \in ModesOrNone /\ rec.alone \in BOOLEAN
  BY <1>3, RunFacts
<1>4a. /\ env' \in Seq(EnvLines)
       /\ env = <<>> => env' = rec.copy
       /\ \A n \in DOMAIN rec.copy : n \in DOMAIN env' /\ env'[n] = rec.copy[n]
  BY <1>1, <1>4, OverlayIs DEF InstallTyped
<1>5. rec.mode # NoMode =>
         /\ next \in AtScripts /\ next.pc = "scripts" /\ next.open = FALSE
         /\ next.mode = rec.mode /\ next.alone = rec.alone
  BY <1>4 DEF AtScripts, ModesOrNone
<1>6. rec.mode = NoMode => next = Installed OBVIOUS
<1>7. next.pc \in {"idle", "scripts"} /\ next \in InstallStates
  BY <1>5, <1>6, RunFacts DEF InstallStates
<1>8. ~(next.pc = "scripts" /\ next.open) /\ next.pc # "mcp" /\ next.pc # "env"
  BY <1>5, <1>6, RunFacts
<1> HIDE DEF next
<1>12. /\ installer'[p] = next /\ installer' \in [Installers -> InstallStates]
      /\ \A q \in Installers : q # p => installer'[q] = installer[q]
  BY <1>1, <1>7, GoingTo
<1>13. OthersAsBefore(p) BY <1>12, OthersUnmoved
<1>14. InstallTyped' BY <1>1, <1>4a, <1>12 DEF InstallTyped
<1>15. UserLinesKept'
  <2> SUFFICES ASSUME "env" \notin overlapped \union cut
               PROVE  /\ UserLines(env') = authored
                      /\ \A q \in Installers : ~Reads(q, "env")'
    BY <1>1 DEF UserLinesKept
  <2>1. /\ UserLines(rec.copy) = authored /\ env' = rec.copy
        /\ \A q \in Installers : Reads(q, "env") => q = p
    BY <1>3, <1>4a DEF UserLinesKept
  <2>2. ~Reads(p, "env")' BY <1>8, <1>12 DEF Reads
  <2>3. \A q \in Installers : q # p => ~Reads(q, "env")' BY <1>12, <2>1 DEF Reads
  <2>4. QED BY <1>1, <2>1, <2>2, <2>3
<1>15a. KeysKept'
  <2> SUFFICES ASSUME "env" \notin overlaid'
               PROVE  /\ KeysOnce(env')
                      /\ \A q \in Installers : Reads(q, "env")' => KeysOnce(installer'[q].copy)
    BY DEF KeysKept
  <2>1. env' = rec.copy /\ "env" \notin overlaid BY <1>1
  <2>2. KeysOnce(rec.copy) BY <1>3, <2>1 DEF KeysKept
  <2>3. ~Reads(p, "env")' BY <1>8, <1>12 DEF Reads
  <2>4. QED BY <1>12, <2>1, <2>2, <2>3 DEF KeysKept, Reads
<1>16. RunKept(p)'
  <2>1. RunKept(p) BY DEF RunsKept
  <2>2. rec.mode # NoMode => HasAll(env', EnvLinesOf[rec.mode])
    <3>1. rec.mode # NoMode => HasAll(rec.copy, EnvLinesOf[rec.mode])
      BY <1>3, <2>1 DEF RunKept, Reads
    <3>2. QED BY <3>1, <1>4a DEF HasAll
  <2>3. rec.alone => \A q \in Installers : q # p => installer[q] = Installed
    BY <1>3, <2>1 DEF RunKept
  <2>4. CASE rec.mode = NoMode BY <1>6, <1>12, <2>4, RunFacts DEF RunKept
  <2>5. CASE rec.mode # NoMode
    <3>1. /\ installer'[p].pc = "scripts" /\ installer'[p].open = FALSE
          /\ installer'[p].mode = rec.mode /\ installer'[p].alone = rec.alone
      BY <1>5, <1>12, <2>5
    <3>2. QED BY <1>12, <2>2, <2>3, <2>5, <3>1 DEF RunKept, ModeOf
  <2>6. QED BY <2>4, <2>5
<1>17. RunsKept'
  <2>1. HooksDone' = HooksDone BY <1>1 DEF HooksDone
  <2>2. QED BY <1>1, <1>3, <1>12, <1>16, <2>1, RunsFrame
<1>18. ScriptsKept'
  <2>1. ~Writing(p, "scripts") /\ rec.pc # "settings" /\ installer'[p].pc # "settings"
    BY <1>3, <1>7, <1>12 DEF Writing
  <2>2. QED BY <1>1, <1>13, <2>1, ScriptsFrame
<1>19. SettingsKept'
  <2>1. ~Writing(p, "settings") /\ ~Reads(p, "settings")'
    BY <1>3, <1>7, <1>12 DEF Writing, Reads
  <2>2. "settings" \in overlaid => "settings" \in overlaid' BY <1>1
  <2>3. QED BY <1>1, <1>13, <2>1, <2>2, SettingsFrame
<1>20. QED BY <1>14, <1>15, <1>15a, <1>17, <1>18, <1>19

LEMMA InstallSkipHooksKeeps ==
    ASSUME InstallIInv, NEW p \in Installers, SkipHooks(p)
    PROVE  InstallIInv'
<1> USE DEF InstallIInv
<1> DEFINE rec == installer[p]
           next == [rec EXCEPT !.pc = "mcp"]
<1>1. /\ rec.pc = "scripts" /\ ~rec.open /\ settings = NoSettings /\ GoesTo(p, next)
      /\ UNCHANGED <<env, settings, scripts, wizard, settled, installs, authored, retouched,
                     overlapped, overlaid, cut, kills>>
  BY DEF SkipHooks, historyOfInstalls
<1>2. rec \in InstallStates BY DEF InstallTyped
<1>3. rec \in AtScripts /\ rec # Installed BY <1>1, <1>2, RunIs, RunFacts
<1>4. /\ next \in AtMcp /\ next.pc = "mcp" /\ next.open = FALSE
      /\ next.mode = rec.mode /\ next.alone = rec.alone
  BY <1>3 DEF AtScripts, AtMcp
<1> HIDE DEF next
<1>8. /\ installer'[p] = next /\ installer' \in [Installers -> InstallStates]
      /\ \A q \in Installers : q # p => installer'[q] = installer[q]
  BY <1>1, <1>4, GoingTo DEF InstallStates
<1>9. OthersAsBefore(p) BY <1>8, OthersUnmoved
<1>10. InstallTyped' BY <1>1, <1>8 DEF InstallTyped
<1>11. UserLinesKept'
  <2>1. ~Reads(p, "env") /\ ~Writing(p, "env") /\ ~Reads(p, "env")' /\ ~Writing(p, "env")'
    BY <1>1, <1>4, <1>8 DEF Reads, Writing
  <2>2. QED BY <1>1, <1>9, <2>1, UserLinesFrame
<1>11a. KeysKept'
  <2>1. ~Reads(p, "env")' BY <1>1, <1>4, <1>8 DEF Reads
  <2>2. QED BY <1>1, <1>9, <2>1, KeysFrame
<1>12. HooksDone' /\ HooksDone /\ TextDone' BY <1>1 DEF HooksDone, TextDone
<1>13. RunKept(p)'
  <2>1. RunKept(p) BY DEF RunsKept
  <2>2. QED BY <1>1, <1>3, <1>4, <1>8, <1>12, <2>1 DEF RunKept, ModeOf
<1>14. RunsKept' BY <1>1, <1>3, <1>8, <1>12, <1>13, RunsFrame
<1>15. ScriptsKept'
  <2>1. ~Writing(p, "scripts") /\ rec.pc # "settings" /\ installer'[p].pc # "settings"
    BY <1>1, <1>4, <1>8 DEF Writing
  <2>2. QED BY <1>1, <1>9, <2>1, ScriptsFrame
<1>16. SettingsKept'
  <2>1. ~Writing(p, "settings") /\ ~Reads(p, "settings")'
    BY <1>1, <1>4, <1>8 DEF Writing, Reads
  <2>2. QED BY <1>1, <1>9, <2>1, SettingsFrame
<1>17. QED BY <1>10, <1>11, <1>11a, <1>14, <1>15, <1>16

LEMMA InstallOpenScriptKeeps ==
    ASSUME InstallIInv, NEW p \in Installers, OpenScript(p)
    PROVE  InstallIInv'
<1> USE DEF InstallIInv
<1> DEFINE rec == installer[p]
           places == {n \in DOMAIN Events : Events[n] \in NextScript}
           e == Events[Min(places)]
           next == [rec EXCEPT !.open = TRUE, !.mode = <<@, e>>]
<1>1. /\ rec.pc = "scripts" /\ ~rec.open /\ settings # NoSettings /\ NextScript # {}
      /\ scripts' = [scripts EXCEPT ![e] = "torn"] /\ GoesTo(p, next)
      /\ UNCHANGED <<env, settings, wizard, settled, installs, authored, retouched,
                     overlapped, overlaid, cut, kills>>
  BY DEF OpenScript, historyOfInstalls
<1>2. rec \in InstallStates BY DEF InstallTyped
<1>3. rec \in AtScripts /\ rec # Installed BY <1>1, <1>2, RunIs, RunFacts
<1>4. e \in HookEvents /\ scripts[e] = "none"
  <2>1. Events \in Seq(STRING) /\ DOMAIN Events \subseteq Nat
    BY InstallationBounds, LenProperties
  <2>2. places \subseteq Nat BY <2>1
  <2>3. places # {} BY <1>1 DEF NextScript, ToSet
  <2>4. Min(places) \in places BY <2>2, <2>3, MinOfNaturals
  <2>5. e \in NextScript BY <2>4
  <2>6. QED BY <2>5 DEF NextScript, HookEvents
<1> HIDE DEF e
<1>5. /\ next \in InScript /\ next.pc = "scripts" /\ next.open = TRUE /\ next.mode = <<rec.mode, e>>
      /\ next.alone = rec.alone
  BY <1>3, <1>4 DEF AtScripts, InScript
<1> HIDE DEF next
<1>8. /\ installer'[p] = next /\ installer' \in [Installers -> InstallStates]
      /\ \A q \in Installers : q # p => installer'[q] = installer[q]
  BY <1>1, <1>5, GoingTo DEF InstallStates
<1>9. OthersAsBefore(p) BY <1>8, OthersUnmoved
<1>10. InstallTyped' BY <1>1, <1>4, <1>8 DEF InstallTyped
<1>11. UserLinesKept'
  <2>1. ~Reads(p, "env") /\ ~Writing(p, "env") /\ ~Reads(p, "env")' /\ ~Writing(p, "env")'
    BY <1>1, <1>5, <1>8 DEF Reads, Writing
  <2>2. QED BY <1>1, <1>9, <2>1, UserLinesFrame
<1>11a. KeysKept'
  <2>1. ~Reads(p, "env")' BY <1>1, <1>5, <1>8 DEF Reads
  <2>2. QED BY <1>1, <1>9, <2>1, KeysFrame
<1>12. HooksDone' = HooksDone BY <1>1 DEF HooksDone
<1>13. RunKept(p)'
  <2>1. RunKept(p) BY DEF RunsKept
  <2>2. /\ ModeOf(rec) = rec.mode /\ ModeOf(installer[p])' = rec.mode
    BY <1>1, <1>5, <1>8 DEF ModeOf
  <2>3. QED BY <1>1, <1>3, <1>5, <1>8, <2>1, <2>2 DEF RunKept
<1>14. RunsKept' BY <1>1, <1>3, <1>8, <1>12, <1>13, RunsFrame
<1>15. ScriptsKept'
  <2>1. \A x \in HookEvents : scripts'[x] = IF x = e THEN "torn" ELSE scripts[x]
    BY <1>1 DEF InstallTyped
  <2>2. Writing(p, "scripts")' /\ installer'[p].mode[2] = e BY <1>5, <1>8 DEF Writing
  <2>3. ~Writing(p, "scripts") /\ installer'[p].pc # "settings"
    BY <1>1, <1>5, <1>8 DEF Writing
  <2>4. \A q \in Installers : q # p =>
           /\ Writing(q, "scripts") => Writing(q, "scripts")'
           /\ installer'[q] = installer[q]
    BY <1>8 DEF Writing
  <2>5. \A x \in ToSet(settings.hooks) : x \in HookEvents
    <3>1. settings.hooks \in Seq(HookEvents) BY DEF InstallTyped, SettingsTexts
    <3>2. QED BY <3>1, LenProperties, ElementOfSeq DEF ToSet
  <2>6. ASSUME NEW x \in HookEvents, scripts'[x] = "torn"
        PROVE  "scripts" \in cut
                 \/ \E q \in Installers : Writing(q, "scripts")' /\ installer'[q].mode[2] = x
    <3>1. CASE x = e BY <2>2, <3>1
    <3>2. CASE x # e
      <4>1. scripts[x] = "torn" BY <2>1, <2>6, <3>2
      <4>2. QED BY <4>1, <2>3, <2>4 DEF ScriptsKept
    <3>3. QED BY <3>1, <3>2
  <2>7. \A q \in Installers : installer'[q].pc = "settings" =>
          settings # NoSettings /\ \A x \in HookEvents : scripts'[x] # "none"
    BY <2>1, <2>3, <2>4 DEF ScriptsKept
  <2>8. \A x \in ToSet(settings.hooks) : scripts'[x] # "none" BY <2>1, <2>5 DEF ScriptsKept
  <2>9. QED BY <1>1, <2>6, <2>7, <2>8 DEF ScriptsKept
<1>16. SettingsKept'
  <2>1. ~Writing(p, "settings") /\ ~Reads(p, "settings")'
    BY <1>1, <1>5, <1>8 DEF Writing, Reads
  <2>2. QED BY <1>1, <1>9, <2>1, SettingsFrame
<1>17. QED BY <1>10, <1>11, <1>11a, <1>14, <1>15, <1>16

LEMMA InstallWriteScriptKeeps ==
    ASSUME InstallIInv, NEW p \in Installers, WriteScript(p)
    PROVE  InstallIInv'
<1> USE DEF InstallIInv
<1> DEFINE rec == installer[p]
           next == [rec EXCEPT !.open = FALSE, !.mode = @[1]]
<1>1. /\ Writing(p, "scripts") /\ rec.pc = "scripts"
      /\ scripts' = [scripts EXCEPT ![rec.mode[2]] = "whole"] /\ GoesTo(p, next)
      /\ UNCHANGED <<env, settings, wizard, settled, installs, authored, retouched,
                     overlapped, overlaid, cut, kills>>
  BY DEF WriteScript, historyOfInstalls, Writing
<1>2. rec \in InstallStates BY DEF InstallTyped
<1>3. rec \in InScript /\ rec # Installed /\ rec.open BY <1>1, <1>2, RunIs, RunFacts DEF Writing
<1>4. rec.mode[1] \in InstallModes /\ rec.mode[2] \in HookEvents BY <1>3, RunFacts
<1>5. /\ next \in AtScripts /\ next.pc = "scripts" /\ next.open = FALSE
      /\ next.mode = rec.mode[1] /\ next.alone = rec.alone
  BY <1>3 DEF AtScripts, InScript
<1> HIDE DEF next
<1>8. /\ installer'[p] = next /\ installer' \in [Installers -> InstallStates]
      /\ \A q \in Installers : q # p => installer'[q] = installer[q]
  BY <1>1, <1>5, GoingTo DEF InstallStates
<1>9. OthersAsBefore(p) BY <1>8, OthersUnmoved
<1>10. InstallTyped' BY <1>1, <1>4, <1>8 DEF InstallTyped
<1>11. UserLinesKept'
  <2>1. ~Reads(p, "env") /\ ~Writing(p, "env") /\ ~Reads(p, "env")' /\ ~Writing(p, "env")'
    BY <1>1, <1>5, <1>8 DEF Reads, Writing
  <2>2. QED BY <1>1, <1>9, <2>1, UserLinesFrame
<1>11a. KeysKept'
  <2>1. ~Reads(p, "env")' BY <1>1, <1>5, <1>8 DEF Reads
  <2>2. QED BY <1>1, <1>9, <2>1, KeysFrame
<1>12. HooksDone' = HooksDone BY <1>1 DEF HooksDone
<1>13. RunKept(p)'
  <2>1. RunKept(p) BY DEF RunsKept
  <2>2. /\ ModeOf(rec) = rec.mode[1] /\ ModeOf(installer[p])' = rec.mode[1]
    BY <1>1, <1>3, <1>5, <1>8 DEF ModeOf
  <2>3. QED BY <1>1, <1>3, <1>5, <1>8, <2>1, <2>2 DEF RunKept
<1>14. RunsKept' BY <1>1, <1>3, <1>8, <1>12, <1>13, RunsFrame
<1>15. ScriptsKept'
  <2>1. \A x \in HookEvents : scripts'[x] = IF x = rec.mode[2] THEN "whole" ELSE scripts[x]
    BY <1>1 DEF InstallTyped
  <2>3. installer'[p].pc # "settings" BY <1>5, <1>8
  <2>4. \A q \in Installers : q # p =>
           /\ Writing(q, "scripts") => Writing(q, "scripts")'
           /\ installer'[q] = installer[q]
    BY <1>8 DEF Writing
  <2>5. \A x \in ToSet(settings.hooks) : x \in HookEvents
    <3>1. settings.hooks \in Seq(HookEvents) BY DEF InstallTyped, SettingsTexts
    <3>2. QED BY <3>1, LenProperties, ElementOfSeq DEF ToSet
  <2>6. ASSUME NEW x \in HookEvents, scripts'[x] = "torn"
        PROVE  "scripts" \in cut
                 \/ \E q \in Installers : Writing(q, "scripts")' /\ installer'[q].mode[2] = x
    <3>1. x # rec.mode[2] /\ scripts[x] = "torn" BY <2>1, <2>6
    <3>2. QED BY <3>1, <2>4 DEF ScriptsKept
  <2>7. \A q \in Installers : installer'[q].pc = "settings" =>
          settings # NoSettings /\ \A x \in HookEvents : scripts'[x] # "none"
    BY <2>1, <2>3, <2>4 DEF ScriptsKept
  <2>8. \A x \in ToSet(settings.hooks) : scripts'[x] # "none" BY <2>1, <2>5 DEF ScriptsKept
  <2>9. QED BY <1>1, <2>6, <2>7, <2>8 DEF ScriptsKept
<1>16. SettingsKept'
  <2>1. ~Writing(p, "settings") /\ ~Reads(p, "settings")'
    BY <1>1, <1>5, <1>8 DEF Writing, Reads
  <2>2. QED BY <1>1, <1>9, <2>1, SettingsFrame
<1>17. QED BY <1>10, <1>11, <1>11a, <1>14, <1>15, <1>16

LEMMA InstallReadSettingsKeeps ==
    ASSUME InstallIInv, NEW p \in Installers, ReadSettings(p)
    PROVE  InstallIInv'
<1> USE DEF InstallIInv
<1> DEFINE rec == installer[p]
           next == IF settings.text # "whole" THEN Installed
                   ELSE [pc |-> "settings", open |-> FALSE, mode |-> rec.mode,
                         alone |-> rec.alone, copy |-> settings]
<1>1. /\ rec.pc = "scripts" /\ ~rec.open /\ NextScript = {} /\ settings # NoSettings
      /\ GoesTo(p, next)
      /\ overlapped' = IF Meets(p, "settings") THEN overlapped \union {"settings"}
                       ELSE overlapped
      /\ UNCHANGED <<env, settings, scripts, wizard, settled, installs, authored,
                     retouched, overlaid, cut, kills>>
  BY DEF ReadSettings
<1>2. rec \in InstallStates BY DEF InstallTyped
<1>3. rec \in AtScripts /\ rec # Installed BY <1>1, <1>2, RunIs, RunFacts
<1>5. /\ settings.text # "whole" => next = Installed
      /\ settings.text = "whole" =>
           /\ next \in AtSettings /\ next.pc = "settings" /\ next.open = FALSE
           /\ next.mode = rec.mode /\ next.alone = rec.alone /\ next.copy = settings
  BY <1>3 DEF AtSettings, AtScripts, InstallTyped
<1>6. /\ next \in InstallStates /\ next.pc \in {"idle", "settings"}
      /\ ~(next.pc = "settings" /\ next.open)
  BY <1>5, RunFacts DEF InstallStates
<1> HIDE DEF next
<1>8. /\ installer'[p] = next /\ installer' \in [Installers -> InstallStates]
      /\ \A q \in Installers : q # p => installer'[q] = installer[q]
  BY <1>1, <1>6, GoingTo DEF InstallStates
<1>9. OthersAsBefore(p) BY <1>8, OthersUnmoved
<1>10. InstallTyped' BY <1>1, <1>8 DEF InstallTyped
<1>11. UserLinesKept'
  <2>1. ~Reads(p, "env") /\ ~Writing(p, "env") /\ ~Reads(p, "env")' /\ ~Writing(p, "env")'
    BY <1>1, <1>6, <1>8 DEF Reads, Writing
  <2>2. QED BY <1>1, <1>9, <2>1, UserLinesFrame
<1>11a. KeysKept'
  <2>1. ~Reads(p, "env")' BY <1>1, <1>6, <1>8 DEF Reads
  <2>2. QED BY <1>1, <1>9, <2>1, KeysFrame
<1>12. HooksDone' = HooksDone BY <1>1 DEF HooksDone
<1>13. RunKept(p)'
  <2>1. RunKept(p) BY DEF RunsKept
  <2>2. CASE settings.text # "whole" BY <1>5, <1>8, <2>2, RunFacts DEF RunKept
  <2>3. CASE settings.text = "whole"
    <3>1. ModeOf(rec) = rec.mode /\ ModeOf(installer[p])' = rec.mode
      BY <1>1, <1>5, <1>8, <2>3 DEF ModeOf
    <3>2. QED BY <1>1, <1>3, <1>5, <1>8, <2>1, <2>3, <3>1 DEF RunKept
  <2>4. QED BY <2>2, <2>3
<1>14. RunsKept' BY <1>1, <1>3, <1>8, <1>12, <1>13, RunsFrame
<1>15. ScriptsKept'
  <2>1. \A q \in Installers : q # p =>
           /\ Writing(q, "scripts") => Writing(q, "scripts")'
           /\ installer'[q] = installer[q]
    BY <1>8 DEF Writing
  <2>2. ~Writing(p, "scripts") BY <1>1 DEF Writing
  <2>3. \A x \in HookEvents : scripts[x] # "none" BY <1>1 DEF NextScript, HookEvents
  <2>4. QED BY <1>1, <2>1, <2>2, <2>3 DEF ScriptsKept
<1>16. SettingsKept'
  <2>1. ~Writing(p, "settings") /\ ~Reads(p, "settings") /\ ~Writing(p, "settings")'
    BY <1>1, <1>6, <1>8 DEF Writing, Reads
  <2>2. \A q \in Installers : q # p =>
           /\ Reads(q, "settings")' <=> Reads(q, "settings")
           /\ Writing(q, "settings")' <=> Writing(q, "settings")
           /\ installer'[q].copy = installer[q].copy /\ installer'[q].open = installer[q].open
    BY <1>8 DEF Reads, Writing
  <2>3. ASSUME "settings" \notin overlapped', NEW q \in Installers, Reads(q, "settings")'
        PROVE  /\ installer'[q].copy.others = retouched
               /\ \A o \in Installers : Reads(o, "settings")' => o = q
               /\ ~installer'[q].open
    <3>1. "settings" \notin overlapped /\ \A o \in Installers : ~Reads(o, "settings")
      BY <1>1, <2>1, <2>3 DEF Meets
    <3>2. q = p /\ \A o \in Installers : Reads(o, "settings")' => o = p
      BY <2>2, <2>3, <3>1
    <3>3. installer'[p].pc = "settings" BY <2>3, <3>2 DEF Reads
    <3>4. settings.text = "whole" BY <1>5, <1>8, <3>3, RunFacts
    <3>5. settings.others = retouched BY <3>1, <3>4 DEF SettingsKept
    <3>6. QED BY <1>5, <1>8, <3>2, <3>4, <3>5
  <2>4. ASSUME "settings" \notin overlapped'
        PROVE  settings'.text = "whole" => settings'.others = retouched'
    BY <1>1, <2>4 DEF SettingsKept
  <2>5. settings'.text = "empty" =>
          "settings" \in cut' \/ \E q \in Installers : Writing(q, "settings")'
    BY <1>1, <2>1, <2>2 DEF SettingsKept
  <2>6. settings'.text = "torn" => "settings" \in overlapped' /\ "settings" \in overlaid'
    BY <1>1 DEF SettingsKept
  <2>7. retouched' = retouched BY <1>1
  <2>8. QED BY <2>3, <2>4, <2>5, <2>6, <2>7 DEF SettingsKept
<1>17. QED BY <1>10, <1>11, <1>11a, <1>14, <1>15, <1>16

LEMMA InstallOpenSettingsKeeps ==
    ASSUME InstallIInv, NEW p \in Installers, OpenSettings(p)
    PROVE  InstallIInv'
<1> USE DEF InstallIInv
<1> DEFINE rec == installer[p]
           next == [rec EXCEPT !.open = TRUE]
<1>1. /\ Reads(p, "settings") /\ ~rec.open /\ GoesTo(p, next)
      /\ settings' = [settings EXCEPT !.text = "empty"]
      /\ UNCHANGED <<env, scripts, wizard, settled, installs, authored, retouched,
                     overlapped, overlaid, cut, kills>>
  BY DEF OpenSettings, historyOfInstalls
<1>2. rec \in InstallStates BY DEF InstallTyped
<1>3. rec \in AtSettings /\ rec.pc = "settings" /\ rec # Installed
  BY <1>1, <1>2, RunIs, RunFacts DEF Reads
<1>4. /\ settings' \in SettingsTexts /\ settings'.text = "empty"
      /\ settings'.hooks = settings.hooks
  BY <1>1 DEF InstallTyped, SettingsTexts
<1>5. /\ next \in AtSettings /\ next.pc = "settings" /\ next.open = TRUE
      /\ next.mode = rec.mode /\ next.alone = rec.alone /\ next.copy = rec.copy
  BY <1>3 DEF AtSettings
<1> HIDE DEF next
<1>6. settings # NoSettings /\ settings' # NoSettings
  BY <1>3, <1>4 DEF ScriptsKept, NoSettings
<1>8. /\ installer'[p] = next /\ installer' \in [Installers -> InstallStates]
      /\ \A q \in Installers : q # p => installer'[q] = installer[q]
  BY <1>1, <1>5, GoingTo DEF InstallStates
<1>9. OthersAsBefore(p) BY <1>8, OthersUnmoved
<1>10. InstallTyped' BY <1>1, <1>4, <1>6, <1>8 DEF InstallTyped
<1>11. UserLinesKept'
  <2>1. ~Reads(p, "env") /\ ~Writing(p, "env") /\ ~Reads(p, "env")' /\ ~Writing(p, "env")'
    BY <1>3, <1>5, <1>8 DEF Reads, Writing
  <2>2. QED BY <1>1, <1>9, <2>1, UserLinesFrame
<1>11a. KeysKept'
  <2>1. ~Reads(p, "env")' BY <1>3, <1>5, <1>8 DEF Reads
  <2>2. QED BY <1>1, <1>9, <2>1, KeysFrame
<1>12. HooksDone => HooksDone' BY <1>4, <1>6 DEF HooksDone
<1>13. RunKept(p)'
  <2>1. RunKept(p) BY DEF RunsKept
  <2>2. ModeOf(rec) = rec.mode /\ ModeOf(installer[p])' = rec.mode
    BY <1>3, <1>5, <1>8 DEF ModeOf
  <2>3. QED BY <1>1, <1>3, <1>5, <1>8, <2>1, <2>2 DEF RunKept
<1>14. RunsKept' BY <1>1, <1>3, <1>8, <1>12, <1>13, RunsFrame
<1>15. ScriptsKept'
  <2>1. \A q \in Installers : q # p =>
           /\ Writing(q, "scripts") => Writing(q, "scripts")'
           /\ installer'[q] = installer[q]
    BY <1>8 DEF Writing
  <2>2. ~Writing(p, "scripts") BY <1>3 DEF Writing
  <2>3. QED BY <1>1, <1>3, <1>4, <1>6, <2>1, <2>2 DEF ScriptsKept
<1>16. SettingsKept'
  <2>1. Writing(p, "settings")' /\ installer'[p].copy = rec.copy
    BY <1>5, <1>8 DEF Writing
  <2>2. \A q \in Installers : q # p =>
           /\ Reads(q, "settings")' <=> Reads(q, "settings")
           /\ installer'[q].copy = installer[q].copy
    BY <1>8 DEF Reads
  <2>3. Reads(p, "settings") BY <1>1
  <2>4. ASSUME "settings" \notin overlapped, NEW q \in Installers, Reads(q, "settings")'
        PROVE  /\ installer'[q].copy.others = retouched
               /\ \A o \in Installers : Reads(o, "settings")' => o = q
    <3>1. q = p /\ \A o \in Installers : Reads(o, "settings")' => o = p
      BY <2>2, <2>3, <2>4 DEF SettingsKept
    <3>2. rec.copy.others = retouched BY <2>3, <2>4 DEF SettingsKept
    <3>3. QED BY <2>1, <3>1, <3>2
  <2>5. QED BY <1>1, <1>4, <2>1, <2>4 DEF SettingsKept
<1>17. QED BY <1>10, <1>11, <1>11a, <1>14, <1>15, <1>16

\* Registering the hooks that are absent registers each, and none twice.
LEMMA AbsentCompletes ==
    ASSUME NEW hooks \in Seq(HookEvents), IsInjective(hooks)
    PROVE  LET all == hooks \o Absent(hooks) IN
           all \in Seq(HookEvents) /\ IsInjective(all) /\ ToSet(all) = HookEvents
<1> DEFINE places == {n \in DOMAIN Events : Events[n] \notin ToSet(hooks)}
           new == Picked(Events, places)
           all == hooks \o new
<1>1. /\ Events \in Seq(STRING) /\ IsInjective(Events)
      /\ Len(Events) \in Nat /\ DOMAIN Events = 1..Len(Events)
      /\ Len(hooks) \in Nat /\ DOMAIN hooks = 1..Len(hooks)
  BY InstallationBounds, LenProperties
<1>2. \A n \in DOMAIN Events : Events[n] \in HookEvents BY DEF HookEvents, ToSet
<1>3. Events \in Seq(HookEvents)
  <2>1. Events = [n \in 1..Len(Events) |-> Events[n]] BY <1>1
  <2>2. [n \in 1..Len(Events) |-> Events[n]] \in Seq(HookEvents) BY <1>1, <1>2, IsASeq
  <2>3. QED BY <2>1, <2>2
<1>4. /\ new \in Seq(HookEvents) /\ Len(new) \in Nat
      /\ \E at \in [1..Len(new) -> places] :
            /\ \A k \in 1..Len(new) : new[k] = Events[at[k]]
            /\ \A j, k \in 1..Len(new) : at[j] = at[k] => j = k
            /\ \A n \in places : \E k \in 1..Len(new) : at[k] = n
  <2>1. Events \in Seq(HookEvents) /\ places \in SUBSET (DOMAIN Events) BY <1>3
  <2> HIDE DEF places
  <2>2. QED BY <2>1, PickedPlaces
<1> HIDE DEF new
<1>5. PICK at \in [1..Len(new) -> places] :
            /\ \A k \in 1..Len(new) : new[k] = Events[at[k]]
            /\ \A j, k \in 1..Len(new) : at[j] = at[k] => j = k
            /\ \A n \in places : \E k \in 1..Len(new) : at[k] = n
  BY <1>4
<1>6. /\ all \in Seq(HookEvents) /\ Len(all) = Len(hooks) + Len(new)
      /\ \A i \in 1..(Len(hooks) + Len(new)) :
            all[i] = IF i <= Len(hooks) THEN hooks[i] ELSE new[i - Len(hooks)]
  BY <1>4, ConcatProperties
<1> HIDE DEF all
<1>7. DOMAIN all = 1..(Len(hooks) + Len(new)) BY <1>6, LenProperties
<1>8. \A i \in DOMAIN hooks : i \in DOMAIN all /\ all[i] = hooks[i] /\ all[i] \in ToSet(hooks)
  BY <1>1, <1>4, <1>6, <1>7 DEF ToSet
<1>8a. \A n \in places : n \in DOMAIN Events /\ Events[n] \notin ToSet(hooks) OBVIOUS
<1> HIDE DEF places
<1>9. \A i \in DOMAIN all : i \notin DOMAIN hooks =>
         /\ i - Len(hooks) \in 1..Len(new) /\ at[i - Len(hooks)] \in places
         /\ all[i] = Events[at[i - Len(hooks)]] /\ all[i] \notin ToSet(hooks)
  <2> SUFFICES ASSUME NEW i \in DOMAIN all, i \notin DOMAIN hooks
               PROVE  /\ i - Len(hooks) \in 1..Len(new) /\ at[i - Len(hooks)] \in places
                      /\ all[i] = Events[at[i - Len(hooks)]] /\ all[i] \notin ToSet(hooks)
    OBVIOUS
  <2>1. i - Len(hooks) \in 1..Len(new) BY <1>1, <1>4, <1>7
  <2>2. at[i - Len(hooks)] \in places BY <1>5, <2>1
  <2>3. all[i] = new[i - Len(hooks)] BY <1>1, <1>6, <1>7
  <2>4. all[i] = Events[at[i - Len(hooks)]] BY <1>5, <2>1, <2>3
  <2>5. QED BY <1>8a, <2>1, <2>2, <2>4
<1>10. IsInjective(all)
  <2> SUFFICES ASSUME NEW j \in DOMAIN all, NEW k \in DOMAIN all, all[j] = all[k]
               PROVE  j = k
    BY DEF IsInjective
  <2>1. CASE j \in DOMAIN hooks /\ k \in DOMAIN hooks BY <1>8, <2>1 DEF IsInjective
  <2>2. CASE j \notin DOMAIN hooks /\ k \notin DOMAIN hooks
    <3>1. at[j - Len(hooks)] = at[k - Len(hooks)]
      BY <1>1, <1>8a, <1>9, <2>2 DEF IsInjective
    <3>2. j - Len(hooks) = k - Len(hooks) BY <1>5, <1>9, <2>2, <3>1
    <3>3. QED BY <1>1, <1>4, <1>7, <3>2
  <2>3. QED BY <1>8, <1>9, <2>1, <2>2
<1>11. \A e \in HookEvents : \E i \in DOMAIN all : all[i] = e
  <2> SUFFICES ASSUME NEW e \in HookEvents PROVE \E i \in DOMAIN all : all[i] = e OBVIOUS
  <2>1. CASE e \in ToSet(hooks) BY <1>8, <2>1 DEF ToSet
  <2>2. CASE e \notin ToSet(hooks)
    <3>1. PICK n \in DOMAIN Events : Events[n] = e BY DEF HookEvents, ToSet
    <3>2. n \in places BY <2>2, <3>1 DEF places
    <3>3. PICK k \in 1..Len(new) : at[k] = n BY <1>5, <3>2
    <3>4. /\ Len(hooks) + k \in 1..(Len(hooks) + Len(new)) /\ ~(Len(hooks) + k <= Len(hooks))
          /\ (Len(hooks) + k) - Len(hooks) = k
      BY <1>1, <1>4
    <3>5. new[k] = e BY <1>5, <3>1, <3>3
    <3>6. Len(hooks) + k \in DOMAIN all /\ all[Len(hooks) + k] = e
      BY <1>6, <1>7, <3>4, <3>5
    <3>7. QED BY <3>6
  <2>3. QED BY <2>1, <2>2
<1>12. \A i \in DOMAIN all : all[i] \in HookEvents BY <1>6, <1>7, ElementOfSeq
<1>13. ToSet(all) = HookEvents BY <1>11, <1>12 DEF ToSet
<1>14. QED BY <1>6, <1>10, <1>13 DEF all, new, Absent, places

LEMMA InstallWriteSettingsKeeps ==
    ASSUME InstallIInv, NEW p \in Installers, WriteSettings(p)
    PROVE  InstallIInv'
<1> USE DEF InstallIInv
<1> DEFINE rec == installer[p]
           next == [pc |-> "mcp", open |-> FALSE, mode |-> rec.mode, alone |-> rec.alone]
           all == rec.copy.hooks \o Absent(rec.copy.hooks)
           new == [rec.copy EXCEPT !.hooks = all]
<1>1. /\ Writing(p, "settings") /\ GoesTo(p, next)
      /\ settings' \in {new} \union IF settings.text = "empty" \/ settings = new THEN {}
                                   ELSE {[new EXCEPT !.text = "torn"]}
      /\ overlaid' = IF settings'.text = "torn" THEN overlaid \union {"settings"}
                     ELSE overlaid
      /\ UNCHANGED <<env, scripts, wizard, settled, installs, authored, retouched,
                     overlapped, cut, kills>>
  BY DEF WriteSettings
<1>2. rec \in InstallStates BY DEF InstallTyped
<1>3. rec \in AtSettings /\ rec.pc = "settings" /\ rec # Installed /\ Reads(p, "settings")
  BY <1>1, <1>2, RunIs, RunFacts DEF Writing, Reads
<1>3a. rec.copy \in SettingsTexts /\ rec.copy.text = "whole" BY <1>3, RunFacts
<1>3b. all \in Seq(HookEvents) /\ IsInjective(all) /\ ToSet(all) = HookEvents
  BY <1>3a, AbsentCompletes DEF SettingsTexts
<1> HIDE DEF all
<1>4. /\ settings' \in SettingsTexts /\ settings'.text \in {"whole", "torn"}
      /\ settings'.hooks = all /\ settings'.others = rec.copy.others
      /\ settings.text = "empty" => settings'.text = "whole"
  <2>1. /\ new \in SettingsTexts /\ new.text = "whole" /\ new.hooks = all
        /\ new.others = rec.copy.others
    BY <1>3a, <1>3b DEF SettingsTexts
  <2> DEFINE torn == [new EXCEPT !.text = "torn"]
  <2> HIDE DEF new
  <2>2. /\ torn \in SettingsTexts /\ torn.text = "torn" /\ torn.hooks = all
        /\ torn.others = rec.copy.others
    BY <2>1 DEF SettingsTexts
  <2>3. /\ settings' = new \/ settings' = torn
        /\ settings.text = "empty" => settings' = new
    BY <1>1 DEF torn
  <2> HIDE DEF torn
  <2>4. QED BY <2>1, <2>2, <2>3
<1> HIDE DEF new
<1>5. /\ next \in AtMcp /\ next.pc = "mcp" /\ next.open = FALSE
      /\ next.mode = rec.mode /\ next.alone = rec.alone
  BY <1>3 DEF AtSettings, AtMcp
<1> HIDE DEF next
<1>6. settings' # NoSettings BY <1>4 DEF NoSettings
<1>8. /\ installer'[p] = next /\ installer' \in [Installers -> InstallStates]
      /\ \A q \in Installers : q # p => installer'[q] = installer[q]
  BY <1>1, <1>5, GoingTo DEF InstallStates
<1>9. OthersAsBefore(p) BY <1>8, OthersUnmoved
<1>10. InstallTyped' BY <1>1, <1>4, <1>6, <1>8 DEF InstallTyped
<1>11. UserLinesKept'
  <2>1. ~Reads(p, "env") /\ ~Writing(p, "env") /\ ~Reads(p, "env")' /\ ~Writing(p, "env")'
    BY <1>3, <1>5, <1>8 DEF Reads, Writing
  <2>2. QED BY <1>1, <1>9, <2>1, UserLinesFrame
<1>11a. KeysKept'
  <2>1. ~Reads(p, "env")' BY <1>3, <1>5, <1>8 DEF Reads
  <2>2. QED BY <1>1, <1>9, <2>1, KeysFrame
<1>12. HooksDone' BY <1>3b, <1>4 DEF HooksDone
<1>13. RunKept(p)'
  <2>1. RunKept(p) BY DEF RunsKept
  <2>2. ModeOf(rec) = rec.mode /\ ModeOf(installer[p])' = rec.mode
    BY <1>3, <1>5, <1>8 DEF ModeOf
  <2>3. rec.alone => TextDone' BY <1>1, <1>3, <1>4, <2>1 DEF RunKept, Writing, TextDone
  <2>4. QED BY <1>1, <1>3, <1>5, <1>8, <1>12, <2>1, <2>2, <2>3 DEF RunKept
<1>14. RunsKept' BY <1>1, <1>3, <1>8, <1>12, <1>13, RunsFrame
<1>15. ScriptsKept'
  <2>1. \A q \in Installers : q # p =>
           /\ Writing(q, "scripts") => Writing(q, "scripts")'
           /\ installer'[q] = installer[q]
    BY <1>8 DEF Writing
  <2>2. ~Writing(p, "scripts") BY <1>3 DEF Writing
  <2>3. \A x \in HookEvents : scripts[x] # "none" BY <1>3 DEF ScriptsKept
  <2>4. QED BY <1>1, <1>3b, <1>4, <1>6, <2>1, <2>2, <2>3 DEF ScriptsKept
<1>16. SettingsKept'
  <2>1. ~Reads(p, "settings")' BY <1>5, <1>8 DEF Reads
  <2>2. \A q \in Installers : q # p =>
           /\ Reads(q, "settings")' <=> Reads(q, "settings")
           /\ installer'[q].copy = installer[q].copy
    BY <1>8 DEF Reads
  <2>3. "settings" \notin overlapped =>
          /\ rec.copy.others = retouched /\ settings.text = "empty"
          /\ \A q \in Installers : Reads(q, "settings") => q = p
    BY <1>1, <1>3 DEF SettingsKept, Writing
  <2>4. settings'.text = "torn" => "settings" \in overlapped /\ "settings" \in overlaid'
    BY <1>1, <1>4, <2>3
  <2>5. \A q \in Installers : Reads(q, "settings")' => q # p /\ Reads(q, "settings")
    BY <2>1, <2>2
  <2>6. QED BY <1>1, <1>4, <2>3, <2>4, <2>5 DEF SettingsKept
<1>17. QED BY <1>10, <1>11, <1>11a, <1>14, <1>15, <1>16

LEMMA InstallEndKeeps ==
    ASSUME InstallIInv, NEW p \in Installers, EndInstall(p)
    PROVE  InstallIInv'
<1> USE DEF InstallIInv
<1> DEFINE rec == installer[p]
<1>1. /\ rec.pc = "mcp" /\ GoesTo(p, Installed)
      /\ settled' = IF rec.alone THEN rec.mode ELSE settled
      /\ UNCHANGED <<env, settings, scripts, wizard, installs, authored, retouched,
                     overlapped, overlaid, cut, kills>>
  BY DEF EndInstall, historyOfInstalls
<1>2. rec \in InstallStates BY DEF InstallTyped
<1>3. rec \in AtMcp /\ rec # Installed /\ rec.mode \in InstallModes
  BY <1>1, <1>2, RunIs, RunFacts
<1>8. /\ installer'[p] = Installed /\ installer' \in [Installers -> InstallStates]
      /\ \A q \in Installers : q # p => installer'[q] = installer[q]
  BY <1>1, GoingTo DEF InstallStates
<1>9. OthersAsBefore(p) BY <1>8, OthersUnmoved
<1>10. InstallTyped' BY <1>1, <1>3, <1>8 DEF InstallTyped, ModesOrNone
<1>10a. installer'[p].pc = "idle" BY <1>8, RunFacts
<1>11. UserLinesKept'
  <2>1. ~Reads(p, "env") /\ ~Writing(p, "env") /\ ~Reads(p, "env")' /\ ~Writing(p, "env")'
    BY <1>1, <1>10a DEF Reads, Writing
  <2>2. QED BY <1>1, <1>9, <2>1, UserLinesFrame
<1>11a. KeysKept'
  <2>1. ~Reads(p, "env")' BY <1>1, <1>10a DEF Reads
  <2>2. QED BY <1>1, <1>9, <2>1, KeysFrame
<1>12. HooksDone' = HooksDone /\ TextDone' = TextDone BY <1>1 DEF HooksDone, TextDone
<1>13. RunKept(p) /\ settled = NoMode BY <1>3 DEF RunsKept
<1>14. RunsKept'
  <2>1. RunKept(p)' BY <1>8, <1>10a DEF RunKept
  <2>2. CASE rec.alone
    <3>1. \A q \in Installers : q # p => installer[q] = Installed BY <1>3, <1>13, <2>2 DEF RunKept
    <3>2. \A q \in Installers : installer'[q] = Installed BY <1>8, <3>1
    <3>3. \A q \in Installers : RunKept(q)' BY <3>2, RunFacts DEF RunKept
    <3>4. ModeOf(rec) = rec.mode BY <1>1 DEF ModeOf
    <3>5. HasAll(env, EnvLinesOf[rec.mode]) /\ HooksDone /\ TextDone
      BY <1>1, <1>13, <2>2, <3>4 DEF RunKept
    <3>6. QED BY <1>1, <1>12, <2>2, <3>2, <3>3, <3>5 DEF RunsKept
  <2>3. CASE ~rec.alone
    <3>1. settled' = settled BY <1>1, <2>3
    <3>2. QED BY <1>3, <1>8, <1>12, <2>1, <3>1, RunsFrame
  <2>4. QED BY <2>2, <2>3
<1>15. ScriptsKept'
  <2>1. ~Writing(p, "scripts") /\ rec.pc # "settings" /\ installer'[p].pc # "settings"
    BY <1>1, <1>10a DEF Writing
  <2>2. QED BY <1>1, <1>9, <2>1, ScriptsFrame
<1>16. SettingsKept'
  <2>1. ~Writing(p, "settings") /\ ~Reads(p, "settings")'
    BY <1>1, <1>10a DEF Writing, Reads
  <2>2. QED BY <1>1, <1>9, <2>1, SettingsFrame
<1>17. QED BY <1>10, <1>11, <1>11a, <1>14, <1>15, <1>16

LEMMA InstallKilledKeeps ==
    ASSUME InstallIInv, NEW p \in Installers, InstallerKilled(p)
    PROVE  InstallIInv'
<1> USE DEF InstallIInv
<1> DEFINE rec == installer[p]
<1>1. /\ rec # Installed /\ GoesTo(p, Installed)
      /\ cut' = IF rec.open THEN cut \union {rec.pc} ELSE cut
      /\ wizard' = IF p = "ui" THEN NoMode ELSE wizard
      /\ UNCHANGED <<env, settings, scripts, settled, installs, authored, retouched,
                     overlapped, overlaid>>
  BY DEF InstallerKilled
<1>8. /\ installer'[p] = Installed /\ installer' \in [Installers -> InstallStates]
      /\ \A q \in Installers : q # p => installer'[q] = installer[q]
  BY <1>1, GoingTo DEF InstallStates
<1>10. InstallTyped' BY <1>1, <1>8 DEF InstallTyped, ModesOrNone
<1>10a. installer'[p].pc = "idle" BY <1>8, RunFacts
<1>10b. \A file \in {"env", "scripts", "settings"} :
          /\ Writing(p, file) => file \in cut'
          /\ file \in cut => file \in cut'
          /\ ~Reads(p, file)' /\ ~Writing(p, file)'
          /\ \A q \in Installers : q # p =>
                /\ Reads(q, file)' <=> Reads(q, file)
                /\ Writing(q, file)' <=> Writing(q, file)
  BY <1>1, <1>8, <1>10a DEF Reads, Writing
<1>11. UserLinesKept' BY <1>1, <1>8, <1>10b DEF UserLinesKept
<1>11a. KeysKept' BY <1>1, <1>8, <1>10b DEF KeysKept
<1>12. HooksDone' = HooksDone BY <1>1 DEF HooksDone
<1>13. RunsKept'
  <2>1. RunKept(p)' BY <1>8, <1>10a DEF RunKept
  <2>2. QED BY <1>1, <1>8, <1>12, <2>1, RunsFrame
<1>14. ScriptsKept'
  <2>1. \A q \in Installers : q # p => installer'[q] = installer[q] BY <1>8
  <2>2. QED BY <1>1, <1>10a, <1>10b, <2>1 DEF ScriptsKept
<1>15. SettingsKept' BY <1>1, <1>8, <1>10b DEF SettingsKept
<1>16. QED BY <1>10, <1>11, <1>11a, <1>13, <1>14, <1>15

LEMMA InstallRetouchKeeps ==
    ASSUME InstallIInv, Retouch
    PROVE  InstallIInv'
<1> USE DEF InstallIInv
<1>1. /\ retouched' = retouched + 1 /\ settings.text = "whole"
      /\ settings' = [settings EXCEPT !.others = @ + 1]
      /\ overlapped' = IF \E p \in Installers : Reads(p, "settings")
                       THEN overlapped \union {"settings"} ELSE overlapped
      /\ UNCHANGED <<env, scripts, installer, wizard, settled, authored, overlaid, cut>>
  BY DEF Retouch
<1>2. /\ settings' \in SettingsTexts /\ settings'.text = "whole"
      /\ settings'.hooks = settings.hooks /\ settings'.others = settings.others + 1
  BY <1>1 DEF InstallTyped, SettingsTexts
<1>3. settings # NoSettings /\ settings' # NoSettings BY <1>1, <1>2 DEF NoSettings
<1>4. InstallTyped' BY <1>1, <1>2, <1>3 DEF InstallTyped
<1>5. UserLinesKept' /\ KeysKept' BY <1>1 DEF UserLinesKept, KeysKept, Reads, Writing
<1>6. HooksDone' = HooksDone /\ TextDone' BY <1>2, <1>3 DEF HooksDone, TextDone
<1>7. RunsKept'
  <2>1. \A p \in Installers : RunKept(p) => RunKept(p)' BY <1>1, <1>6 DEF RunKept, ModeOf
  <2>2. QED BY <1>1, <1>6, <2>1 DEF RunsKept
<1>8. ScriptsKept' BY <1>1, <1>2, <1>3 DEF ScriptsKept, Writing
<1>9. SettingsKept'
  <2>1. CASE \E p \in Installers : Reads(p, "settings")
    BY <1>1, <1>2, <2>1 DEF SettingsKept
  <2>2. CASE ~\E p \in Installers : Reads(p, "settings")
    BY <1>1, <1>2, <2>2 DEF SettingsKept, Reads
  <2>3. QED BY <2>1, <2>2
<1>10. QED BY <1>4, <1>5, <1>7, <1>8, <1>9

LEMMA InstallChooseKeeps ==
    ASSUME InstallIInv, NEW mode \in InstallModes, Choose(mode)
    PROVE  InstallIInv'
<1> USE DEF InstallIInv
<1>1. /\ wizard' = mode
      /\ UNCHANGED <<env, settings, scripts, installer, settled, authored, retouched,
                     overlapped, overlaid, cut>>
  BY DEF Choose, historyOfInstalls
<1>2. InstallTyped' BY <1>1 DEF InstallTyped, ModesOrNone
<1>3. UserLinesKept' /\ KeysKept' BY <1>1 DEF UserLinesKept, KeysKept, Reads, Writing
<1>4. RunsKept' BY <1>1 DEF RunsKept, RunKept, ModeOf, HooksDone, TextDone
<1>5. ScriptsKept' BY <1>1 DEF ScriptsKept, Writing
<1>6. SettingsKept' BY <1>1 DEF SettingsKept, Reads, Writing
<1>7. QED BY <1>2, <1>3, <1>4, <1>5, <1>6

LEMMA InstallNextKeeps ==
    ASSUME InstallIInv, [InstallationNext]_installVars
    PROVE  InstallIInv'
<1>1. ASSUME NEW p \in Installers, NEW mode \in InstallModes, Begin(p, mode)
      PROVE  InstallIInv'
  BY <1>1, InstallBeginKeeps
<1>2. ASSUME NEW mode \in InstallModes, Choose(mode) PROVE InstallIInv'
  BY <1>2, InstallChooseKeeps
<1>3. ASSUME NEW values \in {<<>>, <<Line("API_KEY", "k")>>}, SaveValues(values)
      PROVE  InstallIInv'
  BY <1>3, InstallSaveKeeps
<1>4. CASE Retouch BY <1>4, InstallRetouchKeeps
<1>5. CASE UNCHANGED installVars
  <2>1. UNCHANGED <<env, settings, scripts, installer, wizard, settled, authored, retouched,
                    overlapped, overlaid, cut>>
    BY <1>5 DEF installVars, historyOfInstalls
  <2>2. QED BY <2>1 DEF InstallIInv, InstallTyped, UserLinesKept, KeysKept, RunsKept, RunKept,
                        ModeOf, HooksDone, TextDone, ScriptsKept, SettingsKept, Reads, Writing
<1>6. ASSUME NEW p \in Installers,
             \/ ReadEnv(p) \/ OpenEnv(p) \/ WriteEnv(p)
             \/ SkipHooks(p) \/ OpenScript(p) \/ WriteScript(p)
             \/ ReadSettings(p) \/ OpenSettings(p) \/ WriteSettings(p)
             \/ EndInstall(p) \/ InstallerKilled(p)
      PROVE  InstallIInv'
  BY <1>6, InstallReadEnvKeeps, InstallOpenEnvKeeps, InstallWriteEnvKeeps,
     InstallSkipHooksKeeps, InstallOpenScriptKeeps, InstallWriteScriptKeeps,
     InstallReadSettingsKeeps, InstallOpenSettingsKeeps, InstallWriteSettingsKeeps,
     InstallEndKeeps, InstallKilledKeeps
<1>7. QED BY <1>1, <1>2, <1>3, <1>4, <1>5, <1>6 DEF InstallationNext

\* The installer and the wizard keep their invariant: who holds a copy of the env file holds
\* the lines of the user, a run that is alone has the file of its mode behind it, what is
\* registered has a script, and a copy of settings.json is as the last change left it.
THEOREM InstallInvariance == InstallationSpec => []InstallIInv
<1>1. InstallationInit => InstallIInv BY InstallInitIInv
<1>2. InstallIInv /\ [InstallationNext]_installVars => InstallIInv' BY InstallNextKeeps
<1>3. QED BY <1>1, <1>2, PTL DEF InstallationSpec

LEMMA InstallIInvSound == InstallIInv => InstallationTypeOK /\ InstallationSound
<1> SUFFICES ASSUME InstallIInv PROVE InstallationTypeOK /\ InstallationSound OBVIOUS
<1> USE DEF InstallIInv
<1>1. \A p \in Installers : installer[p] \in InstallStates BY DEF InstallTyped
<1>2. settings \in SettingsTexts /\ settings.hooks \in Seq(HookEvents)
      /\ IsInjective(settings.hooks) /\ ToSet(settings.hooks) \subseteq HookEvents
  <2>1. settings \in SettingsTexts BY DEF InstallTyped
  <2>2. settings.hooks \in Seq(HookEvents) /\ IsInjective(settings.hooks)
    BY <2>1 DEF SettingsTexts
  <2>3. ToSet(settings.hooks) \subseteq HookEvents
    BY <2>2, LenProperties, ElementOfSeq DEF ToSet
  <2>4. QED BY <2>1, <2>2, <2>3
<1>3. DOMAIN scripts = HookEvents BY DEF InstallTyped
<1>4. InstallationTypeOK
  <2>1. settings.text \in {"none", "whole", "empty", "torn"} BY <1>2 DEF SettingsTexts
  <2>2. \A e \in DOMAIN scripts : scripts[e] \in {"none", "torn", "whole"}
    BY DEF InstallTyped
  <2>3. \A p \in Installers :
          installer[p].pc \in {"idle", "env", "scripts", "settings", "mcp"}
    BY <1>1, RunIs
  <2>4. QED BY <1>2, <2>1, <2>2, <2>3
            DEF InstallationTypeOK, InstallTyped, ModesOrNone, HookEvents
<1>5. UserLinesStay BY DEF UserLinesKept, UserLinesStay
<1>6. RunsSettle
  <2>1. ASSUME settled # NoMode, NEW line \in ToSet(EnvLinesOf[settled])
        PROVE  /\ line \in ToSet(env)
               /\ "env" \notin overlaid =>
                     Cardinality({k \in DOMAIN env : env[k].key = line.key}) = 1
    <3>1. settled \in InstallModes BY <2>1 DEF InstallTyped, ModesOrNone
    <3>2. EnvLinesOf[settled] \in FreshFiles BY <3>1, ModesFresh
    <3>3. PICK n \in DOMAIN EnvLinesOf[settled] : line = EnvLinesOf[settled][n]
      BY <2>1 DEF ToSet
    <3>4. PICK k \in DOMAIN env : env[k] = line
      BY <2>1, <3>3 DEF RunsKept, HasAll
    <3>5. line.key # "#" BY <3>2, <3>3 DEF FreshFiles
    <3>6. "env" \notin overlaid => KeysOnce(env) BY DEF KeysKept
    <3>7. "env" \notin overlaid => {j \in DOMAIN env : env[j].key = line.key} = {k}
      BY <3>4, <3>5, <3>6 DEF KeysOnce
    <3>8. QED BY <3>4, <3>7, FS_Singleton DEF ToSet
  <2>2. settled # NoMode /\ settings # NoSettings =>
           settings.text = "whole" /\ ToSet(settings.hooks) = ToSet(Events)
    BY DEF RunsKept, HooksDone, TextDone, HookEvents
  <2>3. \A e \in DOMAIN scripts : scripts[e] = "torn" =>
          "scripts" \in cut \/ \E p \in Installers : Writing(p, "scripts")
    BY <1>3 DEF ScriptsKept
  <2>4. QED BY <2>1, <2>2, <2>3 DEF RunsSettle
<1>7. HooksRegisteredOnce BY <1>2 DEF HooksRegisteredOnce, ScriptsKept, SettingsKept
<1>8. QED BY <1>4, <1>5, <1>6, <1>7 DEF InstallationSound

\* However many runs of the installer and saves of the wizard there are, in any overlap and
\* killed anywhere: each hook is registered once and has a script; the user's lines in the env
\* file stay unless two merged the file at once or one was killed over it; settings.json is no
\* JSON only where one of two that overlapped wrote over the text of the other; and a run
\* beside which nothing ran leaves its mode and all hooks behind.
THEOREM InstallationIsSound == InstallationSpec => []InstallationSound
BY InstallInvariance, InstallIInvSound, PTL

-----------------------------------------------------------------------------
(* Beside the other services                                               *)

LEMMA ServicesDoAdmin == ServicesSpec => AdminSpec
<1>1. ServicesInit => AdminInit BY DEF ServicesInit
<1>2. [ServicesNext]_servicesVars => [AdminNext]_adminVars BY DEF ServicesNext, servicesVars
<1>3. QED BY <1>1, <1>2, PTL DEF ServicesSpec, AdminSpec

LEMMA ServicesDoInstall == ServicesSpec => InstallationSpec
<1>1. ServicesInit => InstallationInit BY DEF ServicesInit
<1>2. [ServicesNext]_servicesVars => [InstallationNext]_installVars
  BY DEF ServicesNext, servicesVars
<1>3. QED BY <1>1, <1>2, PTL DEF ServicesSpec, InstallationSpec

\* Whichever services run: what administrators set up and what installers leave behind is as
\* AdministrationSound and InstallationSound say.
THEOREM SetupIsSound == ServicesSpec => []SetupSound
<1>1. AdministrationSound /\ InstallationSound => SetupSound BY DEF SetupSound
<1>2. QED
  BY <1>1, ServicesDoAdmin, ServicesDoInstall, AdministrationIsSound, InstallationIsSound, PTL
=============================================================================
