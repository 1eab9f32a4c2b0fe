----------------------------- MODULE ContextBus -----------------------------
(***************************************************************************)
(* What a context bus promises (the ContextBus protocol, as InMemoryBus    *)
(* implements it): a publish is one step, content that is already on the   *)
(* bus is not stored again, and its publisher is told the id of the item   *)
(* that was.                                                               *)
(***************************************************************************)
EXTENDS Naturals

CONSTANTS
    Procs,   \* publishers
    Items,   \* items that may be published: [id, hash]
    Legacy,  \* rows without a content hash that may be there at the start
    NoHash,  \* the content hash of a legacy row
    None     \* no answer yet

VARIABLES
    items,   \* what is on the bus
    answer   \* the answer each publisher got last

busVars == <<items, answer>>

Ids == {i.id : i \in Items}
Answer == [id: Ids, deduped: BOOLEAN]

Init ==
    /\ items \in SUBSET Legacy
    /\ answer = [p \in Procs |-> None]

Same(i, j) == i.hash # NoHash /\ i.hash = j.hash

Stored(i) ==
    /\ \A j \in items : ~Same(i, j)
    /\ items' = items \union {i}

Answered(p, id, deduped) ==
    answer' = [answer EXCEPT ![p] = [id |-> id, deduped |-> deduped]]

Publish(p, i) ==
    \/ Stored(i) /\ Answered(p, i.id, FALSE)
    \/ /\ \E j \in items : Same(i, j) /\ Answered(p, j.id, TRUE)
       /\ UNCHANGED items

\* The publisher dies when its item is stored, before it knows.
PublishUnanswered(i) == Stored(i) /\ UNCHANGED answer

Clear == items' = {} /\ UNCHANGED answer

Next ==
    \/ \E p \in Procs, i \in Items : Publish(p, i)
    \/ \E i \in Items : PublishUnanswered(i)
    \/ Clear

Spec == Init /\ [][Next]_busVars
=============================================================================
