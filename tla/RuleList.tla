------------------------------ MODULE RuleList ------------------------------
(***************************************************************************)
(* What the rule API promises: an ordered list of rules with stable ids.   *)
(* Rules are added at the end; a rule can be changed, removed, or moved to *)
(* a position, counted from 1, where a position beyond the end means last. *)
(***************************************************************************)
EXTENDS Naturals, Sequences, SequencesExt

VARIABLES
    order,      \* ids of the rules, as they are evaluated
    body        \* their contents, by id

rvars == <<order, body>>

Init == order = <<>> /\ body = [i \in {} |-> 0]

AddLast(i, b) ==
    /\ i \notin ToSet(order)
    /\ order' = Append(order, i)
    /\ body' = [j \in ToSet(order') |-> IF j = i THEN b ELSE body[j]]

Change(i, b) ==
    /\ i \in ToSet(order)
    /\ body' = [body EXCEPT ![i] = b]
    /\ UNCHANGED order

Delete(i) ==
    /\ i \in ToSet(order)
    /\ order' = Remove(order, i)
    /\ body' = [j \in ToSet(order') |-> body[j]]

MoveTo(i, p) ==
    /\ i \in ToSet(order)
    /\ order' = InsertAt(Remove(order, i), IF p > Len(order) THEN Len(order) ELSE p, i)
    /\ UNCHANGED body
=============================================================================
