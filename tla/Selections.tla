------------------------------- MODULE Selections -------------------------------
(* Filtering an array: Array.prototype.filter, and MongoDB's $pull. *)
EXTENDS Integers, Sequences, FiniteSets

\* The elements at the positions kept, in their order.
Kept(items, kept) ==
  LET Place(i) == Cardinality({k \in kept : k <= i}) IN
  [j \in 1..Cardinality(kept) |-> items[CHOOSE i \in kept : Place(i) = j]]
=============================================================================
