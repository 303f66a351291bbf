----------------------------- MODULE PolicyPool ------------------------------
(***************************************************************************)
(* The policy pool: a priority queue of (partial joint policy, value)      *)
(* items, as a set of items.  The queue orders items by value only, so     *)
(* which of the items of greatest value is at the top is left open.        *)
(***************************************************************************)
EXTENDS Integers

(* The items that may be at the top of the queue. *)
Select(pool) == {i \in pool : \A j \in pool : j.value <= i.value}

(* Mutant of Pop: the top never is the named item. *)
PopNothing(pool, ppi) == pool

(* Pop(ppi) removes the top, and only when it is the item the caller names. *)
Pop(pool, ppi) == pool \ {ppi}

Insert(pool, ppi) == pool \cup {ppi}

Union(pool, other) == pool \cup other

(* Keeps the items whose value is strictly greater than v. *)
Prune(pool, v) == {i \in pool : i.value > v}
=============================================================================
