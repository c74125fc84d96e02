----------------------------- MODULE MCCatalog -----------------------------
(* Catalog on small sets of sessions, slots and values.                     *)
EXTENDS Catalog, TLC

Symmetric == Permutations(Txn) \cup Permutations(Rid) \cup Permutations(Key)

(* Nothing is explored beyond a state with a value taken twice.             *)
ValuesOnce == "taken twice" \notin faults
=============================================================================
